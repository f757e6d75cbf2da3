----------------------------- MODULE Deployment ------------------------------
(***************************************************************************)
(* The operator's commands on one PostgreSQL database: alembic upgrades    *)
(* and downgrades, python -m db.seed (several may overlap), reset_demo,    *)
(* bootstrap_user, the demo pipeline and the smoke check, next to what the *)
(* API writes.  Every program writes through the models, so that it works  *)
(* only on a schema that serves them (Schema).                             *)
(*                                                                         *)
(* Of the demo data the model keeps one rule, one event and one alert that *)
(* is linked to it, one case with a link to the alert and one activity;    *)
(* the seed treats all of a kind alike.  A row is named by who inserted it *)
(* and after how many deletions of everything.  The natural key of the     *)
(* rule is its name, which the API gives and takes; the activity is only   *)
(* told by its text, which a note of an analyst may repeat.                *)
(*                                                                         *)
(* A seed and a reset are one transaction each, read committed: an insert  *)
(* waits for an uncommitted row with the same unique key, and fails when   *)
(* that one is committed or a parent is gone.  A migration waits for the   *)
(* transactions that have touched its tables, as its ALTER TABLE does.     *)
(* No name here is one of Workspace: Workspace_proofs reasons about both.  *)
(***************************************************************************)
EXTENDS Schema, FiniteSets, Sequences

CONSTANTS
  Seeders,     \* runs of python -m db.seed
  Stops,       \* revisions that are asked for in an upgrade or a downgrade
  Granted,     \* roles that are asked for in a bootstrap
  MaxResets,   \* bound: successful resets
  MaxDowns     \* bound: downgrades

ASSUME SeederAssumption == {"nobody", "api", "reset"} \cap Seeders = {}
ASSUME StopAssumption == Stops \subseteq 0 .. Latest
ASSUME GrantAssumption == Granted \subseteq {"viewer", "analyst", "detection_engineer", "admin"}
ASSUME BoundAssumption == MaxResets \in Nat /\ MaxDowns \in Nat

VARIABLES
  rev,      \* alembic_version, 0 for none
  row,      \* kind -> the rows with the natural key of the demo data
  links,    \* alert_event and case_alerts: kind and the rows that are linked
  acts,     \* case_activities with the text of the seed: case and inserter
  others,   \* detection_rules under other names: "none" or "some"
  account,  \* the demo account's role, or "none"
  audited,  \* audit_events has a row
  tx,       \* seeder -> its transaction
  smoke,    \* where the smoke check is, and whether all is well so far
  resets, downs

demo == <<row, links, acts>>
work == <<others, account, audited>>
tools == <<tx, smoke>>
deploymentVars == <<rev, demo, work, tools, resets, downs>>

Kinds == {"rule", "event", "alert", "case"}
\* The order of seed(): a rule before the event, and so on.
Order == <<"rule", "event", "alert", "alert_event", "case", "case_alert", "activity">>
Parents == [alert_event |-> {"alert", "event"}, case_alert |-> {"case", "alert"},
            activity |-> {"case"}]
Tables == [rule |-> "detection_rules", event |-> "events", alert |-> "alerts",
           alert_event |-> "alert_event", case |-> "cases", case_alert |-> "case_alerts",
           activity |-> "case_activities"]

Row(who) == [by |-> who, after |-> resets + downs]
NoRow == [by |-> "nobody", after |-> 0]
Idle == [at |-> 0, insert |-> FALSE, holds |-> [k \in Kinds |-> NoRow], new |-> {}]

DeploymentInit == /\ rev = 0
                  /\ row = [k \in Kinds |-> {}] /\ links = {} /\ acts = {}
                  /\ others = "none" /\ account = "none" /\ audited = FALSE
                  /\ tx = [s \in Seeders |-> Idle]
                  /\ smoke = [at |-> "idle", ok |-> TRUE]
                  /\ resets = 0 /\ downs = 0
-----------------------------------------------------------------------------
(* Migrations. *)

\* A smoke check that somebody changes the schema or the data under is not
\* followed any further.
Disturb == smoke' = [at |-> "idle", ok |-> TRUE]

Quiet == \A s \in Seeders : tx[s].at = 0

Upgrade(to) ==
  /\ rev < to /\ Quiet
  /\ rev' = to
  /\ Disturb
  /\ UNCHANGED <<demo, work, tx, resets, downs>>

\* Dropped columns and tables take their contents along: the accounts, their
\* roles (an upgrade makes every user a viewer) and the audit trail.
Downgrade(to) ==
  /\ to < rev /\ Quiet /\ downs < MaxDowns
  /\ rev' = to /\ downs' = downs + 1
  /\ row' = IF to < 1 THEN [k \in Kinds |-> {}] ELSE row
  /\ links' = IF to < 1 THEN {} ELSE links
  /\ acts' = IF to < 1 THEN {} ELSE acts
  /\ others' = IF to < 1 THEN "none" ELSE others
  /\ account' = CASE to < Users -> "none"
                  [] to \in Users .. UserRoles - 1 /\ account # "none" -> "viewer"
                  [] OTHER -> account
  /\ audited' = (audited /\ to >= Audit)
  /\ Disturb
  /\ UNCHANGED <<tx, resets>>
-----------------------------------------------------------------------------
(* The seed. *)

\* The step seeder s is at, and what its transaction sees.
Kind(s) == Order[tx[s].at]
Link(s, k) == <<k, [p \in Parents[k] |-> tx[s].holds[p]]>>
Sees(s, k) ==
  CASE k \in Kinds -> row[k] # {}
    [] k = "activity" -> \E a \in acts : a.case = tx[s].holds["case"]
    [] OTHER -> Link(s, k) \in links

StartSeed(s) ==
  /\ tx[s] = Idle
  /\ tx' = [tx EXCEPT ![s].at = 1]
  /\ UNCHANGED <<rev, demo, work, smoke, resets, downs>>

Step(t) == [t EXCEPT !.at = @ + 1, !.insert = FALSE]

\* one_or_none of a query that finds several rows raises.
Repeated(s, k) ==
  Cardinality(CASE k \in Kinds -> row[k]
                [] k = "activity" -> {a \in acts : a.case = tx[s].holds["case"]}
                [] OTHER -> {Link(s, k)} \cap links) > 1

\* get_or_create: look the row up by its natural key; two of them, or a table
\* that is not there yet, end the run.
Lookup(s) ==
  /\ ~tx[s].insert
  /\ LET k == Kind(s)
         fails == Tables[k] \notin Served[rev] \/ Repeated(s, k)
     IN tx' = [tx EXCEPT ![s] =
          IF fails THEN Idle
          ELSE IF ~Sees(s, k) THEN [@ EXCEPT !.insert = TRUE]
          ELSE IF k \in Kinds THEN [Step(@) EXCEPT !.holds[k] = CHOOSE r \in row[k] : TRUE]
          ELSE Step(@)]
  /\ UNCHANGED <<rev, demo, work, smoke, resets, downs>>

Keyed(k) == k # "activity"     \* activities have no unique key
ParentsOf(k) == IF k \in DOMAIN Parents THEN Parents[k] ELSE {}

\* Mutant: natural keys are not unique in the database.
NeverTaken(s, k) == FALSE
\* Another row has the key by now.
Taken(s, k) == Keyed(k) /\ Sees(s, k)
\* Another transaction has inserted it and not committed.
Pending(s, k) == Keyed(k) /\ \E t \in Seeders \ {s} : k \in tx[t].new

\* The row is flushed, or refused: its key is taken, or a parent was deleted
\* by a reset; then the whole transaction is rolled back.
Insert(s) ==
  /\ tx[s].insert
  /\ LET k == Kind(s)
         t == tx[s]
         orphan == \E p \in ParentsOf(k) : p \notin t.new /\ t.holds[p] \notin row[p]
     IN /\ ~Pending(s, k)
        /\ tx' = [tx EXCEPT ![s] =
             IF Taken(s, k) \/ orphan THEN Idle
             ELSE [Step(t) EXCEPT !.new = @ \cup {k},
                                  !.holds = IF k \in Kinds THEN [@ EXCEPT ![k] = Row(s)] ELSE @]]
  /\ UNCHANGED <<rev, demo, work, smoke, resets, downs>>

GetOrCreate(s, kinds) == /\ tx[s].at \in 1 .. Len(Order) /\ Kind(s) \in kinds
                         /\ Lookup(s) \/ Insert(s)
SeedDetectionRules(s) == GetOrCreate(s, {"rule"})
SeedEvents(s) == GetOrCreate(s, {"event"})
SeedAlerts(s) == GetOrCreate(s, {"alert", "alert_event"})
SeedCases(s) == GetOrCreate(s, {"case", "case_alert", "activity"})

\* The rows of a transaction become visible.
Publish(s, new) ==
  /\ row' = [k \in Kinds |-> IF k \in new THEN row[k] \cup {tx[s].holds[k]} ELSE row[k]]
  /\ links' = links \cup {Link(s, k) : k \in new \cap {"alert_event", "case_alert"}}
  /\ acts' = IF "activity" \in new
             THEN acts \cup {[case |-> tx[s].holds["case"], by |-> s, after |-> resets + downs]}
             ELSE acts

\* One commit, after the last row.
CommitSeed(s) ==
  /\ tx[s].at > Len(Order)
  /\ Publish(s, tx[s].new)
  /\ tx' = [tx EXCEPT ![s] = Idle]
  /\ UNCHANGED <<rev, work, smoke, resets, downs>>

\* The process is killed.
CrashSeed(s) ==
  /\ tx[s].at > 0
  /\ tx' = [tx EXCEPT ![s] = Idle]
  /\ UNCHANGED <<rev, demo, work, smoke, resets, downs>>
-----------------------------------------------------------------------------
(* The reset and the accounts. *)

\* The trigger of revision d8b4f9e1a623 rejects the deletion of an audit row, and
\* with it the whole reset.
DeleteRejected == audited

\* reset_demo, confirmed and in a demo environment: all rows go and the demo data
\* is inserted, in one transaction.  It waits for rows that are not committed.
Reset ==
  /\ resets < MaxResets
  /\ DOMAIN Metadata \subseteq Served[rev]
  /\ \A s \in Seeders : tx[s].new = {}
  /\ ~DeleteRejected
  /\ LET r == [by |-> "reset", after |-> resets + downs] IN
       /\ row' = [k \in Kinds |-> {r}]
       /\ links' = {<<k, [p \in Parents[k] |-> r]>> : k \in {"alert_event", "case_alert"}}
       /\ acts' = {[case |-> r, by |-> "reset", after |-> resets + downs]}
  /\ others' = "none" /\ account' = "none" /\ audited' = FALSE
  /\ resets' = resets + 1
  /\ Disturb
  /\ UNCHANGED <<rev, tx, downs>>

\* bootstrap_user: an account that exists is left as it is.
Bootstrap(role) ==
  /\ "users" \in Served[rev] /\ account = "none"
  /\ account' = role
  /\ UNCHANGED <<rev, demo, others, audited, tools, resets, downs>>
-----------------------------------------------------------------------------
(* What is written through the API: with its audit row, or not at all. *)

Access == {"users", "auth_sessions", "audit_events"}
Can(tables, roles) == (Access \cup tables) \subseteq Served[rev] /\ account \in roles
Audited == Access \subseteq Served[rev]

\* A login is audited whether it succeeds or not.
Login == audited' = (audited \/ Audited)

Editor == {"detection_engineer", "admin"}
Analyst == Editor \cup {"analyst"}
Viewer == Analyst \cup {"viewer"}

\* PATCH /rules/{id} on the demo rule: its logic, or its name as well.
EditRule ==
  /\ Can({"detection_rules", "detection_rule_versions"}, Editor)
  /\ row["rule"] # {}
  /\ \/ UNCHANGED <<row, others>>
     \/ row' = [row EXCEPT !["rule"] = {}] /\ others' = "some"
  /\ audited' = TRUE
  /\ UNCHANGED <<rev, links, acts, account, tools, resets, downs>>

\* POST /rules under another name.
CreateRule ==
  /\ Can({"detection_rules", "detection_rule_versions"}, Editor)
  /\ others' = "some" /\ audited' = TRUE
  /\ UNCHANGED <<rev, demo, account, tools, resets, downs>>

\* POST /rules under the name of the demo rule, or PATCH on another rule that
\* takes this name.
NameRule ==
  /\ Can({"detection_rules", "detection_rule_versions"}, Editor)
  /\ row["rule"] = {} /\ \A s \in Seeders : "rule" \notin tx[s].new
  /\ row' = [row EXCEPT !["rule"] = {Row("api")}]
  /\ others' \in {others, "none"}
  /\ audited' = TRUE
  /\ UNCHANGED <<rev, links, acts, account, tools, resets, downs>>

\* The first case of the year gets the number of the first demo case.
CreateCase ==
  /\ Can({"cases", "case_alerts", "case_activities"}, Analyst)
  /\ row["case"] = {} /\ \A s \in Seeders : "case" \notin tx[s].new
  /\ row' = [row EXCEPT !["case"] = {Row("api")}] /\ audited' = TRUE
  /\ UNCHANGED <<rev, links, acts, others, account, tools, resets, downs>>

\* DELETE /cases/{id}/alerts/{alert_id}
Unlink ==
  /\ Can({"case_alerts", "case_activities"}, Analyst)
  /\ \E l \in links : /\ l[1] = "case_alert"
                      /\ links' = links \ {l}
  /\ audited' = TRUE
  /\ UNCHANGED <<rev, row, acts, others, account, tools, resets, downs>>

\* POST /cases/{id}/activities with the text of the demo activity, once between
\* two deletions (a bound).
PostActivity ==
  /\ Can({"cases", "case_activities"}, Analyst)
  /\ \E r \in row["case"] : acts' = acts \cup {[case |-> r, by |-> "api", after |-> resets + downs]}
  /\ audited' = TRUE
  /\ UNCHANGED <<rev, row, links, others, account, tools, resets, downs>>
-----------------------------------------------------------------------------
(* scripts/demo_pipeline.py: log in, sync the fixture, execute the rules.  Other  *)
(* clients make the same calls, so these may come in any order.  What a sync and  *)
(* an execution store is told in Ingestion and in DetectionExecution: here they   *)
(* leave their audit row, which a reset cannot delete.                            *)

PipelineLogin ==
  /\ Login
  /\ UNCHANGED <<rev, demo, others, account, tools, resets, downs>>

PipelineSync ==
  /\ audited' = (audited \/ Can({}, Viewer))
  /\ UNCHANGED <<rev, demo, others, account, tools, resets, downs>>

PipelineExecute ==
  /\ audited' = (audited \/ Can({}, Viewer))
  /\ UNCHANGED <<rev, demo, others, account, tools, resets, downs>>
-----------------------------------------------------------------------------
(* scripts/smoke.py. *)

Smoke(from, ok, to) ==
  /\ smoke.at = from
  /\ smoke' = [smoke EXCEPT !.at = to, !.ok = @ /\ ok]
  /\ UNCHANGED <<rev, demo, others, account, tx, resets, downs>>

\* check_database: an unreachable database ends the check at once.
CheckDatabase == /\ smoke.at = "idle"
                 /\ smoke' = [at |-> "migrations", ok |-> TRUE]
                 /\ UNCHANGED <<rev, demo, work, tx, resets, downs>>

\* Mutant: any applied revision will do.
SomeRevision == rev # 0
AtHead == rev = Latest

\* The demo data is only looked for in a database at head.
CheckMigrations == /\ Smoke("migrations", AtHead, IF AtHead THEN "seed_data" ELSE "api")
                   /\ UNCHANGED audited

\* Any rule will do, whatever its name.
Rules == row["rule"] # {} \/ others = "some"

CheckSeedData ==
  /\ Smoke("seed_data", row["alert"] # {} /\ Rules, "api")
  /\ UNCHANGED audited

\* check_api_health and check_api_ready: without an API the check ends; one that is
\* not ready is asked on.
CheckApi == /\ \/ \E ready \in BOOLEAN : Smoke("api", ready, "read")
               \/ Smoke("api", FALSE, "end")
            /\ UNCHANGED audited

CheckAuthenticatedRead ==
  /\ Smoke("read", Can({"alerts"}, Viewer), "end")
  /\ Login

EndSmoke == /\ smoke.at = "end"
            /\ smoke' = [at |-> "idle", ok |-> TRUE]
            /\ UNCHANGED <<rev, demo, work, tx, resets, downs>>

Seed(s) == \/ StartSeed(s) \/ SeedDetectionRules(s) \/ SeedEvents(s) \/ SeedAlerts(s)
           \/ SeedCases(s) \/ CommitSeed(s) \/ CrashSeed(s)

DeploymentNext == \/ \E to \in Stops : Upgrade(to) \/ Downgrade(to)
                  \/ \E s \in Seeders : Seed(s)
                  \/ Reset
                  \/ \E role \in Granted : Bootstrap(role)
                  \/ EditRule \/ CreateRule \/ NameRule \/ CreateCase \/ Unlink \/ PostActivity
                  \/ PipelineLogin \/ PipelineSync \/ PipelineExecute
                  \/ CheckDatabase \/ CheckMigrations \/ CheckSeedData \/ CheckApi
                  \/ CheckAuthenticatedRead \/ EndSmoke

DeploymentSpec == DeploymentInit /\ [][DeploymentNext]_deploymentVars
-----------------------------------------------------------------------------
\* Whatever upgrades and downgrades a database has been through, at head it has the
\* tables the models declare: every column, whether it may be null, every unique
\* key and every foreign key.
HeadIsWhatModelsDeclare == RevisionsReverse /\ (rev = Latest => SchemaAt[rev] = Metadata)

\* But for the rule, the demo data is there whole or not at all, and nothing of it
\* twice: although two seeds overlap or are killed, a reset replaces the rows one of
\* them has looked up, or the API has taken the number of a demo case before.  What
\* the API can do to it: give the rule another name, so that the next seed inserts
\* a second one, or its name to another rule; unlink the alert from the case; and
\* repeat the text of the activity.
DemoDataOnce ==
  LET rest == {k \in Kinds \ {"rule"} : row[k] # {}} IN
  /\ rest \in {{}, {"case"}, Kinds \ {"rule"}}
  /\ \A k \in Kinds : Cardinality(row[k]) <= 1
  /\ "event" \in rest => acts # {}
  /\ Cardinality({a \in acts : a.by # "api"}) <= (IF "event" \in rest THEN 1 ELSE 0)
  /\ Cardinality({l \in links : l[1] = "alert_event"}) = IF "event" \in rest THEN 1 ELSE 0
  /\ \A l \in links : \A p \in DOMAIN l[2] : l[2][p] \in row[p]
  /\ \A a \in acts : a.case \in row["case"]

\* When the smoke check says that all checks have passed, and nobody migrated or
\* reset the database meanwhile, the database is at head with the demo data in it
\* (of the rules only that there is one: the demo rule may have another name by
\* now) and an account that can read it.
SmokeSaysWhatIs ==
  smoke.at = "end" /\ smoke.ok =>
    /\ SchemaAt[rev] = Metadata
    /\ DemoDataOnce /\ row["alert"] # {} /\ Rules
    /\ account # "none" /\ audited
=============================================================================
