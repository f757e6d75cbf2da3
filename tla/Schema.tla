------------------------------- MODULE Schema --------------------------------
(***************************************************************************)
(* The tables of the database twice: as db/models declares them and as the *)
(* revisions under alembic/versions build and remove them one after the    *)
(* other.                                                                  *)
(*                                                                         *)
(* A table is the columns a row must have, those it may leave null, the    *)
(* sets of columns with a unique index, and its foreign keys: column,      *)
(* parent table and what the deletion of the parent does.  The primary key *)
(* id, types, check constraints and indexes that are not unique are left   *)
(* out.                                                                    *)
(***************************************************************************)
EXTENDS Naturals, TLC

Table(required, optional, unique, parents) ==
  [required |-> required, optional |-> optional, unique |-> unique, parents |-> parents]
Columns(t) == t.required \cup t.optional

Stamps == {"created_at", "updated_at"}
Mitre == {"mitre_tactic", "mitre_technique_id", "mitre_technique_name"}
-----------------------------------------------------------------------------
(* What the models declare. *)

AlertEvent == Table({"alert_id", "event_id"}, {"stage"}, {{"alert_id", "event_id"}},
  {<<"alert_id", "alerts", "restrict">>, <<"event_id", "events", "restrict">>})

Alert == Table({"title", "severity", "status"} \cup Stamps,
  {"external_id", "description", "risk_score", "source", "rule_id", "detection_rule_id",
   "rule_version", "detection_run_id", "fingerprint", "rule_logic_snapshot", "match_explanation",
   "hostname", "username", "source_ip", "destination_ip", "first_seen", "last_seen"} \cup Mitre,
  {{"external_id"}, {"fingerprint"}},
  {<<"detection_rule_id", "detection_rules", "restrict">>,
   <<"detection_run_id", "detection_runs", "restrict">>})

Case == Table({"case_number", "title", "status", "priority"} \cup Stamps,
  {"description", "assignee", "closed_at"}, {{"case_number"}}, {})

CaseActivity == Table({"case_id", "activity_type", "message", "created_at"}, {"author"}, {},
  {<<"case_id", "cases", "restrict">>})

CaseAlert == Table({"case_id", "alert_id", "added_at"}, {}, {{"case_id", "alert_id"}},
  {<<"case_id", "cases", "restrict">>, <<"alert_id", "alerts", "restrict">>})

DetectionRule == Table(
  {"name", "query", "rule_type", "version", "lookback_window_seconds", "max_events_scanned",
   "suppression_window_seconds", "enabled_for_execution", "severity", "enabled"} \cup Stamps,
  {"description", "source", "language", "structured_logic", "schedule_interval_seconds",
   "risk_score"} \cup Mitre, {{"name"}}, {})

DetectionRuleVersion == Table({"detection_rule_id", "version", "rule_type", "created_at"},
  {"structured_logic", "legacy_query"}, {{"detection_rule_id", "version"}},
  {<<"detection_rule_id", "detection_rules", "restrict">>})

DetectionRun == Table(
  {"detection_rule_id", "rule_version", "window_start", "window_end", "started_at", "status",
   "events_scanned", "alerts_created", "dry_run"}, {"finished_at", "error_detail"}, {},
  {<<"detection_rule_id", "detection_rules", "restrict">>})

Event == Table({"event_id", "timestamp", "ingested_at", "source"},
  {"dedup_key", "ingestion_run_id", "source_provider", "source_instance", "source_index",
   "source_record_id", "dataset", "event_category", "event_action", "event_outcome", "message",
   "severity", "source_ip", "source_port", "destination_ip", "destination_port", "hostname",
   "username", "process_name", "process_command_line", "file_path", "normalization_version",
   "normalization_warnings", "raw_payload", "raw_event"},
  {{"event_id"}, {"dedup_key"}}, {<<"ingestion_run_id", "ingestion_runs", "restrict">>})

AIAnalysis == Table(
  {"analysis_type", "provider", "model", "prompt_version", "response_schema_version", "status",
   "created_at"},
  {"alert_id", "case_id", "output", "evidence_refs", "latency_ms", "usage",
   "rate_limit_remaining", "estimated_cost_usd", "error_message"}, {},
  {<<"alert_id", "alerts", "restrict">>, <<"case_id", "cases", "restrict">>})

AuditEvent == Table({"event_id", "occurred_at", "actor_type", "action", "outcome"},
  {"actor_user_id", "actor_identifier", "target_type", "target_id", "request_id", "source_ip",
   "source_context", "before_state", "after_state", "details"}, {{"event_id"}},
  {<<"actor_user_id", "users", "null">>})

IdempotencyRecord == Table(
  {"actor_user_id", "operation", "key_digest", "request_digest", "status", "created_at",
   "expires_at"}, {"response_status", "response_body"},
  {{"actor_user_id", "operation", "key_digest"}}, {<<"actor_user_id", "users", "cascade">>})

IngestionRun == Table(
  {"provider", "source_name", "status", "started_at", "fetched_count", "normalized_count",
   "persisted_count", "duplicate_count", "failed_count", "warning_count"},
  {"completed_at", "requested_start", "requested_end", "checkpoint_before", "checkpoint_after",
   "error_message"}, {}, {})

IngestionCheckpoint == Table({"provider", "source_name", "updated_at"},
  {"checkpoint", "last_run_id"}, {{"provider", "source_name"}},
  {<<"last_run_id", "ingestion_runs", "restrict">>})

User == Table({"username", "password_hash", "role", "is_active"} \cup Stamps, {"last_login_at"},
  {{"username"}}, {})

AuthSession == Table({"user_id", "token_hash", "created_at", "last_seen_at",
   "absolute_expires_at"}, {"revoked_at"}, {{"token_hash"}}, {<<"user_id", "users", "cascade">>})

\* Base.metadata.
Metadata ==
  [alerts |-> Alert, alert_event |-> AlertEvent, cases |-> Case,
   case_activities |-> CaseActivity, case_alerts |-> CaseAlert,
   detection_rules |-> DetectionRule, detection_rule_versions |-> DetectionRuleVersion,
   detection_runs |-> DetectionRun, events |-> Event, ai_analyses |-> AIAnalysis,
   audit_events |-> AuditEvent, idempotency_records |-> IdempotencyRecord,
   ingestion_runs |-> IngestionRun, ingestion_checkpoints |-> IngestionCheckpoint,
   users |-> User, auth_sessions |-> AuthSession]
-----------------------------------------------------------------------------
(* What the revisions do to a schema s, a function from names to tables. *)

Create(s, tables) == s @@ tables
Drop(s, names) == [t \in DOMAIN s \ names |-> s[t]]

Add(s, name, t) ==
  [s EXCEPT ![name] = Table(@.required \cup t.required, @.optional \cup t.optional,
                            @.unique \cup t.unique, @.parents \cup t.parents)]
Remove(s, name, columns) ==
  [s EXCEPT ![name] = Table(@.required \ columns, @.optional \ columns,
                            {u \in @.unique : u \cap columns = {}},
                            {p \in @.parents : p[1] \notin columns})]

\* 88a1df0e92a3
InitialSchema(s) == Create(s,
  [alerts |-> Table({"title", "severity", "status"} \cup Stamps,
     {"external_id", "description", "risk_score", "source", "rule_id", "hostname", "username",
      "source_ip", "destination_ip", "first_seen", "last_seen"} \cup Mitre, {{"external_id"}}, {}),
   cases |-> Table({"case_number", "title", "status", "priority"} \cup Stamps,
     {"description", "assignee", "closed_at"}, {{"case_number"}}, {}),
   detection_rules |-> Table({"name", "query", "severity", "enabled"} \cup Stamps,
     {"description", "source", "language", "risk_score"} \cup Mitre, {{"name"}}, {}),
   events |-> Table({"event_id", "timestamp", "ingested_at", "source"},
     {"dataset", "event_category", "event_action", "event_outcome", "message", "severity",
      "source_ip", "source_port", "destination_ip", "destination_port", "hostname", "username",
      "process_name", "process_command_line", "file_path", "raw_event"}, {{"event_id"}}, {}),
   alert_event |-> Table({"alert_id", "event_id"}, {}, {{"alert_id", "event_id"}},
     {<<"alert_id", "alerts", "restrict">>, <<"event_id", "events", "restrict">>}),
   case_activities |-> Table({"case_id", "activity_type", "message", "created_at"}, {"author"},
     {}, {<<"case_id", "cases", "restrict">>}),
   case_alerts |-> Table({"case_id", "alert_id", "added_at"}, {}, {{"case_id", "alert_id"}},
     {<<"alert_id", "alerts", "restrict">>, <<"case_id", "cases", "restrict">>})])
DropInitialSchema(s) ==
  Drop(s, {"case_alerts", "case_activities", "alert_event", "events", "detection_rules", "cases",
           "alerts"})

\* 3baf1c2d7e90
AddIngestion(s) == Add(
  Create(s,
    [ingestion_runs |-> Table(
       {"provider", "source_name", "status", "started_at", "fetched_count", "normalized_count",
        "persisted_count", "duplicate_count", "failed_count", "warning_count"},
       {"completed_at", "requested_start", "requested_end", "checkpoint_before",
        "checkpoint_after", "error_message"}, {}, {}),
     ingestion_checkpoints |-> Table({"provider", "source_name", "updated_at"},
       {"checkpoint", "last_run_id"}, {{"provider", "source_name"}},
       {<<"last_run_id", "ingestion_runs", "restrict">>})]),
  "events",
  Table({}, {"dedup_key", "ingestion_run_id", "source_provider", "source_instance",
             "source_index", "source_record_id", "normalization_version",
             "normalization_warnings", "raw_payload"},
        {{"dedup_key"}}, {<<"ingestion_run_id", "ingestion_runs", "restrict">>}))
DropIngestion(s) ==
  Drop(Remove(s, "events", {"raw_payload", "normalization_warnings", "normalization_version",
                            "source_record_id", "source_index", "source_instance",
                            "source_provider", "ingestion_run_id", "dedup_key"}),
       {"ingestion_checkpoints", "ingestion_runs"})

\* 6c4d2e8f1a90: the new columns of detection_rules are filled before they are
\* made NOT NULL.
AddDetection(s) ==
  LET columns == Add(s, "detection_rules",
        Table({"rule_type", "version", "lookback_window_seconds", "max_events_scanned",
               "suppression_window_seconds", "enabled_for_execution"},
              {"structured_logic", "schedule_interval_seconds"}, {}, {}))
      tables == Create(columns,
        [detection_rule_versions |-> Table(
           {"detection_rule_id", "version", "rule_type", "created_at"},
           {"structured_logic", "legacy_query"}, {{"detection_rule_id", "version"}},
           {<<"detection_rule_id", "detection_rules", "restrict">>}),
         detection_runs |-> Table(
           {"detection_rule_id", "rule_version", "window_start", "window_end", "started_at",
            "status", "events_scanned", "alerts_created", "dry_run"},
           {"finished_at", "error_detail"}, {},
           {<<"detection_rule_id", "detection_rules", "restrict">>})])
      alerts == Add(tables, "alerts",
        Table({}, {"detection_rule_id", "rule_version", "detection_run_id", "fingerprint",
                   "rule_logic_snapshot", "match_explanation"}, {{"fingerprint"}},
              {<<"detection_rule_id", "detection_rules", "restrict">>,
               <<"detection_run_id", "detection_runs", "restrict">>}))
  IN Add(alerts, "alert_event", Table({}, {"stage"}, {}, {}))
DropDetection(s) ==
  LET links == Remove(s, "alert_event", {"stage"})
      alerts == Remove(links, "alerts",
        {"match_explanation", "rule_logic_snapshot", "fingerprint", "detection_run_id",
         "rule_version", "detection_rule_id"})
      tables == Drop(alerts, {"detection_runs", "detection_rule_versions"})
  IN Remove(tables, "detection_rules",
       {"enabled_for_execution", "suppression_window_seconds", "max_events_scanned",
        "schedule_interval_seconds", "lookback_window_seconds", "version", "rule_type",
        "structured_logic"})

\* 9d2f4a6b7c81
AddAnalyses(s) == Create(s,
  [ai_analyses |-> Table(
     {"analysis_type", "provider", "model", "prompt_version", "response_schema_version",
      "status", "created_at"},
     {"alert_id", "case_id", "output", "evidence_refs", "latency_ms", "usage", "error_message"},
     {}, {<<"alert_id", "alerts", "restrict">>, <<"case_id", "cases", "restrict">>})])
DropAnalyses(s) == Drop(s, {"ai_analyses"})

\* a1e3f5b7c9d2
\* Mutant: one column of the model is forgotten.
AddCostsPartly(s) == Add(s, "ai_analyses", Table({}, {"rate_limit_remaining"}, {}, {}))
AddCosts(s) ==
  Add(s, "ai_analyses", Table({}, {"rate_limit_remaining", "estimated_cost_usd"}, {}, {}))
DropCosts(s) == Remove(s, "ai_analyses", {"estimated_cost_usd", "rate_limit_remaining"})

\* b6f2a7c9d401
AddUsers(s) == Create(s,
  [users |-> Table({"username", "password_hash", "is_active"} \cup Stamps, {"last_login_at"},
                   {{"username"}}, {}),
   auth_sessions |-> Table({"user_id", "token_hash", "created_at", "last_seen_at",
                            "absolute_expires_at"}, {"revoked_at"}, {{"token_hash"}},
                           {<<"user_id", "users", "cascade">>})])
DropUsers(s) == Drop(s, {"auth_sessions", "users"})

\* c7a3e8d0f512
AddRoles(s) == Add(s, "users", Table({"role"}, {}, {}, {}))
DropRoles(s) == Remove(s, "users", {"role"})

\* d8b4f9e1a623
AddAudit(s) == Create(s,
  [audit_events |-> Table({"event_id", "occurred_at", "actor_type", "action", "outcome"},
     {"actor_user_id", "actor_identifier", "target_type", "target_id", "request_id",
      "source_ip", "source_context", "before_state", "after_state", "details"},
     {{"event_id"}}, {<<"actor_user_id", "users", "null">>})])
DropAudit(s) == Drop(s, {"audit_events"})

\* e1f2a3b4c5d6
AddIdempotency(s) == Create(s,
  [idempotency_records |-> Table(
     {"actor_user_id", "operation", "key_digest", "request_digest", "status", "created_at",
      "expires_at"}, {"response_status", "response_body"},
     {{"actor_user_id", "operation", "key_digest"}}, {<<"actor_user_id", "users", "cascade">>})])
DropIdempotency(s) == Drop(s, {"idempotency_records"})
-----------------------------------------------------------------------------
(* The revisions in their order; 0 is a database without any. *)

Ingestion == 2
Detection == 3
Users == 6
UserRoles == 7
Audit == 8
Latest == 9

\* alembic upgrade from revision r - 1 to revision r.
Upgraded(r, s) ==
  CASE r = 1 -> InitialSchema(s)
    [] r = Ingestion -> AddIngestion(s)
    [] r = Detection -> AddDetection(s)
    [] r = 4 -> AddAnalyses(s)
    [] r = 5 -> AddCosts(s)
    [] r = Users -> AddUsers(s)
    [] r = UserRoles -> AddRoles(s)
    [] r = Audit -> AddAudit(s)
    [] r = Latest -> AddIdempotency(s)

\* alembic downgrade from revision r to revision r - 1.
Downgraded(r, s) ==
  CASE r = 1 -> DropInitialSchema(s)
    [] r = Ingestion -> DropIngestion(s)
    [] r = Detection -> DropDetection(s)
    [] r = 4 -> DropAnalyses(s)
    [] r = 5 -> DropCosts(s)
    [] r = Users -> DropUsers(s)
    [] r = UserRoles -> DropRoles(s)
    [] r = Audit -> DropAudit(s)
    [] r = Latest -> DropIdempotency(s)

\* run_migrations from nothing to a revision, in one transaction.
SchemaAfter[r \in 0 .. Latest] ==
  IF r = 0 THEN [t \in {} |-> Table({}, {}, {}, {})] ELSE Upgraded(r, SchemaAfter[r - 1])

\* The schema at a revision: the same whichever upgrades and downgrades led to it,
\* as RevisionsReverse says.
SchemaAt == [r \in 0 .. Latest |-> SchemaAfter[r]]
RevisionsReverse == \A r \in 1 .. Latest : Downgraded(r, SchemaAt[r]) = SchemaAt[r - 1]

\* The tables the ORM can write rows of: the columns it names are there, and none
\* it does not know must be given.
Served == [r \in 0 .. Latest |->
            {t \in DOMAIN Metadata \cap DOMAIN SchemaAt[r] :
              /\ Columns(Metadata[t]) \subseteq Columns(SchemaAt[r][t])
              /\ SchemaAt[r][t].required \subseteq Columns(Metadata[t])}]
=============================================================================
