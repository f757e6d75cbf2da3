# AI SOC Copilot: verification project

TLA+ models of the AI SOC Copilot (a FastAPI + SQLAlchemy backend on PostgreSQL, its
schema and operator's commands, and its Streamlit pages), checked with TLC on small
instances and, for eight of them, proved with TLAPS for every value of the constants. Paths
and line numbers are those of the repository (`src/`).

1. The system — 2. Components — 3. Modules and runs — 4. Proofs —
5. Where the code and its documents disagree — 6. What is not modelled — 7. Plan —
8. Running it

## 1. The system

Streamlit pages (`app/`) call the API through `api_client/`. The API (`api/`)
authenticates a bearer session, checks a permission, calls `backend/` services
and commits through one SQLAlchemy session per request (`db/session.py`:
`autoflush=False`, PostgreSQL at READ COMMITTED; objects are expired at every
commit and reloaded on their next use). FastAPI runs the synchronous endpoints
in a thread pool, so every endpoint is concurrent with every other and with
itself; several API processes may share the database. What two requests share is
the database (rows, unique indexes, one advisory lock) and, inside a process,
the in-memory limiters.

Four facts about this setting shape every model:

- **Statements are atomic, transactions are not isolated.** Between two
  statements of a request another request may commit. So an action ends where
  the code commits, answers, or has read something it decides on later.
- **A session keeps what it has loaded until its own next commit.** A row read
  at the start of a request is still used after others have changed it, and
  `UPDATE` writes the columns that differ from what was read.
- **Unique indexes are the only thing that is enforced across requests.** An
  insert waits for an open transaction with the same key and fails when that
  one commits; the handler then ends with a rollback.
- **A process may die at any point.** Open transactions are rolled back, committed
  ones stay, what was in memory is gone.

## 2. Components

| Component | State | Operations | Hard because | Correct when | Module |
|---|---|---|---|---|---|
| Idempotency keys (`backend/reliability/idempotency.py`; callers `create_case`, `request_triage`) | `idempotency_records` | `begin`, `complete`, expiry | reserve, work and complete are three transactions; races, crashes, retries, slow requests | the operation of a key is done once between two expirations and everyone gets its result | `IdempotencyKeys`, `OnceOnly` |
| Detection execution (`backend/detection/service.py`, `rules.py`) | `detection_runs`, `alerts`, `detection_rules`, `detection_rule_versions` | execute, test, update | overlapping runs, edits during a run, two commits per run, lock order of inserts | one alert per version, evidence and what is said of it, a run and its alerts stand and fall together, alerts can be explained by the recorded versions | `DetectionExecution` |
| Detection language and evaluators (`backend/detection/{dsl,matcher,threshold,sequence}.py`) | none | match, threshold, sequence | missing fields, keys the accessor does not read, borders of windows, order of arrival | nothing but `not_exists` asserts absence; bursts and chains are found wherever they lie | `Matcher`, `RuleEvaluation` |
| Ingestion (`backend/ingestion/orchestrator.py`, adapters) | `events`, `ingestion_checkpoints`, `ingestion_runs` | sync | retries, overlapping syncs, stale checkpoints, windows of their own, bad and late records, crashes | a record is one event, a run accounts for its page, the checkpoint hides no more than the cursor explains | `Ingestion` |
| Sessions, permissions, users (`backend/security/{auth,rbac}.py`, `user_admin_service.py`, `auth.py`, `admin.py`) | `users`, `auth_sessions` | login, authenticate, logout, create, update, revoke | calls overlap with revocations and with updates; the clock is read first | revoked or expired sessions stay so; an Admin is left | `Access` |
| Limiters (`backend/security/{abuse,login}_limiter.py`) | deques and counters of a process | acquire, release, is_allowed, record_failure, clear | check and record are apart; readings of the clock out of order | leases are counted exactly, rates are bounded | `LoginLimits` |
| Cases (`api/v1/endpoints/cases.py`) | `cases`, `case_alerts`, `case_activities`, an advisory lock | create, update, link, unlink, note | every handler decides on a row others change | numbers without gaps; row and links are what the creation and the handlers' entries say | `Cases` |
| Alert endpoints (`alerts.py`) | `alerts.status`, `.assigned_to` | list, get, update | a lost update of an audit diff | the row is what an update said | the calls in `Workspace`, the rows in `DetectionExecution`; the update's audit row is only described (section 5) |
| AI context, provider, triage, copilot, reports (`backend/ai/`, `ai.py`, `copilot.py`, `reports.py`) | `ai_analyses` | select evidence, ask the provider, validate, record | evidence is read in several statements and cut by limits; the provider answers late, wrongly or not at all | evidence has its context, advice cites only what was sent, failed output is never shown as advice | `Advice`; the key of a triage in `IdempotencyKeys` |
| Audit service (`backend/audit/`) | `audit_events`, append-only | record, list | its rows belong to the transactions of others; its trigger refuses deletions | no action without its row, no row changed | the rows of executions in `DetectionExecution`, the trigger in `Deployment`; filters and redaction are left out |
| Schema (`db/models/`, `alembic/versions/`) | every table | nine upgrades, nine downgrades | the revisions repeat what the models declare, column by column | at head the tables are what the models declare, by whatever route | `Schema`, `Deployment` |
| Seed, reset, bootstrap, demo pipeline, smoke check (`db/{seed,reset_demo,bootstrap_user}.py`, `scripts/`) | demo rows, one account | seed, reset, bootstrap, log in, sync, execute, check | two seeds at once, kills, downgrades in between, checks that are not a snapshot | demo data exist once, but for what the API does to their names and texts; the check says what is | `Deployment` |
| Rule creation and validation (`rules.py`) | `detection_rules` | create, test | one row with its first version, under a name a seed may look for | — | the update in `DetectionExecution`, creation and names in `Deployment`, the buttons in `Workspace` |
| Dashboards, events, listings (`dashboard.py`, `events.py`) | none | read | figures are counted one after the other | figures are not older than they seem | when they are read in `Workspace`; what they count is left out |
| Streamlit pages and API client (`app/`, `api_client/`) | per tab a token, a client, a page, opened records; per process cached figures | render, log in, log out, click | reruns, tabs that share a cache, calls that fail, revoked sessions | a tab never mixes two users; figures include what was answered before | `Workspace` |
| HTTP boundary (`api/middleware/`, `api/errors.py`) | none | check path, query, type, body | nothing is shared between requests: a pipeline over one request | — | not modelled |
| Parsers, validators, normalizers (`backend/parsers/`, `backend/security/{validators,files}.py`, `normalizers.py`) | none | transform one input | malformed input | a bad record fails alone | which records fail is a constant of `Ingestion` |
| Demo-data pages (`app/data/mock_data.py`, `app/views/` that read it) | none | render constants | — | — | not modelled |
| Configuration, logging, health (`config/`, `backend/utils/`, `health_service.py`, `db/session.py`) | settings | read at start | — | — | not modelled; limits are constants |

How they interact: a request passes the HTTP boundary, `Access` (its session and
permission) and, on costly routes, the abuse limiter (`LoginLimits`). A creation
of a case and a triage then reserve their key (`IdempotencyKeys`) around the work
itself (`Cases`, `Advice`). `Ingestion` commits events that
`DetectionExecution` selects and `RuleEvaluation` judges; the alerts that result
are linked to cases. Nearly every write leaves an audit row in its own transaction.
The modules meet where the code shares a row or a call:

- `DetectionExecution` takes the events a condition matches and the groups of events as
  constants (`Matches`, `GroupOf`), and makes them the firings of single rules and
  thresholds; `RuleEvaluation` says what conditions, thresholds and sequences find;
- an operation that `IdempotencyKeys` calls `Work` is `CommitCreate` of `Cases`
  or the commit of an analysis;
- a success of `Authenticate` in `LoginLimits` is a `Verify` of `Access`;
- `Ingest` of `DetectionExecution` is one row of a `Commit` of `Ingestion`;
- `Advice` reads the links and activities that `Cases` writes, and repeats the three
  handlers that change them as one action each;
- `Deployment` asks `Schema` before every action whether the tables serve the models;
- a session of `Workspace` is live or dead as `Access` makes it, and its `Change` is any
  of the writing endpoints, answered or not.

## 3. Modules and runs

Conventions. A variable that is a function of requests is what a thread holds
between two statements (`pc` is where its handler is); the others are rows or
memory. An operator whose comment begins with `Mutant:` is not part of the
model: it is a plausible bug, written next to the operator it would replace,
and for every property of a passing run there is one that breaks it. The MC
modules only give constants their values. All passing runs but `login_limits`
say `CHECK_DEADLOCK FALSE`, because the requests of an instance are finitely many
and come to an end (in `Access` the clock stops at its bound); the threads of
`login_limits` serve for ever, so there a deadlock would be an error. Type
correctness is a property of its own only where other properties are proved from
it (`TypeOK` of `idempotency_safety`; elsewhere the proofs have it in their invariants, as
`Types` or `Shapes`, as far as they need it).
Symmetry is used for sets of requests, threads, users, sessions, alerts and
payloads in runs that check safety; the run with a liveness property has none.

### IdempotencyKeys, OnceOnly

A request is one HTTP attempt; a retry is another request with the same key. An
element of `Keys` is one (actor, operation, key), the scope of the unique
constraint (`db/models/idempotency.py`). `Lookup` is the select and the if/elif
chain of `begin()`, `Reserve` its delete, insert and commit, `Work` and `Fail` the
protected operation of `create_case` or `request_triage`, `Complete` is
`complete()`. `Expire` is the clock passing `expires_at`, `Crash` the loss of a
process. `epoch` and `since` are history: they count expirations of a key and
remember in which one a request reserved. `PromptRequests` says that a request
ends before its reservation expires (24 hours later).

`OnceOnly` is what a key promises: at most one holder, only the holder performs,
it performs once, only what was performed is published. `Once` in
`IdempotencyKeys` is the refinement mapping.

- `idempotency_safety` (3 requests, a key of each operation, 2 payloads, 2
  expirations per key, 1 crash; prompt requests): `TypeOK`, `OneRequestAtWork`,
  `OnceBetweenExpirations`, `OneCanonicalAnswer`, `ReplayIsOfTheSameRequest`, and
  that the protocol implements `OnceOnly`. Three requests are one that holds the
  key, one that races it and one that retries; two expirations let the second
  holder expire as well.
- `idempotency_slow` (2 requests, slow ones allowed): `RowHoldsItsOwnersResult`, for
  which a request has to outlive its row, and `EveryRequestEnds`. The fairness
  (`FairSpec`) is weak fairness of `Handle` for every request and of `Expire` for every
  key: a serving thread keeps running and so does the clock. Nothing is assumed of
  clients (`Arrive`) or of crashes. `Expire` is not needed for the property but is
  what the clock does.
- `idempotency_stranded` finds `PendingMeansInFlight` violated (section 5).

### DetectionExecution

Executions of one rule next to edits of it and to events arriving. An event is
its place in the order `(timestamp, event_id)` of the query. A firing is what it says,
the explanation of a condition or the values of a group, and its evidence; both go into
the fingerprint with the version (`Fingerprint`). Firings are stored in the order of the
code (`Key`): those of a single rule by event, those of a threshold by the start of the
tumbling window, counted from the start of the run's own window, and the `repr` of the
group. `Begin` is `execute_rule` up to the commit of the run header;
`Evaluate`, `Look`, `Insert` and `Complete` follow it through the loop over the
firings, with the row locks of the unique fingerprint index (`WaitsFor`);
`RecordFailure` and `AuditFailure` are its handlers of exceptions and those of
`_run_rule`. `ReadRule` and `CommitUpdate` are `update_rule`, `Loaded` is the rule
that is read again after the header has been committed.

- `detection` (2 runs, 2 editors, 2 events of 2 hosts, a logic of type single that matches one
  of them and a threshold by host that matches both, 2 versions, 1 crash, two windows that
  start 1 apart and an empty one; about 5 million states): `OneAlertPerFinding`,
  `RunAndAlertsTogether`, `CompletedRunMissesNothing`, `AlertIsExplainable`, `NoDeadlock`,
  `HistoryOnlyGrows`. Two editors race for one version number. A run that an edit
  overtakes stores what the old logic says under the new version, so that one event can
  have two alerts of one version; `OneAlertPerFinding` says that nothing else makes two.
  Two runs of the threshold whose windows start 1 apart, half a tumbling window, do
  deadlock in this instance, which `NoDeadlock` allows and `Raise` resolves as PostgreSQL
  does, by failing one of them. Two events are enough for two firings in both orders.

`AlertIsExplainable` says what an alert's snapshot can be trusted for: it is the
recorded logic of the alert's version, that version is not older than the run's, and
if it is the run's own, it is the logic that fired; only an edit while the run was
at work makes a difference (section 5).

### Matcher, RuleEvaluation

`Matcher` is the evaluation of a condition on an event (`match_event`, `_leaf`):
missing fields, values of another type, `not`, `and`, `or`. `Conditions` are the
conditions of the rules and all they are made of, so that the walk of the code into a tree is
a function on that set (`Evaluation`) which takes the results of the children;
`ConditionAssumption` is `validate_shape`: groups have children, trees are at most eight deep.
`RuleEvaluation` is the selection of events for a run with its limit (`Candidates`), the
keys that group, correlate and count (`FieldOf`: the accessor `_field` reads five fields of
an event row and gives `None` for any other, although the DSL accepts all of them),
the tumbling windows of thresholds (`Bursts`) and the chains of sequences: `Take` is what one
stage takes, `Stages` the loop over them, `Chain` the result. Its one action is the
arrival of an event with any id and any time, so that what TLC visits are all
sets of events in all orders of arrival; the properties compare the algorithms
with definitions that quantify over sets of events.

- `evaluation` (single rules with conditions of up to three levels, thresholds by host, by
  port and of distinct hosts, two sequences by host; up to 1, 3 and 4 events for the three
  types; 4 ids, 4 times, 4 windows, a limit of 3 events): `OnlyNotExistsAssertsAbsence`,
  `BurstIsFound`, `AlignedRunsAgree`, `EveryChainIsFound`, `ArrivalSilencesNothing`. Four
  events are one more than the limit and enough for a chain of three with a distraction;
  four times put events in two windows of a threshold and on their border. The threshold
  by port finds nothing, as in the code: bursts and chains are those by keys that the
  accessor returns.

### Ingestion

One source and its syncs. A record is its place in the order of the source;
`Stamp` and `Ident` are its timestamp and id. `Start`, `Fetch`, `FetchFails`,
`Retry`, `ReadKeys`, `Save` and `Commit` are the steps of `run()` between which others
commit; `Collide` is a unique index that refuses the flush, and `RecordFailedRun`
the transaction of its own for a failed run. An Elastic checkpoint is the place
of the last record, a fixture checkpoint is an offset. Every request has a window of its
own. `Append` is a record that is indexed with any timestamp; that it came `BehindCursor`,
and which windows have moved the checkpoint (`asked`), is history. A record keeps its place
among those of its timestamp, which `_shard_doc` does not promise across searches.

- `ingestion` (3 syncs of 2 windows, 3 records of which two share a timestamp and one is
  bad, in any order of arrival, pages of 2, both adapters, 2 attempts, 1 crash; about 2.6
  million states): `OneEventPerRecord`,
  `RunAccountsForItsPage`, `CheckpointCoversStored`. Three records need two pages,
  and three syncs are two that overlap and one that follows a stale checkpoint.
  The pages that `IngestionPage` refuses because of ties (section 5) are among them.
  The checkpoint does hide records that nobody has stored: late ones, and those that a
  sync of another window has passed. `CheckpointCoversStored` says that these are all.

### Access

Logins, sessions and users. A login that succeeds is named after the session it
issues. The steps of a call are those of `authenticate_session` (`Present`,
`CheckUser`, `Expire`, `Touch`), `require_user_permission` (`Permit`) and of the
endpoint: `Logout`, `CreateUser`, or `ReadTarget`, `CountAdmins`, `Sweep` and
`CommitUser` of `update_user` and of the revocation of sessions. `Written` is what
the `UPDATE` of a user writes: the columns that differ from what was read. The clock
is read before the statement that uses it (`at`). A thread serves one call after
the other, so two calls stand for any number of them, two at a time.

- `access` (2 users, 1 login, 2 threads, idle limit 2, absolute limit 3, clock up to 3;
  about 2 million states): `AdminUnlessRaced`, `RevokedStaysRevoked`, `ExpiredStaysExpired`.
  The absolute limit lies beyond the idle one, so a session that is kept alive
  meets it, and a session that is not meets the other.
  `AdminUnlessRaced` allows for the one way in which the last Admin is lost (section 5).

### LoginLimits

One key of each limiter, and the threads that try to log in with it: `Acquire`
and `Release` of the abuse limiter around `Allowed`, `Authenticate`, and `RecordFailure` or
`Clear` of the login limiter. The names of the module are none of `Access`, whose proofs
are in one module with its own. `Readings` are the times a clock that is read before
the lock may show. `admitted` and `recent` are history: what a perfect observer
counts in the window that ends now, as sets of times, numbered so that equal ones
count apart.

- `login_limits` (3 threads, 2 slots, 4 requests per tick, 2 failures per 2 ticks, clock up
  to 3; about 490 thousand states): `LeasesAreCounted`, `RateIsBounded`,
  `FailuresAreBounded`. With more threads than slots a request is refused for
  either reason, and both windows pass within the clock's bound. The bound on
  failures is `MaxAttempts + MaxConcurrent - 1`, not `MaxAttempts`: attempts that run at
  once all pass `is_allowed` before any of them has failed.

### Cases

A case is named by the request that creates it, a link by the request that inserts it,
numbers are those of one year. `TakeNumber` takes the advisory lock and reads the last
number, `CommitCreate` commits; the other handlers `Read` the case and its links and then
commit one of `CommitUpdate`, `CommitAdd`, `CommitRemove`, `CommitNote`. An entry is its
type and what its message names: a value, or alerts by id, never a row of `case_alerts`.
That of a creation names nothing, the audit row of the same transaction does (`created`).
A client chooses type and text of a note, so that it may look like an entry of a handler;
`own`, which tells them apart, is history, and so is `raced`, the alerts a request has
unlinked whose link was gone by then. `Set` is a column after the commit of an update that
decided on an older row.

- `cases` (4 requests, a case that exists, 2 alerts, a missing one, updates of one
  column or both, notes that look like a change of status and like an addition of alerts,
  1 crash; about 345 thousand states): `NumbersAreConsecutive`,
  `StateFollowsTimeline`, `LinksFollowTimeline`. Four requests are a link, two
  requests that race to remove it and a third one that links again: then the last entry
  may be a removal although the alert is linked, and `LinksFollowTimeline` says that this
  is the only way in which the links and the handlers' entries part.

### Schema, Deployment

`Schema` has every table twice: as a model of `db/models/` declares it, and as the
`upgrade` and `downgrade` functions of the nine revisions build and remove it.
`SchemaAfter(n)` is what the first n upgrades make; `Served` says that a statement of
SQLAlchemy, which names every column of its model, finds them.

`Deployment` runs the operator's commands on one database: migrations to any of
`Stops`, seeds that look a row up and insert it in one long transaction (`Lookup`,
`Insert`, `CommitSeed`) with the waits of unique indexes, `Reset`, `Bootstrap`, the
pipeline (`PipelineLogin`, `PipelineSync`, `PipelineExecute`) and the smoke check, whose
checks read one after the other. Next to them the API edits and renames the demo rule
(`EditRule`), creates other rules or one with its name (`CreateRule`, `NameRule`), opens a
case, unlinks the alert and posts a note that repeats the demo activity. What the pipeline's
calls store is in `Ingestion` and `DetectionExecution`; here they leave their audit row, which
a reset cannot delete. The names of the module are none of `Workspace`, whose
proofs are in one module with its own.

- `deployment` (2 seeds, stops at 0, 1, 8 and head, two roles, one reset, one downgrade;
  about 1.4 million states): `HeadIsWhatModelsDeclare`, `DemoDataOnce`, `SmokeSaysWhatIs`. Two
  seeds race, are killed and repeated, next to a reset; after the downgrade one seed runs at
  a time (`OneSeedAfterDowngrade`, a bound of the run). The stops are the empty database, the
  schema without ingestion and detection, and the last revision but one, so that a downgrade
  loses everything, the audit trail and the accounts, or one table; upgrades pass through
  the others. Seeds that overlap after a downgrade are in the proofs only: with them the
  run is too large to be repeated often, and a migration waits for the transactions of all
  seeds, so that none spans it.

`DemoDataOnce` speaks of the rule apart from the rest. A rename through `PATCH /rules` takes the
natural key of the demo rule away, and the next seed inserts a second demo rule; of the
rest the API can only take the link and the number of a case, and repeat the text of the
activity, which makes the next seed fail (`Repeated`).

### Workspace

The Streamlit pages: one process, a session state and a script per tab, one cache of
figures (`st.cache_data`) for all. A run of a script asks the API who the user is
(`validate_authenticated_session`), handles the click it was started by and renders
the selected page. A tab's `at` is the call to the API the script is in; between
two of them other tabs and clients go on. Any call may fail, any answer may be lost.
`data` counts committed changes; `due` is history: the changes that had been answered
and handled to the end when the run began.

- `workspace` (2 tabs, one that visits the pages of investigations and one those of rules and
  integrations, and the dashboard in both; an analyst and an Admin; 2 changes; about 600
  thousand states): `OneUserPerTab`, `FiguresFollowAnswers`. The two
  logins can follow each other on one tab, in either order; two changes let one
  tab load figures between the change of the other and the clearing of the cache. Both
  properties are proved for any instance (section 4).

### Advice

A request for advice reads its evidence: the case and its links, the alerts with their
events, the activities, one statement after the other (`Statements`), while analysts
link, unlink and write. `Selected` is what fits both limits, `DefaultOutput` all that
a provider may cite, `Valid` the check of the three kinds of output, `Answer` and
`NoAnswer` the analysis that is recorded. A request of the API that links several alerts is
several steps here, which only adds readings. `remove_case_alert` may find its link gone and
write its activity all the same, and `create_case_activity` may write what looks like an
entry of the server (`by`, history, tells them apart). An alert is its `alerts.id`, so `ById` is the
`order_by` of the query.

- `advice` (one request of any kind, a case, 2 alerts that share an event, at most 8 items
  and 12 units of size, 3 activities; about 110 thousand states): `LinksAreTold`,
  `EvidenceHasItsParents`, `CitesOnlyItsEvidence`. Requests share nothing but the tables they
  read, to which they only add analyses, so one is enough. The limits cut the evidence of a
  case with both alerts, but not that of a case with one and all its activities. Three
  activities are an alert that is unlinked, linked again and removed a second time by a
  stale request, or one of them posted by a client, while the evidence is read. Evidence of
  another case is in the proofs only.

## 4. Proofs

What TLAPS proves holds for every value of the constants that meets the assumptions in the
module of the component: any number of requests, runs, syncs, sessions, threads, tabs,
alerts and keys, any limits and windows, any number of crashes. The assumptions are types
and names that differ, and a few that say more: users, records, alerts and the threads of
a pool are finitely many (`ActorAssumption`, `RecordAssumption`, `ScopeAssumption`,
`ThreadAssumption`), records are numbered in the order of their timestamps, ids of alerts
are positive, and rules and conditions are well-formed as the validators of the DSL make
them (`RuleAssumption`, `ConditionAssumption`). TLC evaluates all of them in every run.
Four theorems have a hypothesis of their own, which the text below names:
`MutualExclusion`, `Refinement`, `NumbersHaveNoGap`, `SmokeSaysTrue`.

All proofs have one layout: an invariant made of a named part per request, row or
tab; lemmas that say which parts a step leaves alone; one lemma per action; the step;
the theorem. Hardly any property is inductive as it stands, and what had to be added to it
says why the code is right.

**`IdempotencyKeys_proofs`.** `TypeCorrect`, `AtMostOnce` (`OnceBetweenExpirations`),
`OwnResults` (`RowHoldsItsOwnersResult`), `SameAnswer` (`OneCanonicalAnswer`) and
`ReplaysAreTrue` (`ReplayIsOfTheSameRequest`) hold with slow requests too; `MutualExclusion`
(`OneRequestAtWork`) and `Refinement` (`Spec => ImplementsOnceOnly`) assume
`PromptRequests`, without which a request may go on working after a retry has
replaced its reservation. Two requests with
the same epoch cannot both have committed because each would own the live row of
the key; so the invariant `IInv` says, besides the types, that

- who got past `Reserve` in the current epoch of its key owns its live row (`Epochs`),
  and two who got past it did so in different epochs (`Distinct`);
- a request about to replace a row has read it as expired, so it is either still
  there and expired, or gone (`Reads`): a deletion by primary key never hits a live row;
- a row belongs to a request of its key that got past `Reserve`, and holds nothing
  or its result (`Owners`);
- the stage of a request tells whether it has committed (`Stage`).

For the answers, a row also keeps the payload and the epoch of its owner (`Deposits`), and
an answer is a result that was committed with its key, its payload and its epoch
(`Answers`); two such results are one because of `Distinct`. `Holds`, under
`PromptRequests`, adds that a request at work holds its key. The refinement has one step per
action, most of which are stutters of `OnceOnly`.

**`DetectionExecution_proofs`.** All six properties of the passing runs:
`FindingsAreStoredOnce` (`OneAlertPerFinding`), `RunsCommitWithTheirAlerts`
(`RunAndAlertsTogether`), `CompletedRunsMissNothing` (`CompletedRunMissesNothing`),
`AlertsAreExplained` (`AlertIsExplainable`), `VersionsOnlyGrow` (`HistoryOnlyGrows`) and
`RunsNeverDeadlock` (`NoDeadlock`). `RuleInv` is about the rule, its versions and its
editors: every version before the present one has its row, none after it has one, and what
an editor has read of the rule was the rule of a version. It is inductive alone and gives
`VersionsOnlyGrow`. `IInv` adds

- `Unique`: no two alerts, committed or flushed and not yet committed by any run, are of one
  version, evidence and saying, which is what the unique index and its row locks achieve;
- of every run, `Flushed` (its own alerts are built from the rule it loaded), `Progress` (it
  goes through its firings in their order, and every firing it has passed
  has an alert), `Explained` (what it parsed and what it loaded each were the rule of a
  version, the second not older than the first), `Saying` (its alerts say what the logic it
  parsed says) and `Result`.

`FindingsAreStoredOnce` follows from `Unique`, and for two alerts of runs that no edit has
overtaken from `Saying`: both runs parsed the logic of their version, so they say the same of
the same evidence.

`Progress` is also what excludes deadlock among aligned runs: a run waits for a fingerprint
another has flushed; the same firing has the same key in both, because their tumbling windows
agree (`SameBucket`, `SameKey`), so its next firing is earlier than that run's next one
(`WaitsForLater`). In a circle of waiting runs the one with the latest next firing would wait
for a later one; there is one with the latest because only finitely many runs have started
(`Types`, `Greatest`).

**`RuleEvaluation_proofs`.** All five properties, for any set of well-formed conditions, any
rules that `parse_logic` accepts, any windows and limits, and events that arrive in any
order: `AbsenceIsAsserted` (`OnlyNotExistsAssertsAbsence`), `BurstsAreFound` (`BurstIsFound`),
`RunsAgree` (`AlignedRunsAgree`), `ChainsAreFound` (`EveryChainIsFound`) and
`LateEventsAddOnly` (`ArrivalSilencesNothing`). The invariant is only `Stored`: the events are
finitely many rows with ids of their own. What is hard is in the algorithms.

- `AbsenceIsAsserted` is about trees. That the walk into a tree has a result at all is
  `Recursion`; a condition of least depth for which the theorem would fail has children for
  which it holds, and `GroupRefines` carries it up. The statement that carries is stronger
  than the property: filling in a field also never makes a field missing (`Refines`), which is
  what a `not` needs.
- `BurstsAreFound` and `RunsAgree` are arithmetic of tumbling windows: `2n - 1` events closer
  than a duration lie in at most two neighbouring windows, so `n` of them lie in one
  (`Neighbours`, `BurstFound`); windows counted from two starts that are whole durations apart
  have the same borders (`FloorsAgree`), so an event has the same companions in both
  runs (`SameBuckets`).
- `ChainsAreFound` is why the greedy choice of `evaluate_sequence` is right. The events of a
  finite set can be numbered in the order of time and id (`Ranks`), hence the earliest n are n
  (`EarliestCount`) and before any other (`EarliestFirst`). Compared with any events that fit the
  stages, after every stage the greedy chain has its cursor no later than the last of them
  (`GreedyFinds`), and what it has taken fits itself (`GreedyFits`).
- `LateEventsAddOnly` uses that a run that is not truncated evaluates every event in its
  window (`Untruncated`): groups grow, counts do not fall, and by `ChainsAreFound` what
  fits before fits after (`MoreFinds`).

**`Ingestion_proofs`.** `RecordsAreStoredOnce` (`OneEventPerRecord`) and
`RunsAccountForTheirPages` (`RunAccountsForItsPage`) from `RowsInv`: what a sync knows to
be stored is stored still when it commits, so the rows it adds are those that it counts
(`Accounts`). `CheckpointNeverAhead` (`CheckpointCoversStored`) holds for any windows and
any order of arrival. The invariant `CheckpointInv` is about every checkpoint there is:
the one in the table and the ones that syncs have loaded skip only what is stored, bad or
late, or what a sync of another window has passed (`Covers`), and the one a sync is about
to save skips, of the sync's own window, only what its old one skips, its page, and late
records (`NoGap`). An Elastic checkpoint is a record and a fixture checkpoint counts
records, so the fixture half of `NoGap` rests on lemmas about ranks (`Ranks`,
`FixturePage`).

**`Access_proofs`.** `RevocationIsFinal` (`RevokedStaysRevoked`), `ExpiryIsFinal`
(`ExpiredStaysExpired`), `AdminIsLeft` (`AdminUnlessRaced`). `SessionsInv` relates what a
call has read of a session to the row and to its latest use: what was read is never later
than that, and a call about to use a session has found it unexpired at the time it
read, however late it goes on. `AdminInv` says that, as long as no two updates have overlapped,
the one update under way holds the row of its caller, and then that of its target, as the
table has them, and if it is about to take the role of an Admin, there is another one (`Spared`).

**`LoginLimits`, in `Access_proofs` too.** `CountIsExact` (`LeasesAreCounted`) and
`ConcurrencyIsBounded`: at any moment at most `MaxConcurrent` attempts are between
`acquire` and `release`. The invariant is `Counted` with `SlotsSuffice`; the argument is that
`Acquire` adds one thread to the set of holders and `Release` removes one (`OneMore`,
`OneLess`), for which the set has to be finite, and that the code's
`active <= 1` branch of `release` never hides a lease because the count is exact.
`RateHolds` (`RateIsBounded`) and `FailuresHold` (`FailuresAreBounded`) are about deques that
are out of order, because clocks are read before the lock. Such a deque may keep
entries that have expired; what holds is that from now on it has as many unexpired entries
as the observer counts (`Matches`), hence no fewer entries in all. For the failures the bound
also counts the threads that have passed `is_allowed` and may still fail (`Windows`).

**`Cases_proofs`.** `LinksAreNamed` (`LinksFollowTimeline`), `StateIsNamed`
(`StateFollowsTimeline`), and `NumbersHaveNoGap` (`NumbersAreConsecutive`), which assumes that
there are at most `Widest` requests: after that the code's own numbers collide
(section 5). `LinksInv` and `StateInv` say the first two in terms of the last place of an entry in a
sequence, which each action moves in one way (`LastAppend`, `SaidAppend`, `SaidInAppend`): a note
of a client is none of the entries that count, and an entry of a removal whose link was
gone makes its alert `raced`; `NumbersInv` says that
the numbers are 1 up to the number of cases and that a request about to insert holds
the lock and the next number.

**`Workspace_proofs`.** `OneUserHolds` (`OneUserPerTab`) and `FiguresHold`
(`FiguresFollowAnswers`), for any tabs, logins, roles and pages. Neither is inductive:
that figures on the screen are recent depends on what was in the cache or under way
when they were asked for. The invariant says, of every tab,

- `OfOneUser`: a tab without a token has nothing of a user and waits for a login, and
  client, user and session state are those of its token;
- `Timely`: what is due was answered before, figures that are shown or asked for are not
  older than what is due, and the change a script is about to clear the cache for has
  been committed;
- `Storable`: figures under way that may still be stored are not older than the latest
  answered change,

and of the cache that nothing in it is older than the latest answered change
(`CacheIsCurrent`). The step that needs all of them is `ClearCache`: the latest answered
change moves up, the cache is emptied, and figures under way lose their place in it
(`dropped`). Steps of one tab are reduced to what
becomes of its record (`OneTab`, `OnlyTab`), buttons to one lemma (`ChangeHolds`).

**`Deployment`, in `Workspace_proofs` too.** `DemoDataAreOnce` (`DemoDataOnce`) and
`SmokeSaysTrue` (`SmokeSaysWhatIs`), for any number of seeds, resets and downgrades. That the demo
data are there once does not follow from unique keys alone, since the activity has none; and a
rule says nothing of the rest, since its name may be given and taken. The invariant, `DemoInv`,
says what became of a seed's look at the event:

- it found none, and has inserted everything it has passed since, except for a rule, a case
  and a note that the API may have made (`Inserting`): then no other seed has inserted the
  event too, because it would wait for the first one (`Alone`), and nothing is there to be
  found twice;
- or it found one (`Finding`): then all the demo data but the rule are there until the next
  downgrade, which waits for the seed, although a reset may replace them meanwhile; the seed may
  add the rule, after a renaming, and the link of the alert to the case, and anything else it is
  about to insert belongs to a row that a reset has deleted, so that its foreign key is refused.

The last point needs that no reset brings back the name of a row that was found before
(`Named`), hence `SeederAssumption`: a seed is not called like the reset. `SmokeSaysTrue` has as a
premise that the schema at head is the one of the models, `SchemaAt[Latest] = Metadata`, which
has no variables and is evaluated by TLC in `deployment`; `SmokeInv` says that nothing
undoes what an earlier check has seen, without the check being told (`Disturb`).

**`Advice_proofs`.** `LinksTold` (`LinksAreTold`), `EvidenceInContext`
(`EvidenceHasItsParents`), `CitationsInScope` (`CitesOnlyItsEvidence`). The first half is
about one request and no state: finitely many alerts have an order (`OrderExists`), in the
items every part comes after its alert and the case comes first (`FlattenNested`,
`CaseItemsAre`), and what is sent is a beginning of them that fits (`SelectedIs`), so
nothing is sent before what it belongs to (`EvidenceIs`). The recursive functions behind
`FlattenSeq` and `FoldSeq` are shown to exist on the way, by the least index where they
would not (`FlatteningExists`). The second half is what happens meanwhile: an alert that
is linked was there first or is told to have been linked (`CaseInv`), and of a request
that has read the links the server's activities since then tell every difference between
what it read and what is (`ReqInv`), stale removals and entries of clients
notwithstanding, as these only add activities; so a request that reads links first and
activities last holds the explanation of all that changed between; and as activities are
only added, what was in the scope of an analysis stays in it (`AnalysisInv`).

Only model-checked:

- liveness, `EveryRequestEnds`, which is out of this prover's reach;
- `HeadIsWhatModelsDeclare`: there is one schema, so TLC, which evaluates it, leaves nothing to
  generalise;
- `PendingMeansInFlight`, which does not hold.

## 5. Where the code and its documents disagree

- **A failed creation blocks its key.** `begin()` commits the reservation; a 404 for an
  unknown alert (`cases.py:184`), an exception or a crash afterwards leaves it pending,
  since nothing calls `abandon()`. The retry is told "An equivalent request is already
  in progress." until the row expires. The run `idempotency_stranded` has TLC find
  `PendingMeansInFlight` violated.
- **A replay may raise alerts anew.** The tumbling windows of a threshold are counted from
  the start of the run's window (`threshold.py:72`), and a fingerprint hashes the ids of
  the events in one of them. A run over an overlapping window that starts elsewhere cuts a
  burst in another place and raises a new alert, while `docs/detections.md:111-114` says
  "a replay creates nothing new". `AlignedRunsAgree` is what holds. Such runs also store
  common firings in opposite orders and may deadlock (`NoDeadlock` excepts them).
- **Most fields of the DSL are no keys.** `dsl.py:139-144` lets a rule group by, share or count
  any event field, but `_field` (`threshold.py:24-35`, `sequence.py:22-33`) gives `None` for all
  fields of an event row but five. A threshold by `source_port` never fires, as if its events
  were "missing a group key" (`threshold.py:54-55`; `docs/detections.md:25-26`). The threshold by
  port of the run `evaluation` is such a rule; `BurstIsFound` and `EveryChainIsFound` speak of
  the keys that the accessor returns.
- **An alert may carry logic that did not fire.** `execute_rule` parses the logic, commits the
  header, and reads the rule again for the version and the snapshot
  (`service.py:124-125`; `docs/detections.md:102`); an edit in between shows. What the
  alert carries is still a recorded version, later than the run's (`AlertIsExplainable`).
  The explanation of the old logic is in the fingerprint, so a later run of that version
  may raise a second alert for the event (`OneAlertPerFinding`).
- **Elastic ties fail a sync for ever.** The adapter sorts by `(@timestamp, _shard_doc)`
  (`adapters/elastic.py:88-91`), `IngestionPage` insists on `(timestamp, record_id)`
  (`dto.py:76`). `Ingestion` has both orders and refuses such pages.
- **The final Admin can go.** The active Admins are counted without a lock
  (`user_admin_service.py:107-112`; `docs/permissions.md:22-24`), so two overlapping
  updates each leave one and together none. `AdminUnlessRaced` shows that nothing but
  the overlap is to blame.

Others were met while modelling; the models have them where they bear on a property,
and have no run for them.

In the backend:

- a failed triage is completed as a 201 and replayed (`ai.py:108`), while
  `idempotency.py:1` speaks of caching without failures;
- an execution that fails with anything but a `ValueError` leaves no audit row
  (`rules.py:118`; `README.md:190-191`);
- `suppression_window_seconds` is read nowhere (`docs/detections.md:72`);
- a login that verified its user before the user was disabled or demoted issues a
  session after the sweep (`auth.py:77`; `docs/permissions.md:22`). A disabled user is
  refused anyway; a demoted one keeps the session but not the permission;
- a sync with a stale page moves the checkpoint back (`orchestrator.py:252`;
  `docs/architecture.md:107`); nothing is lost or stored twice, records are fetched again;
- a checkpoint of one window is applied to another (`adapters/fixture.py:60`,
  `adapters/elastic.py:94`), which then skips what lies before it; and an Elastic record
  that is indexed late, with a time before the cursor, is never fetched
  (`adapters/elastic.py:94`). `CheckpointCoversStored` says that nothing else is lost;
- a crash leaves a detection run `running` (`service.py:93`);
- overlapping updates can leave `closed_at` on an open case or none on a closed one, and
  a case that is created closed has none (`cases.py:291`);
- the last case number is the greatest text (`cases.py:75`): after `CASE-y-9999` every
  creation collides;
- a second request to unlink an alert, whose link is gone, is answered with 200 and leaves
  another entry, also after a new link (`cases.py:439-464`); a client may post an entry with the
  type and the text of a handler's (`cases.py:547`);
- two requests that link one alert at once: the second ends in a 500 instead of
  being skipped (`cases.py:384`);
- two stages of a sequence with one label share an entry of the evidence
  (`sequence.py:110`);
- the limiters are those of one process and are empty after a restart
  (`docs/api-security.md:41` says so);
- an update of an alert writes an audit row with the difference to what it read; two
  overlapping updates record the same old status;
- lists count and select in two statements, and so do the figures of the dashboard;
- a request whose body was read once is given empty messages for ever after
  (`boundaries.py`, replay), also when the client has gone.

In the advice:

- "Repeated evidence references are rejected" (`docs/ai-safety.md:112`), but only the output
  of a triage rejects them (`triage.py:40-53`);
- a model "cannot invent" an indicator that is persisted (`docs/ai-safety.md:11`, `:108-109`),
  but the entries of a report's timeline, indicators and MITRE mapping are not checked
  against the evidence (`api/schemas/report.py`, `reports.py:50-53`); `CitesOnlyItsEvidence`
  leaves them out;
- that the evidence was cut (`truncated`) is neither recorded nor told to the provider;
- the transaction that read the evidence stays open during the call of the provider;
- the history is listed oldest first, so that the last of its first page, which the pages
  show, is not the latest after twenty analyses.

In the schema and the commands:

- `reset_demo` fails on PostgreSQL once an audit row exists, because of the trigger
  (`docs/operations-runbook.md:28`, `Makefile:59`);
- a downgrade below `3baf1c2d7e90` and an upgrade leave events without a `dedup_key` and
  no checkpoint, so that every sync that meets them violates the key on `event_id`
  (`orchestrator.py:90-110`); one below `6c4d2e8f1a90` loses the fingerprints, and an
  execution finds its alerts again. No property covers this. The CI tests one downgrade by
  one revision (`docs/ci.md:36`);
- after the demo rule was renamed (`rules.py:396-412`) the next seed inserts another one
  (`db/seed.py:65`);
- a note with the text of the seed makes `one_or_none` of the next seed raise;
- bootstrapping an existing account does not change its role;
- the checks of `smoke.py` are not a snapshot; `SmokeSaysWhatIs` states what they are.

In the pages:

- a click during the message of "Run now" ends the script before the cache is cleared
  (`app/views/rules.py:279-280`): figures may be 30 seconds old. `FiguresFollowAnswers`
  speaks of answers that were handled to the end;
- while the API does not answer, the login form is shown with the former login remembered;
- "Update" sends the status and the priority of the select boxes, also the one that was not
  changed and has been changed by others since (`app/views/cases.py:327-334`);
- a page of a list beyond the last one shows no way back (`cases.py:117`,
  `investigations.py:98`);
- the pages send no idempotency keys.

## 6. What is not modelled, and why

- **Texts and layouts**: fingerprints are the tuple they hash, an explanation is the condition
  it explains, a message is what it names, digests are the payload.
- **What is found again after a downgrade**: it depends on the windows and the evidence of
  later syncs and runs, which `Deployment` does not keep.
- **Passwords and tokens**: a token is the session it names, a password is right or
  wrong. Login audits and the limiters' keys (address and name) are left out.
- **The HTTP boundary**: a pipeline of checks on one request, which shares nothing with
  another and whose properties are those of string functions.
- **Settings, logging, health**: read at start or pure I/O; limits are constants.
- **Normalizers, parsers, validators, redaction**: functions of one input; which inputs fail is
  a constant.
- **Demo-data pages** (`app/data/mock_data.py`): constants on a screen.
- **Types, checks and plain indexes** of the schema; **what figures count**; **what evidence says**.
- **The update of an alert's status**, which nothing else reads and which does in one
  row what the update of a case does in `Cases`.
- **Memory of the limiters' dictionaries**, which only grows with the keys tried.
- **Databases other than PostgreSQL**: the tests run on SQLite, where the advisory
  lock of case numbers is skipped. The mutant `NeverLocked` is that case.
- **Several rules, sources, years or limiter keys at once**: they share nothing that
  the modules speak of, so one of each stands for all.
- **A commit whose outcome the client never learns** other than by a crash.

## 7. Plan

Written, in this order: `OnceOnly` and `IdempotencyKeys`, `DetectionExecution`,
`Ingestion`, `Access`, `LoginLimits`, `Cases`, `Matcher` and `RuleEvaluation`,
`Schema` and `Deployment`, `Workspace`, `Advice`; and the proofs about all of them but
`Schema`.

What remains worth doing:

1. An append-only history as an abstract specification that the versions of a rule, the
   timeline of a case and the audit table implement; `RuleInv` and the lemmas about
   timelines in `Cases_proofs` are most of what its refinements need.
2. Compositions: `DetectionExecution` with the firings of `RuleEvaluation`, distinct
   counts and sequences included, in place of its own, `IdempotencyKeys` in front of
   `Cases`, `LoginLimits` in front of the logins of `Access`.
3. The update of an alert in `Cases`.

## 8. Running it

`tlc -workers 2 -config <run>.cfg <module>` with the module that `PROJECT.json` names for
the run; `tlapm <component>_proofs.tla` for the proofs of a component
(`Access_proofs` for those of `LoginLimits`, `Workspace_proofs` for those of `Deployment`).
No run takes more than about two minutes with two workers.
`PROJECT.json` also maps every definition that models code to its lines, lists the
hazards of the code with the properties that would catch them, and names a mutant
for every property.
