---------------------------- MODULE IdempotencyKeys ----------------------------
(***************************************************************************)
(* Requests that carry an Idempotency-Key: the reservation protocol of     *)
(* backend/reliability/idempotency.py as POST /cases (create_case) and     *)
(* POST /alerts/{id}/ai/triage (request_triage) drive it.                  *)
(*                                                                         *)
(* A request is one HTTP attempt, served by a thread with a session of its *)
(* own; a client that retries sends another request with the same key.  An *)
(* element of Keys stands for one (actor, operation, key) triple, the      *)
(* scope of the unique constraint.  Between two commits of a request other *)
(* requests may commit, so every action below ends where the code commits, *)
(* answers, or has read what it decides on later.                          *)
(***************************************************************************)
EXTENDS Naturals

CONSTANTS
  Requests,        \* HTTP attempts
  Keys,            \* (actor, operation, key) triples
  TriageKeys,      \* those whose operation is ai.triage.request
  Payloads,        \* request bodies, up to their digest
  NoKey,           \* the request has no Idempotency-Key header
  BadKey,          \* the header is empty or longer than 128 characters
  None,
  PromptRequests,  \* a request ends before its reservation expires (24 hours)
  MaxEpoch,        \* bound: expirations of one key
  MaxCrashes       \* bound: restarts of the API process

ASSUME KeyAssumption == /\ TriageKeys \subseteq Keys
                        /\ NoKey \notin Keys /\ BadKey \notin Keys
                        /\ NoKey # BadKey
ASSUME NoneAssumption == None \notin Requests /\ None \notin Payloads
ASSUME PromptAssumption == PromptRequests \in BOOLEAN
ASSUME BoundAssumption == MaxEpoch \in Nat /\ MaxCrashes \in Nat

VARIABLES
  table,    \* key -> its row of idempotency_records, or NoRow
  effect,   \* request -> what it committed: none, succeeded, failed
  pc,       \* request -> where its handler is
  key,      \* request -> the key it carries
  payload,  \* request -> the digest of its body
  seen,     \* request -> owner of the expired row begin() read, or None
  answer,   \* request -> the response it got
  crashes,  \* number of restarts
  epoch,    \* history: key -> how many of its reservations have expired
  since     \* history: request -> epoch of its key when it reserved or replayed

vars == <<table, effect, pc, key, payload, seen, answer, crashes, epoch, since>>

\* What the operation of a key may commit, and how it may fail before it commits.
Effects(k) == IF k \in TriageKeys THEN {"succeeded", "failed"} ELSE {"succeeded"}
FailureCodes(k) == IF k \in TriageKeys THEN {"error"} ELSE {"error", "not_found"}

NoRow == [owner |-> None, digest |-> None, status |-> "absent", body |-> None, expired |-> FALSE]

\* Mutant: the request digest is not stored.
HalfPending(r) == [owner |-> r, status |-> "pending", body |-> None, expired |-> FALSE]
Pending(r) == [owner |-> r, digest |-> payload[r], status |-> "pending",
               body |-> None, expired |-> FALSE]

Completed(row, r) == [owner |-> row.owner, digest |-> row.digest, status |-> "completed",
                      body |-> r, expired |-> row.expired]

Expired(row) == [owner |-> row.owner, digest |-> row.digest, status |-> row.status,
                 body |-> row.body, expired |-> TRUE]

Answer(code, body) == [code |-> code, body |-> body]

Init == /\ table = [k \in Keys |-> NoRow]
        /\ effect = [r \in Requests |-> "none"]
        /\ pc = [r \in Requests |-> "idle"]
        /\ key = [r \in Requests |-> NoKey]
        /\ payload = [r \in Requests |-> None]
        /\ seen = [r \in Requests |-> None]
        /\ answer = [r \in Requests |-> Answer("none", None)]
        /\ crashes = 0
        /\ epoch = [k \in Keys |-> 0]
        /\ since = [r \in Requests |-> 0]

InFlight(r) == pc[r] \notin {"idle", "done"}

\* The handler returns: the client gets the response.
Respond(r, code, body) == /\ pc' = [pc EXCEPT ![r] = "done"]
                          /\ answer' = [answer EXCEPT ![r] = Answer(code, body)]

\* The handler goes on without an answer yet.
Goto(r, where) == /\ pc' = [pc EXCEPT ![r] = where]
                  /\ UNCHANGED answer
-----------------------------------------------------------------------------
\* The handler is entered.  Without a key begin() is not called; request_triage
\* answers 404 for an unknown alert before it reserves anything.
Arrive(r) ==
  /\ pc[r] = "idle"
  /\ \E k \in Keys \cup {NoKey, BadKey}, p \in Payloads :
       /\ key' = [key EXCEPT ![r] = k]
       /\ payload' = [payload EXCEPT ![r] = p]
       /\ \/ k \in Keys /\ Goto(r, "lookup")
          \/ k = NoKey /\ Goto(r, "work")
          \/ k = BadKey /\ Respond(r, "bad_key", None)
          \/ k \in TriageKeys /\ Respond(r, "not_found", None)
  /\ UNCHANGED <<table, effect, seen, crashes, epoch, since>>

\* The conditions of begin()'s chain over the row it selected, and of its flush.
\* Mutant: an unexpired pending reservation does not stop the next request.
PendingIsFree(row) == row = NoRow \/ row.expired \/ row.status = "pending"
IsFree(row) == row = NoRow \/ row.expired

\* Mutant: the request digest is not compared.
AnyPayload(r, row) == FALSE
Mismatch(r, row) == row.digest # payload[r]

\* Mutant: a pending row is replayed as well, with the empty body it has.
PendingIsReplayable(row) == row.status \in {"pending", "completed"}
Replayable(row) == row.status = "completed" /\ row.body # None

\* Mutant: no unique constraint, the insert always succeeds.
NeverTaken(r) == FALSE
\* The row in the table is not the one this request read as expired.
TakenByAnother(r) == table[key[r]] # NoRow /\ table[key[r]].owner # seen[r]

\* Mutant: the row is updated by its key instead of its primary key.
OwnsAnyRow(r) == table[key[r]] # NoRow
OwnsRow(r) == table[key[r]].owner = r

\* begin(), to the end of its if/elif chain: what the row it selects decides.
Lookup(r) ==
  /\ pc[r] = "lookup"
  /\ LET row == table[key[r]] IN
       \/ /\ IsFree(row)
          /\ seen' = [seen EXCEPT ![r] = row.owner]
          /\ Goto(r, "reserve")
          /\ UNCHANGED since
       \/ /\ ~IsFree(row)
          /\ \/ Mismatch(r, row) /\ Respond(r, "mismatch", None)
             \/ ~Mismatch(r, row) /\ Replayable(row) /\ Respond(r, "replayed", row.body)
             \/ ~Mismatch(r, row) /\ ~Replayable(row) /\ Respond(r, "in_progress", None)
          /\ since' = [since EXCEPT ![r] = epoch[key[r]]]
          /\ UNCHANGED seen
  /\ UNCHANGED <<table, effect, key, payload, crashes, epoch>>

\* Mutant: the loser of the race waits for the key instead of answering 409.
ReserveWaits(r) ==
  /\ pc[r] = "reserve" /\ ~TakenByAnother(r)
  /\ table' = [table EXCEPT ![key[r]] = Pending(r)]
  /\ since' = [since EXCEPT ![r] = epoch[key[r]]]
  /\ Goto(r, "work")
  /\ UNCHANGED <<effect, key, payload, seen, crashes, epoch>>

\* The rest of begin(): delete the expired row that was read, insert a pending
\* one, commit.  The unique index serialises inserters (the second waits for
\* the first to commit), so the row found here is a committed one: unless it is
\* the very row that was read, the flush raises IntegrityError and rolls back.
Reserve(r) ==
  /\ pc[r] = "reserve"
  /\ \/ /\ ~TakenByAnother(r)
        /\ table' = [table EXCEPT ![key[r]] = Pending(r)]
        /\ since' = [since EXCEPT ![r] = epoch[key[r]]]
        /\ Goto(r, "work")
     \/ /\ TakenByAnother(r)
        /\ Respond(r, "in_progress", None)
        /\ UNCHANGED <<table, since>>
  /\ UNCHANGED <<effect, key, payload, seen, crashes, epoch>>

\* The protected operation and its commit: the case with its links, activity
\* and audit row, or the analysis with its audit row.  A triage whose provider
\* fails or answers invalid output commits a failed analysis all the same.
Work(r) ==
  /\ pc[r] = "work"
  /\ \E e \in Effects(key[r]) : effect' = [effect EXCEPT ![r] = e]
  /\ Goto(r, "complete")
  /\ UNCHANGED <<table, key, payload, seen, crashes, epoch, since>>

\* The operation raises before its commit (create_case: 404 for unknown alerts;
\* either: an unexpected exception).  get_db closes the session, which rolls the
\* work back; nothing calls abandon(), so the reservation stays.
Fail(r) ==
  /\ pc[r] = "work"
  /\ \E code \in FailureCodes(key[r]) : Respond(r, code, None)
  /\ UNCHANGED <<table, effect, key, payload, seen, crashes, epoch, since>>

\* Both callers pass status_code=201 whatever they recorded.
StatusCode(e) == 201

\* complete() and the response.  The row is updated by its primary key: when it
\* has been deleted meanwhile the flush raises StaleDataError and the client
\* gets a 500 although the operation is committed.
Complete(r) ==
  /\ pc[r] = "complete"
  /\ LET caches == key[r] \in Keys /\ StatusCode(effect[r]) < 400 IN
       \/ /\ ~caches
          /\ Respond(r, "created", r)
          /\ UNCHANGED table
       \/ /\ caches /\ OwnsRow(r)
          /\ table' = [table EXCEPT ![key[r]] = Completed(@, r)]
          /\ Respond(r, "created", r)
       \/ /\ caches /\ ~OwnsRow(r)
          /\ Respond(r, "error", None)
          /\ UNCHANGED table
  /\ UNCHANGED <<effect, key, payload, seen, crashes, epoch, since>>

\* The clock passes a row's expires_at.  Rows are only ever removed by the next
\* begin() with their key.
Expire(k) ==
  /\ table[k] # NoRow /\ ~table[k].expired
  /\ PromptRequests => ~InFlight(table[k].owner)
  /\ epoch[k] < MaxEpoch
  /\ table' = [table EXCEPT ![k] = Expired(@)]
  /\ epoch' = [epoch EXCEPT ![k] = @ + 1]
  /\ UNCHANGED <<effect, pc, key, payload, seen, answer, crashes, since>>

\* The API process dies: every request in flight is lost with its uncommitted
\* work, what was committed stays.
Crash ==
  /\ crashes < MaxCrashes
  /\ crashes' = crashes + 1
  /\ pc' = [r \in Requests |-> IF InFlight(r) THEN "done" ELSE pc[r]]
  /\ answer' = [r \in Requests |-> IF InFlight(r) THEN Answer("lost", None) ELSE answer[r]]
  /\ UNCHANGED <<table, effect, key, payload, seen, epoch, since>>

Handle(r) == \/ Lookup(r) \/ Reserve(r) \/ Work(r) \/ Fail(r) \/ Complete(r)

Next == \/ \E r \in Requests : Arrive(r) \/ Handle(r)
        \/ \E k \in Keys : Expire(k)
        \/ Crash

Spec == Init /\ [][Next]_vars

\* A thread that serves a request keeps running; the clock keeps running.
Fairness == /\ \A r \in Requests : WF_vars(Handle(r))
            /\ \A k \in Keys : WF_vars(Expire(k))

FairSpec == Spec /\ Fairness
-----------------------------------------------------------------------------
Stages == {"idle", "lookup", "reserve", "work", "complete", "done"}
Codes == {"none", "bad_key", "not_found", "mismatch", "replayed", "in_progress",
          "created", "error", "lost"}
Rows == [owner : Requests \cup {None}, digest : Payloads \cup {None},
         status : {"absent", "pending", "completed"},
         body : Requests \cup {None}, expired : BOOLEAN]

TypeOK ==
  /\ table \in [Keys -> Rows]
  /\ effect \in [Requests -> {"none", "succeeded", "failed"}]
  /\ pc \in [Requests -> Stages]
  /\ key \in [Requests -> Keys \cup {NoKey, BadKey}]
  /\ payload \in [Requests -> Payloads \cup {None}]
  /\ seen \in [Requests -> Requests \cup {None}]
  /\ answer \in [Requests -> [code : Codes, body : Requests \cup {None}]]
  /\ crashes \in Nat
  /\ epoch \in [Keys -> Nat]
  /\ since \in [Requests -> Nat]

AtWork(r) == pc[r] \in {"work", "complete"}
SameKey(r, q) == r # q /\ key[r] \in Keys /\ key[q] = key[r]

\* The operation behind a key is never run by two requests at once, whatever
\* the order of their selects, deletes and inserts in begin().
OneRequestAtWork == \A r, q \in Requests : SameKey(r, q) => ~(AtWork(r) /\ AtWork(q))

\* Two requests that both committed the operation of one key did so under two
\* reservations with an expiration between them: a retry, a crash or a race
\* alone never makes begin() let the operation through twice.
OnceBetweenExpirations ==
  \A r, q \in Requests :
    SameKey(r, q) /\ effect[r] # "none" /\ effect[q] # "none" => since[r] # since[q]

\* Every client that is answered with success for one key, directly or by a
\* replay, and with no expiration in between, is given the same result.
OneCanonicalAnswer ==
  \A r, q \in Requests :
    /\ SameKey(r, q) /\ since[r] = since[q]
    /\ answer[r].code \in {"created", "replayed"}
    /\ answer[q].code \in {"created", "replayed"}
    => answer[r].body = answer[q].body

\* begin() replays only a result some request with the same key and the same
\* payload has really committed.
ReplayIsOfTheSameRequest ==
  \A r \in Requests : answer[r].code = "replayed" =>
    LET q == answer[r].body IN
      /\ q \in Requests /\ key[q] = key[r] /\ payload[q] = payload[r]
      /\ effect[q] # "none"

\* complete() writes its response into its own reservation only: a request that
\* outlived its reservation never marks its successor's row as completed.
RowHoldsItsOwnersResult ==
  \A k \in Keys : table[k].body # None => table[k].body = table[k].owner

\* A request that has entered its handler is answered or lost in a crash: no
\* outcome of the race in begin() leaves it waiting.
EveryRequestEnds == \A r \in Requests : InFlight(r) ~> ~InFlight(r)

\* The reservation table implements OnceOnly.  A key is held by the owner of its
\* live row; deleting an expired row is a stutter.
Live(k) == table[k] # NoRow /\ ~table[k].expired
Once == INSTANCE OnceOnly WITH
          holder <- [k \in Keys |-> IF Live(k) THEN table[k].owner ELSE None],
          performed <- [k \in Keys |-> {r \in Requests : key[r] = k /\ effect[r] # "none"}],
          published <- [k \in Keys |-> IF Live(k) THEN table[k].body ELSE None]
ImplementsOnceOnly == Once!ASpec

\* A pending row stands for a request in flight (the docstring of
\* IdempotencyConflict and the message of the 409 say so).
PendingMeansInFlight ==
  \A k \in Keys : Live(k) /\ table[k].status = "pending" => InFlight(table[k].owner)
===============================================================================
