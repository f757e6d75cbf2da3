------------------------------ MODULE Ingestion ------------------------------
(***************************************************************************)
(* Syncs of one telemetry source (backend/ingestion/orchestrator.py, called *)
(* by POST /ingestion/{provider}/sync) with its two adapters.              *)
(*                                                                         *)
(* A record is its place in the order the source returns records in.  An   *)
(* Elastic checkpoint is the place of the last record of a page; a fixture *)
(* checkpoint is an offset into the records of the window of the request.  *)
(* The transaction of a sync is read committed: what it reads is what had  *)
(* been committed at that moment, and its inserts meet unique indexes on   *)
(* the dedup key of an event and on the source of a checkpoint.            *)
(***************************************************************************)
EXTENDS Naturals, FiniteSets, FiniteSetsExt

CONSTANTS
  Requests,   \* sync requests
  Records,    \* records the source may hold, a set of positive naturals
  Stamp,      \* record -> its timestamp
  Ident,      \* record -> its record_id, as IngestionPage compares them
  Bad,        \* records the normalizer raises on
  Windows,    \* windows a request may ask for, <<start, end>>
  Adapters,   \* the adapters a source may have: "elastic", "fixture"
  Limit,      \* limit of a request
  RetryAttempts,
  MaxCrashes, \* bound: restarts of the API process
  None

ASSUME RecordAssumption == /\ Records \subseteq Nat \ {0} /\ IsFiniteSet(Records)
                           /\ Stamp \in [Records -> Nat] /\ Ident \in [Records -> Nat]
                           /\ \A p, q \in Records : p < q => Stamp[p] <= Stamp[q]
                           /\ Bad \subseteq Records /\ None \notin Nat
ASSUME RequestAssumption == /\ Windows \subseteq Nat \X Nat /\ Adapters \subseteq {"elastic", "fixture"}
                            /\ Limit \in Nat \ {0} /\ RetryAttempts \in Nat \ {0}
                            /\ MaxCrashes \in Nat

VARIABLES
  adapter,    \* the adapter of the source
  source,     \* the records the source holds
  rows,       \* the events table: the record and the run of each row
  checkpoint, \* ingestion_checkpoints: the row of this source, or None
  runs,       \* ingestion_runs: request -> the row of its run
  pc,         \* request -> where run() is
  request,    \* request -> its window and whether it is a dry run
  attempt,    \* request -> number of the attempt to fetch
  base,       \* request -> the checkpoint it loaded
  page,       \* request -> the records it fetched
  known,      \* request -> the dedup keys it found in the database
  saw,        \* request -> the checkpoint it found when it saves its own
  crashes,
  late,       \* history: the records that arrived behind a cursor
  asked       \* history: the windows whose syncs have moved the checkpoint

database == <<rows, checkpoint, runs>>
local == <<request, attempt, base, page, known, saw>>
history == <<late, asked>>
vars == <<adapter, source, database, pc, local, crashes, history>>

NoRun == [status |-> "none", fetched |-> 0, normalized |-> 0, persisted |-> 0, duplicate |-> 0,
          failed |-> 0]

NoRequest == [window |-> <<0, 0>>, dry |-> FALSE]

\* The fixture source has all of its records from the start.
Init == /\ adapter \in Adapters
        /\ source = IF adapter = "fixture" THEN Records ELSE {}
        /\ rows = {} /\ checkpoint = None
        /\ runs = [r \in Requests |-> NoRun]
        /\ pc = [r \in Requests |-> "idle"]
        /\ request = [r \in Requests |-> NoRequest]
        /\ attempt = [r \in Requests |-> 0]
        /\ base = [r \in Requests |-> None]
        /\ page = [r \in Requests |-> {}]
        /\ known = [r \in Requests |-> {}]
        /\ saw = [r \in Requests |-> None]
        /\ crashes = 0
        /\ late = {} /\ asked = {}

Goto(r, where) == pc' = [pc EXCEPT ![r] = where]

\* The requests in S have ended, and what run() held in variables is gone.
End(S) == /\ pc' = [r \in Requests |-> IF r \in S THEN "done" ELSE pc[r]]
          /\ request' = [r \in Requests |-> IF r \in S THEN NoRequest ELSE request[r]]
          /\ attempt' = [r \in Requests |-> IF r \in S THEN 0 ELSE attempt[r]]
          /\ base' = [r \in Requests |-> IF r \in S THEN None ELSE base[r]]
          /\ page' = [r \in Requests |-> IF r \in S THEN {} ELSE page[r]]
          /\ known' = [r \in Requests |-> IF r \in S THEN {} ELSE known[r]]
          /\ saw' = [r \in Requests |-> IF r \in S THEN None ELSE saw[r]]

-----------------------------------------------------------------------------
InWindow(w) == {p \in source : w[1] <= Stamp[p] /\ Stamp[p] < w[2]}

Offset(cp) == IF cp = None THEN 0 ELSE cp
Rank(S, p) == Cardinality({q \in S : q < p})

\* What is left to fetch of a window after a checkpoint.
Remaining(cp, w) ==
  IF adapter = "elastic" THEN {p \in InWindow(w) : p > Offset(cp)}
                         ELSE {p \in InWindow(w) : Rank(InWindow(w), p) >= Offset(cp)}

FirstPage(S) == {p \in S : Rank(S, p) < Limit}

\* Mutant: the checkpoint is one record ahead.
NextAhead(cp, recs) ==
  IF adapter = "elastic" THEN IF recs = {} THEN None ELSE Max(recs) + 1
                         ELSE Offset(cp) + Cardinality(recs) + 1
\* Elastic returns no checkpoint with an empty page.
NextCheckpoint(cp, recs) ==
  IF adapter = "elastic" THEN IF recs = {} THEN None ELSE Max(recs)
                         ELSE Offset(cp) + Cardinality(recs)

\* A record comes at or before a place that was reached already: by the checkpoint,
\* by one that a sync has loaded, or by a page it has fetched.
BehindCursor(p) ==
  \/ p <= Offset(checkpoint)
  \/ \E r \in Requests : p <= Offset(base[r]) \/ (\E q \in page[r] : p <= q)

\* The source indexes a record, with the time it carries: it may come long after
\* others of its time.  Those of the fixture source are all there from the start.
Append(p) == /\ p \notin source
             /\ source' = source \cup {p}
             /\ late' = IF BehindCursor(p) THEN late \cup {p} ELSE late
             /\ UNCHANGED <<adapter, database, pc, local, crashes, asked>>

\* IngestionPage accepts records sorted by timestamp and record_id only, which is
\* how the fixture adapter sorts its own.
Accepted(recs) == adapter = "elastic" => \A p, q \in recs : p < q /\ Stamp[p] = Stamp[q] => Ident[p] <= Ident[q]

\* Load the checkpoint and flush the run, which the transaction holds back.
Start(r) ==
  /\ pc[r] = "idle"
  /\ \E w \in Windows, dry \in BOOLEAN :
       request' = [request EXCEPT ![r] = [window |-> w, dry |-> dry]]
  /\ base' = [base EXCEPT ![r] = checkpoint]
  /\ attempt' = [attempt EXCEPT ![r] = 1]
  /\ Goto(r, "fetch")
  /\ UNCHANGED <<adapter, source, database, page, known, saw, crashes, history>>

MayRetry(r) == attempt[r] < RetryAttempts

\* A page arrives; one out of the order of IngestionPage raises.
Fetch(r) ==
  /\ pc[r] = "fetch"
  /\ LET recs == FirstPage(Remaining(base[r], request[r].window)) IN
       \/ /\ Accepted(recs)
          /\ page' = [page EXCEPT ![r] = recs]
          /\ Goto(r, "keys")
       \/ /\ ~Accepted(recs)
          /\ Goto(r, "refused")
          /\ UNCHANGED page
  /\ UNCHANGED <<adapter, source, database, request, attempt, base, known, saw, crashes, history>>

\* The connection fails or times out: back off and try again, or give up after
\* the last attempt.  Any other error gives up at once.
FetchFails(r) ==
  /\ pc[r] = "fetch"
  /\ \/ /\ MayRetry(r)
        /\ attempt' = [attempt EXCEPT ![r] = @ + 1]
        /\ Goto(r, "backoff")
     \/ /\ Goto(r, "failed")
        /\ UNCHANGED attempt
  /\ UNCHANGED <<adapter, source, database, request, base, page, known, saw, crashes, history>>

Retry(r) == /\ pc[r] = "backoff"
            /\ Goto(r, "fetch")
            /\ UNCHANGED <<adapter, source, database, local, crashes, history>>

Normalized(r) == page[r] \ Bad
Stored == {row.record : row \in rows}

\* Normalize the page and read which dedup keys are stored already.
ReadKeys(r) ==
  /\ pc[r] = "keys"
  /\ known' = [known EXCEPT ![r] = Normalized(r) \cap Stored]
  /\ Goto(r, IF request[r].dry THEN "commit" ELSE "save")
  /\ UNCHANGED <<adapter, source, database, request, attempt, base, page, saw, crashes, history>>

\* _save_checkpoint reads the row of the source and assigns to it.
Save(r) ==
  /\ pc[r] = "save"
  /\ saw' = [saw EXCEPT ![r] = checkpoint]
  /\ Goto(r, "commit")
  /\ UNCHANGED <<adapter, source, database, request, attempt, base, page, known, crashes, history>>
-----------------------------------------------------------------------------
\* The records a sync inserts.
Fresh(r) == IF request[r].dry THEN {} ELSE Normalized(r) \ known[r]

RunRow(r) ==
  [status |-> IF request[r].dry THEN "dry_run"
              ELSE IF page[r] \cap Bad # {} THEN "partial" ELSE "succeeded",
   fetched |-> Cardinality(page[r]), normalized |-> Cardinality(Normalized(r)),
   persisted |-> Cardinality(Fresh(r)), duplicate |-> Cardinality(known[r]),
   failed |-> Cardinality(page[r] \cap Bad)]

\* Mutant: no unique index on the dedup key.
NeverCollides(r) == FALSE
\* A record it inserts has been committed by another sync since.
KeyCollides(r) == Fresh(r) \cap Stored # {}
\* It inserts the checkpoint of the source, and another sync has done so since.
RowCollides(r) == saw[r] = None /\ checkpoint # None

Saves(r) == ~request[r].dry /\ NextCheckpoint(base[r], page[r]) # None

\* Mutant: a failed run keeps what was flushed before the failure.
KeptRows(r) == {[record |-> p, run |-> r] : p \in Fresh(r) \ Stored}
\* What a rolled back transaction leaves of the events it has flushed.
LeftBehind(r) == {}

\* Run, events, checkpoint and audit row commit together.  A checkpoint that
\* equals the one that was read is no change, and is not written.
Commit(r) ==
  /\ pc[r] = "commit"
  /\ ~KeyCollides(r) /\ ~(Saves(r) /\ RowCollides(r))
  /\ rows' = rows \cup {[record |-> p, run |-> r] : p \in Fresh(r)}
  /\ runs' = [runs EXCEPT ![r] = RunRow(r)]
  /\ LET next == NextCheckpoint(base[r], page[r]) IN
       checkpoint' = IF Saves(r) /\ next # saw[r] THEN next ELSE checkpoint
  /\ asked' = IF Saves(r) THEN asked \cup {request[r].window} ELSE asked
  /\ End({r})
  /\ UNCHANGED <<adapter, source, crashes, late>>

\* A unique index rejects the flush, and the transaction is rolled back.
Collide(r) ==
  /\ pc[r] = "commit"
  /\ KeyCollides(r) \/ (Saves(r) /\ RowCollides(r))
  /\ rows' = rows \cup LeftBehind(r)
  /\ Goto(r, "failed")
  /\ UNCHANGED <<adapter, source, checkpoint, runs, local, crashes, history>>

\* The failed run is recorded in a transaction of its own; that it cannot be is
\* swallowed, and the request ends with the first error either way.
RecordFailedRun(r) ==
  /\ pc[r] \in {"failed", "refused"}
  /\ \/ runs' = [runs EXCEPT ![r] = [NoRun EXCEPT !.status = "failed"]]
     \/ UNCHANGED runs
  /\ End({r})
  /\ UNCHANGED <<adapter, source, rows, checkpoint, crashes, history>>

\* The process dies; the transactions it had open are rolled back.
Crash ==
  /\ crashes < MaxCrashes
  /\ crashes' = crashes + 1
  /\ End({r \in Requests : pc[r] # "idle"})
  /\ UNCHANGED <<adapter, source, database, history>>

\* What the process does for a request it has taken.
Steps(r) == \/ Fetch(r) \/ FetchFails(r) \/ Retry(r) \/ ReadKeys(r) \/ Save(r) \/ Commit(r)
            \/ Collide(r) \/ RecordFailedRun(r)

Next == \/ \E r \in Requests : Start(r) \/ Steps(r)
        \/ \E p \in Records : Append(p)
        \/ Crash

Spec == Init /\ [][Next]_vars
-----------------------------------------------------------------------------
\* A record of the source is one event, whatever syncs overlap, repeat a page
\* after a lost checkpoint or start again from an older one.
OneEventPerRecord == \A a, b \in rows : a.record = b.record => a = b

\* A run accounts for its page and owns the rows it counts: a run that failed,
\* was a dry run or never committed owns none.
RunAccountsForItsPage ==
  \A r \in Requests :
    /\ runs[r].persisted = Cardinality({row \in rows : row.run = r})
    /\ runs[r].fetched = runs[r].normalized + runs[r].failed
    /\ runs[r].status \in {"succeeded", "partial"} =>
         runs[r].normalized = runs[r].persisted + runs[r].duplicate

\* What the checkpoint lets a later sync of a window skip is stored, or is a record
\* the normalizer rejects, or came behind a cursor; and there is one other way only:
\* a sync of another window has moved the checkpoint, for Elastic one of a window
\* that does not hold the record.  No overlap, retry, lost update of the checkpoint
\* or restart adds to that (run(), fetch_records, _save_checkpoint).
CheckpointCoversStored ==
  checkpoint # None => \A w \in Windows :
    \A p \in (InWindow(w) \ Remaining(checkpoint, w)) \ (Stored \cup Bad \cup late) :
      \E v \in asked : v # w /\ (adapter = "elastic" => p \notin InWindow(v))
===============================================================================
