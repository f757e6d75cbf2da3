------------------------- MODULE IdempotencyKeys_proofs -------------------------
(***************************************************************************)
(* Proofs about IdempotencyKeys, for every set of requests, keys and       *)
(* payloads and for every number of crashes and expirations.               *)
(*                                                                         *)
(* The invariant ties the reservations to the table: a request that got    *)
(* past Reserve in the current epoch of its key owns the live row (Epochs),*)
(* a request about to replace a row has read one that is expired (Reads),  *)
(* a row belongs to a request of its key that got past Reserve (Owners),   *)
(* and the stage of a request tells whether it has committed (Stage). For  *)
(* the answers, a row keeps the payload and the epoch of its owner         *)
(* (Deposits), and so an answer is the result of its own request or of one *)
(* with its key, its payload and its epoch (Answers).                      *)
(***************************************************************************)
EXTENDS IdempotencyKeys, TLAPS

\* The request got past Reserve and may have, or has, committed its operation.
Acquired(r) == AtWork(r) \/ effect[r] # "none"

Stage == \A r \in Requests :
           /\ pc[r] \in {"idle", "lookup", "reserve", "work"} => effect[r] = "none"
           /\ pc[r] = "complete" => effect[r] # "none"
           /\ pc[r] \in {"lookup", "reserve"} => key[r] \in Keys

Owners == \A k \in Keys :
            /\ table[k] = NoRow \/ table[k].owner \in Requests
            /\ table[k].owner \in Requests =>
                 /\ key[table[k].owner] = k
                 /\ pc[table[k].owner] \in {"work", "complete", "done"}
            /\ table[k].body # None => table[k].body = table[k].owner

Reads == \A r \in Requests : pc[r] = "reserve" /\ seen[r] # None =>
           /\ table[key[r]].owner = seen[r] => table[key[r]].expired
           /\ pc[seen[r]] \in {"work", "complete", "done"}

Epochs == \A r \in Requests : key[r] \in Keys /\ Acquired(r) =>
            /\ since[r] <= epoch[key[r]]
            /\ since[r] = epoch[key[r]] =>
                 table[key[r]].owner = r /\ ~table[key[r]].expired

Distinct == \A r, q \in Requests :
              SameKey(r, q) /\ Acquired(r) /\ Acquired(q) => since[r] # since[q]

IInv == TypeOK /\ Stage /\ Owners /\ Reads /\ Epochs /\ Distinct

-----------------------------------------------------------------------------
\* What the record of a table cell is, and what EXCEPT does to it, once and for
\* all: facts about data the provers need in every step.
LEMMA RowFacts ==
  ASSUME TypeOK, NEW k \in Keys
  PROVE  /\ table[k] \in Rows
         /\ table[k].owner \in Requests \cup {None}
         /\ table[k].body \in Requests \cup {None}
         /\ table[k].expired \in BOOLEAN
         /\ epoch[k] \in Nat
BY DEF TypeOK, Rows

\* Every step keeps the types: TypeOK needs only that a request in lookup or
\* reserve carries a well-formed key.
LEMMA TypeStep == TypeOK /\ Stage /\ [Next]_vars => TypeOK'
<1> SUFFICES ASSUME TypeOK, Stage, [Next]_vars PROVE TypeOK'
  OBVIOUS
<1>1. ASSUME NEW r \in Requests, Arrive(r) PROVE TypeOK'
  BY <1>1 DEF Arrive, Goto, Respond, Answer, TypeOK, Stages, Codes
<1>2. ASSUME NEW r \in Requests, Lookup(r) PROVE TypeOK'
  <2>1. key[r] \in Keys
    BY <1>2 DEF Lookup, Stage
  <2> DEFINE row == table[key[r]]
  <2>2. row.owner \in Requests \cup {None} /\ row.body \in Requests \cup {None}
        /\ epoch[key[r]] \in Nat
    BY <2>1, RowFacts
  <2>3. answer' \in [Requests -> [code : Codes, body : Requests \cup {None}]]
        /\ pc' \in [Requests -> Stages]
    BY <1>2, <2>2 DEF Lookup, Goto, Respond, Answer, TypeOK, Stages, Codes
  <2>4. seen' \in [Requests -> Requests \cup {None}] /\ since' \in [Requests -> Nat]
    BY <1>2, <2>2 DEF Lookup, TypeOK
  <2> QED BY <1>2, <2>3, <2>4 DEF Lookup, TypeOK
<1>3. ASSUME NEW r \in Requests, Reserve(r) PROVE TypeOK'
  <2>1. key[r] \in Keys /\ epoch[key[r]] \in Nat
    BY <1>3, RowFacts DEF Reserve, Stage
  <2>2. Pending(r) \in Rows
    BY DEF Pending, Rows, TypeOK
  <2>3. table' \in [Keys -> Rows] /\ since' \in [Requests -> Nat]
    BY <1>3, <2>1, <2>2 DEF Reserve, TypeOK
  <2>4. answer' \in [Requests -> [code : Codes, body : Requests \cup {None}]]
        /\ pc' \in [Requests -> Stages]
    BY <1>3 DEF Reserve, Goto, Respond, Answer, TypeOK, Stages, Codes
  <2> QED BY <1>3, <2>3, <2>4 DEF Reserve, TypeOK
<1>4. ASSUME NEW r \in Requests, Work(r) \/ Fail(r) \/ Complete(r) PROVE TypeOK'
  <2>1. table' \in [Keys -> Rows]
    BY <1>4, RowFacts DEF Work, Fail, Complete, Completed, TypeOK, Rows
  <2>2. answer' \in [Requests -> [code : Codes, body : Requests \cup {None}]]
        /\ pc' \in [Requests -> Stages]
    <3>1. CASE Work(r)
      BY <3>1 DEF Work, Goto, TypeOK, Stages
    <3>2. CASE Fail(r)
      <4>1. PICK code \in {"error", "not_found"} : Respond(r, code, None)
        BY <3>2 DEF Fail, FailureCodes
      <4> QED BY <4>1 DEF Respond, Answer, TypeOK, Stages, Codes
    <3>3. CASE Complete(r)
      BY <3>3 DEF Complete, Respond, Answer, TypeOK, Stages, Codes
    <3> QED BY <1>4, <3>1, <3>2, <3>3
  <2>3. effect' \in [Requests -> {"none", "succeeded", "failed"}]
    BY <1>4 DEF Work, Fail, Complete, Effects, TypeOK
  <2> QED BY <1>4, <2>1, <2>2, <2>3 DEF Work, Fail, Complete, TypeOK
<1>5. ASSUME NEW k \in Keys, Expire(k) PROVE TypeOK'
  BY <1>5 DEF Expire, Expired, TypeOK, Rows
<1>6. CASE Crash
  BY <1>6 DEF Crash, Answer, TypeOK, Stages, Codes
<1>7. CASE UNCHANGED vars
  BY <1>7 DEF vars, TypeOK
<1> QED BY <1>1, <1>2, <1>3, <1>4, <1>5, <1>6, <1>7 DEF Next, Handle

-----------------------------------------------------------------------------
\* At first there are no rows and nobody works.
LEMMA InitInvariant == Init => IInv
BY KeyAssumption, NoneAssumption
   DEF Init, IInv, TypeOK, Rows, Stages, Codes, Answer, NoRow, Stage, Owners, Reads,
       Epochs, Distinct, Acquired, AtWork, SameKey

\* A request enters its handler: its own key and stage change, nothing else.
LEMMA ArriveStep == ASSUME IInv, NEW r \in Requests, Arrive(r) PROVE IInv'
<1>1. pc[r] = "idle" /\ pc'[r] \in {"lookup", "work", "done"} /\ effect[r] = "none"
      /\ (pc'[r] \in {"lookup"} => key'[r] \in Keys)
      /\ (pc'[r] = "work" => key'[r] \notin Keys)
      /\ \A q \in Requests \ {r} : pc'[q] = pc[q] /\ key'[q] = key[q]
  BY KeyAssumption DEF IInv, TypeOK, Stage, Arrive, Goto, Respond
<1>2. UNCHANGED <<table, effect, seen, epoch, since>>
  BY DEF Arrive
<1>3. TypeOK'
  BY TypeStep DEF IInv, Next
<1>4. Stage'
  BY <1>1, <1>2 DEF IInv, Stage
<1>5. Owners'
  <2>1. \A k \in Keys : table[k].owner # r
    BY <1>1 DEF IInv, Owners
  <2> QED BY <1>1, <1>2, <2>1 DEF IInv, Owners
<1>6. Reads'
  <2>1. \A q \in Requests : seen[q] # None => seen[q] \in Requests
    BY DEF IInv, TypeOK
  <2> QED BY <1>1, <1>2, <2>1 DEF IInv, Reads
<1>7. Epochs' /\ Distinct'
  BY <1>1, <1>2 DEF IInv, Epochs, Distinct, Acquired, AtWork, SameKey
<1> QED BY <1>3, <1>4, <1>5, <1>6, <1>7 DEF IInv

\* begin() reads: what it read as expired is still expired when it comes back to it.
LEMMA LookupStep == ASSUME IInv, NEW r \in Requests, Lookup(r) PROVE IInv'
<1>1. pc[r] = "lookup" /\ key[r] \in Keys /\ pc'[r] \in {"reserve", "done"}
      /\ effect[r] = "none"
      /\ \A q \in Requests \ {r} : pc'[q] = pc[q] /\ seen'[q] = seen[q] /\ since'[q] = since[q]
  BY DEF IInv, TypeOK, Stage, Lookup, Goto, Respond
<1>2. UNCHANGED <<table, effect, key, epoch>>
  BY DEF Lookup
<1>3. TypeOK'
  BY TypeStep DEF IInv, Next, Handle
<1>4. Stage'
  BY <1>1, <1>2 DEF IInv, Stage
<1>5. Owners'
  <2>1. \A k \in Keys : table[k].owner # r
    BY <1>1 DEF IInv, Owners
  <2> QED BY <1>1, <1>2, <2>1 DEF IInv, Owners
<1>6. Reads'
  <2>1. pc'[r] = "reserve" => /\ IsFree(table[key[r]])
                              /\ seen'[r] = table[key[r]].owner
    BY <1>1 DEF Lookup, Goto, Respond, IInv, TypeOK
  <2>2. table[key[r]] = NoRow => table[key[r]].owner = None
    BY DEF NoRow
  <2>3. table[key[r]].owner # None => table[key[r]].owner \in Requests \ {r}
                                      /\ pc[table[key[r]].owner] \in {"work", "complete", "done"}
    BY <1>1, <2>2 DEF IInv, Owners
  <2>4. \A q \in Requests : seen[q] # None => seen[q] \in Requests
    BY DEF IInv, TypeOK
  <2> QED BY <1>1, <1>2, <2>1, <2>2, <2>3, <2>4 DEF IInv, Reads, IsFree
<1>7. Epochs' /\ Distinct'
  BY <1>1, <1>2 DEF IInv, Epochs, Distinct, Acquired, AtWork, SameKey
<1> QED BY <1>3, <1>4, <1>5, <1>6, <1>7 DEF IInv

\* A reservation is made only where no live row is, so every earlier reservation
\* of the key was made in an earlier epoch.
LEMMA ReserveStep == ASSUME IInv, NEW r \in Requests, Reserve(r) PROVE IInv'
<1>0. pc[r] = "reserve" /\ key[r] \in Keys /\ effect[r] = "none"
  BY DEF Reserve, IInv, Stage
<1>1. UNCHANGED <<effect, key, seen, epoch>>
  BY DEF Reserve
<1>2. TypeOK'
  BY TypeStep DEF IInv, Next, Handle
<1>3. CASE TakenByAnother(r)
  <2>1. pc' = [pc EXCEPT ![r] = "done"] /\ UNCHANGED <<table, since>>
    BY <1>3 DEF Reserve, Respond
  <2>2. \A k \in Keys : table[k].owner # r
    BY <1>0 DEF IInv, Owners
  <2>3. Stage' /\ Reads' /\ Owners'
    <3>1. \A q \in Requests : seen[q] # None => seen[q] \in Requests
      BY DEF IInv, TypeOK
    <3> QED BY <1>0, <1>1, <2>1, <2>2, <3>1 DEF IInv, TypeOK, Stage, Reads, Owners
  <2>4. Epochs' /\ Distinct'
    BY <1>0, <1>1, <2>1 DEF IInv, TypeOK, Epochs, Distinct, Acquired, AtWork, SameKey
  <2> QED BY <1>2, <2>3, <2>4 DEF IInv
<1>4. CASE ~TakenByAnother(r)
  <2>1. /\ table' = [table EXCEPT ![key[r]] = Pending(r)]
        /\ since' = [since EXCEPT ![r] = epoch[key[r]]]
        /\ pc' = [pc EXCEPT ![r] = "work"]
    BY <1>4 DEF Reserve, Goto
  <2>2. table[key[r]] = NoRow \/ table[key[r]].expired
    BY <1>0, <1>4, NoneAssumption DEF TakenByAnother, IInv, TypeOK, Reads, Owners, NoRow
  <2>3. ASSUME NEW q \in Requests \ {r}, key[q] = key[r], Acquired(q)
        PROVE  since[q] < epoch[key[r]]
    <3>1. table[key[r]] # NoRow \/ table[key[r]].owner # q
      BY NoneAssumption DEF NoRow
    <3>2. since[q] # epoch[key[r]]
      BY <1>0, <2>2, <2>3, <3>1 DEF IInv, Epochs
    <3>3. since[q] <= epoch[key[r]] /\ since[q] \in Nat /\ epoch[key[r]] \in Nat
      BY <1>0, <2>3 DEF IInv, Epochs, TypeOK
    <3> QED BY <3>2, <3>3
  <2>4. Pending(r).owner = r /\ ~Pending(r).expired /\ Pending(r).body = None
        /\ Pending(r) # NoRow
    BY NoneAssumption DEF Pending, NoRow
  <2>5. /\ table'[key[r]] = Pending(r) /\ since'[r] = epoch[key[r]] /\ pc'[r] = "work"
        /\ \A k \in Keys \ {key[r]} : table'[k] = table[k]
        /\ \A q \in Requests \ {r} : since'[q] = since[q] /\ pc'[q] = pc[q]
    BY <1>0, <2>1 DEF IInv, TypeOK
  <2>6. Stage' /\ Owners'
    <3>1. \A k \in Keys : table[k].owner # r
      BY <1>0 DEF IInv, Owners
    <3>2. Stage'
      BY <1>0, <1>1, <2>5 DEF IInv, Stage
    <3>3. Owners'
      BY <1>0, <1>1, <2>4, <2>5, <3>1 DEF IInv, Owners
    <3> QED BY <3>2, <3>3
  <2>7. Reads'
    \* a reader of the key cannot have read the new row: its owner had not reserved
    <3> SUFFICES ASSUME NEW q \in Requests, pc'[q] = "reserve", seen[q] # None
                 PROVE  /\ table'[key[q]].owner = seen[q] => table'[key[q]].expired
                        /\ pc'[seen[q]] \in {"work", "complete", "done"}
      BY <1>1 DEF Reads
    <3>1. q # r /\ pc[q] = "reserve" /\ key[q] \in Keys
      BY <2>5 DEF IInv, Stage
    <3>2. seen[q] \in Requests /\ pc[seen[q]] \in {"work", "complete", "done"}
      BY <3>1 DEF IInv, TypeOK, Reads
    <3>3. seen[q] # r
      BY <1>0, <3>2
    <3>4. CASE key[q] # key[r]
      BY <2>5, <3>1, <3>2, <3>3, <3>4 DEF IInv, Reads
    <3>5. CASE key[q] = key[r]
      BY <2>4, <2>5, <3>2, <3>3, <3>5
    <3> QED BY <3>4, <3>5
  <2>8. Epochs'
    <3> SUFFICES ASSUME NEW q \in Requests, key[q] \in Keys, Acquired(q)'
                 PROVE  /\ since'[q] <= epoch[key[q]]
                        /\ since'[q] = epoch[key[q]] =>
                             table'[key[q]].owner = q /\ ~table'[key[q]].expired
      BY <1>1 DEF Epochs
    <3>1. CASE q = r
      BY <1>0, <2>4, <2>5, <3>1 DEF IInv, TypeOK
    <3>2. CASE q # r /\ key[q] = key[r]
      <4>1. Acquired(q)
        BY <1>1, <2>5, <3>2 DEF Acquired, AtWork
      <4>2. since[q] < epoch[key[q]] /\ since'[q] = since[q]
        BY <2>3, <2>5, <3>2, <4>1
      <4>3. since[q] \in Nat /\ epoch[key[q]] \in Nat
        BY DEF IInv, TypeOK
      <4> QED BY <4>2, <4>3
    <3>3. CASE q # r /\ key[q] # key[r]
      BY <1>1, <2>5, <3>3 DEF Acquired, AtWork, IInv, Epochs
    <3> QED BY <3>1, <3>2, <3>3
  <2>9. Distinct'
    <3> SUFFICES ASSUME NEW p \in Requests, NEW q \in Requests, SameKey(p, q),
                        Acquired(p)', Acquired(q)'
                 PROVE  since'[p] # since'[q]
      BY <1>1 DEF Distinct, SameKey
    <3>1. CASE p # r /\ q # r
      BY <1>1, <2>5, <3>1 DEF Acquired, AtWork, SameKey, IInv, Distinct
    <3>2. CASE p = r
      <4>1. q # r /\ key[q] = key[r] /\ Acquired(q)
        BY <1>1, <2>5, <3>2 DEF SameKey, Acquired, AtWork
      <4>2. since[q] < epoch[key[r]] /\ since'[q] = since[q] /\ since'[r] = epoch[key[r]]
        BY <2>3, <2>5, <4>1
      <4>3. since[q] \in Nat /\ epoch[key[r]] \in Nat
        BY <1>0 DEF IInv, TypeOK
      <4> QED BY <3>2, <4>2, <4>3
    <3>3. CASE q = r
      <4>1. p # r /\ key[p] = key[r] /\ Acquired(p)
        BY <1>1, <2>5, <3>3 DEF SameKey, Acquired, AtWork
      <4>2. since[p] < epoch[key[r]] /\ since'[p] = since[p] /\ since'[r] = epoch[key[r]]
        BY <2>3, <2>5, <4>1
      <4>3. since[p] \in Nat /\ epoch[key[r]] \in Nat
        BY <1>0 DEF IInv, TypeOK
      <4> QED BY <3>3, <4>2, <4>3
    <3> QED BY <3>1, <3>2, <3>3
  <2> QED BY <1>2, <2>6, <2>7, <2>8, <2>9 DEF IInv
<1> QED BY <1>3, <1>4

\* Committing the operation, failing before it, and completing the reservation
\* move only the request itself, which keeps the reservation it had.
LEMMA OwnSteps ==
  ASSUME IInv, NEW r \in Requests, Work(r) \/ Fail(r) \/ Complete(r) PROVE IInv'
<1>1. /\ pc[r] \in {"work", "complete"} /\ pc'[r] \in {"complete", "done"}
      /\ pc'[r] = "complete" => effect'[r] # "none"
      /\ Acquired(r)
      /\ \A q \in Requests \ {r} : pc'[q] = pc[q] /\ effect'[q] = effect[q]
  BY DEF IInv, TypeOK, Work, Fail, Complete, Effects, Goto, Respond, Acquired, AtWork
<1>2. UNCHANGED <<key, seen, since, epoch>>
  BY DEF Work, Fail, Complete
<1>3. /\ \A k \in Keys : table'[k].owner = table[k].owner /\ table'[k].expired = table[k].expired
      /\ \A k \in Keys : table'[k] = table[k] \/ (table'[k].body = r /\ table[k].owner = r)
  BY DEF IInv, TypeOK, Work, Fail, Complete, Completed, OwnsRow
<1>4. TypeOK'
  BY TypeStep DEF IInv, Next, Handle
<1>5. Stage'
  BY <1>1, <1>2 DEF IInv, Stage
<1>6. Owners'
  BY <1>1, <1>2, <1>3 DEF IInv, Owners
<1>7. Reads'
  <2>1. \A q \in Requests : /\ seen[q] # None => seen[q] \in Requests
                            /\ pc[q] = "reserve" => key[q] \in Keys
    BY DEF IInv, TypeOK, Stage
  <2> QED BY <1>1, <1>2, <1>3, <2>1 DEF IInv, Reads
<1>8. \A q \in Requests : Acquired(q)' => Acquired(q)
  BY <1>1 DEF Acquired, AtWork
<1>9. Epochs' /\ Distinct'
  BY <1>2, <1>3, <1>8 DEF IInv, Epochs, Distinct, SameKey
<1> QED BY <1>4, <1>5, <1>6, <1>7, <1>9 DEF IInv

\* An expiration starts a new epoch: no reservation made so far is in it.
LEMMA ExpireStep == ASSUME IInv, NEW k \in Keys, Expire(k) PROVE IInv'
<1>1. UNCHANGED <<effect, pc, key, seen, since>>
  BY DEF Expire
<1>2. /\ epoch'[k] = epoch[k] + 1 /\ epoch[k] \in Nat
      /\ table'[k].owner = table[k].owner /\ table'[k].body = table[k].body
      /\ table'[k].expired /\ table[k] # NoRow
      /\ \A j \in Keys \ {k} : epoch'[j] = epoch[j] /\ table'[j] = table[j]
  BY DEF Expire, Expired, IInv, TypeOK
<1>3. TypeOK'
  BY TypeStep DEF IInv, Next
<1>4. Stage'
  BY <1>1 DEF IInv, Stage
<1>5. Owners'
  BY <1>1, <1>2 DEF IInv, Owners
<1>6. Reads'
  BY <1>1, <1>2 DEF IInv, Stage, Reads
<1>7. Epochs'
  <2> SUFFICES ASSUME NEW q \in Requests, key[q] \in Keys, Acquired(q)
               PROVE  /\ since[q] <= epoch'[key[q]]
                      /\ since[q] = epoch'[key[q]] =>
                           table'[key[q]].owner = q /\ ~table'[key[q]].expired
    BY <1>1 DEF Epochs, Acquired, AtWork
  <2>1. CASE key[q] # k
    BY <1>2, <2>1 DEF IInv, Epochs
  <2>2. CASE key[q] = k
    <3>1. since[q] <= epoch[k] /\ since[q] \in Nat
      BY <2>2 DEF IInv, Epochs, TypeOK
    <3> QED BY <1>2, <2>2, <3>1
  <2> QED BY <2>1, <2>2
<1>8. Distinct'
  BY <1>1 DEF IInv, Distinct, SameKey, Acquired, AtWork
<1> QED BY <1>3, <1>4, <1>5, <1>6, <1>7, <1>8 DEF IInv

\* A crash ends requests; the table, what was committed and the history stay.
LEMMA CrashStep == ASSUME IInv, Crash PROVE IInv'
<1>1. /\ \A r \in Requests : pc'[r] = pc[r] \/ pc'[r] = "done"
      /\ UNCHANGED <<table, effect, key, seen, epoch, since>>
  BY DEF Crash
<1>2. TypeOK'
  BY TypeStep DEF IInv, Next
<1>3. Stage'
  BY <1>1 DEF IInv, Stage
<1>4. Owners' /\ Reads'
  <2>1. \A q \in Requests : seen[q] # None => seen[q] \in Requests
    BY DEF IInv, TypeOK
  <2> QED BY <1>1, <2>1 DEF IInv, Owners, Reads
<1>5. \A q \in Requests : Acquired(q)' => Acquired(q)
  BY <1>1 DEF Acquired, AtWork
<1>6. Epochs' /\ Distinct'
  BY <1>1, <1>5 DEF IInv, Epochs, Distinct, SameKey
<1> QED BY <1>2, <1>3, <1>4, <1>6 DEF IInv

\* A step of nobody changes nothing.
LEMMA StutterStep == IInv /\ UNCHANGED vars => IInv'
BY DEF IInv, vars, TypeOK, Stage, Owners, Reads, Epochs, Distinct, Acquired, AtWork, SameKey

\* The invariant the theorems below rest on holds in every reachable state.
THEOREM Invariant == Spec => []IInv
<1>1. IInv /\ [Next]_vars => IInv'
  BY ArriveStep, LookupStep, ReserveStep, OwnSteps, ExpireStep, CrashStep, StutterStep
     DEF Next, Handle
<1> QED BY InitInvariant, <1>1, PTL DEF Spec

\* Type correctness of the reservation table, the requests and their answers.
THEOREM TypeCorrect == Spec => []TypeOK
<1>1. IInv => TypeOK
  BY DEF IInv
<1> QED BY Invariant, <1>1, PTL

\* Between two expirations of a key its operation is committed at most once, for
\* any number of requests, retries and crashes, slow requests included.
THEOREM AtMostOnce == Spec => []OnceBetweenExpirations
<1>1. IInv => OnceBetweenExpirations
  BY DEF IInv, Distinct, Acquired, SameKey, OnceBetweenExpirations
<1> QED BY Invariant, <1>1, PTL

\* complete() never writes into another request's reservation.
THEOREM OwnResults == Spec => []RowHoldsItsOwnersResult
<1>1. IInv => RowHoldsItsOwnersResult
  BY DEF IInv, Owners, RowHoldsItsOwnersResult
<1> QED BY Invariant, <1>1, PTL

-----------------------------------------------------------------------------
(***************************************************************************)
(* What is answered: a row keeps the payload and the epoch of its owner    *)
(* (Deposits), and an answer is the result of a request that reserved with *)
(* the same key, the same payload and in the same epoch (Answers).         *)
(***************************************************************************)
Deposits == \A k \in Keys : table[k].owner \in Requests =>
              LET o == table[k].owner IN
                /\ table[k].digest = payload[o]
                /\ ~table[k].expired => since[o] = epoch[k]
                /\ table[k].body # None => effect[o] # "none"

ResultOf(b, r) == /\ b \in Requests /\ key[b] = key[r] /\ payload[b] = payload[r]
                  /\ effect[b] # "none" /\ since[b] = since[r]

Answers == \A r \in Requests : answer[r].code \in {"created", "replayed"} =>
             /\ pc[r] = "done"
             /\ ResultOf(answer[r].body, r)
             /\ answer[r].code = "created" => answer[r].body = r

\* A step that keeps what a result is compared by keeps the result.
LEMMA ResultStays ==
  ASSUME NEW b, NEW r, ResultOf(b, r),
         key'[b] = key[b] /\ payload'[b] = payload[b] /\ since'[b] = since[b],
         key'[r] = key[r] /\ payload'[r] = payload[r] /\ since'[r] = since[r],
         effect'[b] # "none"
  PROVE  ResultOf(b, r)'
BY DEF ResultOf

\* A request that has committed its operation has reserved, and does not move its key,
\* its payload or its epoch any more; nor does a request that has been answered.
Settled(r) == /\ key'[r] = key[r] /\ payload'[r] = payload[r] /\ since'[r] = since[r]
              /\ effect[r] # "none" => effect'[r] # "none"

\* What is settled stays so in every step.
LEMMA Settles ==
  ASSUME IInv, [Next]_vars, NEW r \in Requests, pc[r] \in {"work", "complete", "done"}
  PROVE  Settled(r) /\ pc'[r] \in {"work", "complete", "done"}
<1> USE DEF Settled, IInv, TypeOK
<1>1. ASSUME NEW q \in Requests, Arrive(q) \/ Lookup(q) \/ Reserve(q)
      PROVE  Settled(r) /\ pc'[r] \in {"work", "complete", "done"}
  BY <1>1 DEF Arrive, Lookup, Reserve, Goto, Respond
<1>2. ASSUME NEW q \in Requests, Work(q) \/ Fail(q) \/ Complete(q)
      PROVE  Settled(r) /\ pc'[r] \in {"work", "complete", "done"}
  BY <1>2 DEF Work, Fail, Complete, Goto, Respond, Effects
<1>3. ASSUME NEW k \in Keys, Expire(k)
      PROVE  Settled(r) /\ pc'[r] \in {"work", "complete", "done"}
  BY <1>3 DEF Expire
<1>4. CASE Crash
  BY <1>4 DEF Crash, InFlight
<1>5. CASE UNCHANGED vars
  BY <1>5 DEF vars
<1> QED BY <1>1, <1>2, <1>3, <1>4, <1>5 DEF Next, Handle

\* A row keeps what its owner left in it, and a result is left by a request that has
\* committed one.
LEMMA DepositsStep == ASSUME IInv, Deposits, [Next]_vars PROVE Deposits'
<1>1. TypeOK /\ TypeOK'
  BY TypeStep DEF IInv
<1> SUFFICES ASSUME NEW k \in Keys, NEW o \in Requests, table'[k].owner = o
             PROVE  /\ table'[k].digest = payload'[o]
                    /\ ~table'[k].expired => since'[o] = epoch'[k]
                    /\ table'[k].body # None => effect'[o] # "none"
  BY DEF Deposits
<1>2. ASSUME table[k].owner = o, table'[k].digest = table[k].digest,
             ~table'[k].expired => ~table[k].expired /\ epoch'[k] = epoch[k],
             table'[k].body # None => table[k].body # None \/ effect[o] # "none"
      PROVE  /\ table'[k].digest = payload'[o]
             /\ ~table'[k].expired => since'[o] = epoch'[k]
             /\ table'[k].body # None => effect'[o] # "none"
  <2>1. pc[o] \in {"work", "complete", "done"}
    BY <1>2 DEF IInv, Owners
  <2> QED BY <1>2, <2>1, Settles DEF Settled, Deposits
<1>3. CASE table' = table /\ epoch' = epoch
  BY <1>2, <1>3
<1>4. ASSUME NEW r \in Requests, Reserve(r), table' # table
      PROVE  /\ table'[k].digest = payload'[o]
             /\ ~table'[k].expired => since'[o] = epoch'[k]
             /\ table'[k].body # None => effect'[o] # "none"
  <2>1. /\ table' = [table EXCEPT ![key[r]] = Pending(r)] /\ key[r] \in Keys
        /\ since' = [since EXCEPT ![r] = epoch[key[r]]]
        /\ UNCHANGED <<epoch, payload>>
    BY <1>4 DEF Reserve, IInv, Stage
  <2>2. CASE k # key[r]
    <3>1. table'[k] = table[k]
      BY <1>1, <2>1, <2>2 DEF TypeOK
    <3> QED BY <1>2, <2>1, <3>1
  <2>3. CASE k = key[r]
    <3>1. table'[k] = Pending(r) /\ since'[r] = epoch[k]
      BY <1>1, <2>1, <2>3 DEF TypeOK
    <3> QED BY <2>1, <3>1 DEF Pending
  <2> QED BY <2>2, <2>3
<1>5. ASSUME NEW r \in Requests, Complete(r), table' # table
      PROVE  /\ table'[k].digest = payload'[o]
             /\ ~table'[k].expired => since'[o] = epoch'[k]
             /\ table'[k].body # None => effect'[o] # "none"
  <2>1. /\ table' = [table EXCEPT ![key[r]] = Completed(@, r)] /\ key[r] \in Keys
        /\ table[key[r]].owner = r /\ epoch' = epoch /\ effect[r] # "none"
    BY <1>5 DEF Complete, OwnsRow, IInv, Stage
  <2>2. CASE k # key[r]
    <3>1. table'[k] = table[k]
      BY <1>1, <2>1, <2>2 DEF TypeOK
    <3> QED BY <1>2, <2>1, <3>1
  <2>3. CASE k = key[r]
    <3>1. table'[k] = Completed(table[k], r)
      BY <1>1, <2>1, <2>3 DEF TypeOK
    <3>2. /\ table'[k].owner = r /\ table'[k].digest = table[k].digest
          /\ table'[k].expired = table[k].expired
      BY <2>1, <2>3, <3>1 DEF Completed
    <3> QED BY <1>2, <2>1, <2>3, <3>2
  <2> QED BY <2>2, <2>3
<1>6. ASSUME NEW j \in Keys, Expire(j)
      PROVE  /\ table'[k].digest = payload'[o]
             /\ ~table'[k].expired => since'[o] = epoch'[k]
             /\ table'[k].body # None => effect'[o] # "none"
  <2>1. CASE k # j
    <3>1. table'[k] = table[k] /\ epoch'[k] = epoch[k]
      BY <1>1, <1>6, <2>1 DEF Expire, TypeOK
    <3> QED BY <1>2, <3>1
  <2>2. CASE k = j
    <3>1. table'[k] = Expired(table[k])
      BY <1>1, <1>6, <2>2 DEF Expire, TypeOK
    <3>2. /\ table'[k].expired /\ table'[k].owner = table[k].owner
          /\ table'[k].digest = table[k].digest /\ table'[k].body = table[k].body
      BY <3>1 DEF Expired
    <3> QED BY <1>2, <3>2
  <2> QED BY <2>1, <2>2
<1>7. \/ table' = table /\ epoch' = epoch
      \/ \E r \in Requests : (Reserve(r) \/ Complete(r)) /\ table' # table
      \/ \E j \in Keys : Expire(j)
  <2>1. ASSUME NEW r \in Requests, Reserve(r) \/ Complete(r) PROVE epoch' = epoch
    BY <2>1 DEF Reserve, Complete
  <2>2. ASSUME NEW r \in Requests, Arrive(r) \/ Lookup(r) \/ Work(r) \/ Fail(r)
        PROVE  table' = table /\ epoch' = epoch
    BY <2>2 DEF Arrive, Lookup, Work, Fail
  <2> QED BY <2>1, <2>2 DEF Next, Handle, Crash, vars
<1> QED BY <1>3, <1>4, <1>5, <1>6, <1>7

\* An answer with a result is given once, by a request that has it or reads it.
LEMMA AnswersStep == ASSUME IInv, Deposits, Answers, [Next]_vars PROVE Answers'
<1> SUFFICES ASSUME NEW r \in Requests, answer'[r].code \in {"created", "replayed"}
             PROVE  /\ pc'[r] = "done"
                    /\ ResultOf(answer[r].body, r)'
                    /\ answer'[r].code = "created" => answer'[r].body = r
  BY DEF Answers
<1>0. TypeOK /\ TypeOK'
  BY TypeStep DEF IInv
<1>1. ASSUME NEW b \in Requests, effect[b] # "none" PROVE Settled(b)
  <2>1. pc[b] \in {"complete", "done"}
    BY <1>0, <1>1 DEF IInv, Stage, TypeOK, Stages
  <2> QED BY <2>1, Settles
<1>2. CASE answer'[r] = answer[r] /\ pc'[r] = pc[r]
  <2>1. /\ pc[r] = "done" /\ ResultOf(answer[r].body, r)
        /\ answer[r].code = "created" => answer[r].body = r
    BY <1>2 DEF Answers
  <2>2. Settled(r) /\ Settled(answer[r].body)
    BY <1>1, <2>1, Settles DEF ResultOf
  <2> QED BY <1>2, <2>1, <2>2 DEF Settled, ResultOf
<1>3. CASE Lookup(r) /\ answer'[r].code = "replayed"
  <2> DEFINE row == table[key[r]]
  <2>1. key[r] \in Keys /\ pc[r] = "lookup"
    BY <1>3 DEF Lookup, IInv, Stage
  <2>2. /\ ~IsFree(row) /\ ~Mismatch(r, row) /\ Replayable(row)
        /\ Respond(r, "replayed", row.body)
        /\ since' = [since EXCEPT ![r] = epoch[key[r]]]
    <3>1. answer[r].code # "replayed"
      BY <2>1 DEF Answers
    <3>2. \A code, body : Respond(r, code, body) => answer'[r].code = code
      BY <1>0 DEF Respond, Answer, TypeOK
    <3> QED BY <1>3, <3>1, <3>2 DEF Lookup, Goto
  <2>3. UNCHANGED <<key, payload, effect>>
    BY <1>3 DEF Lookup
  <2>4. row.owner \in Requests /\ ~row.expired /\ row.body # None /\ row.body = row.owner
        /\ row.digest = payload[r]
    BY <2>1, <2>2, NoneAssumption DEF IInv, Owners, IsFree, Replayable, Mismatch
  <2>5. key[row.owner] = key[r] /\ pc[row.owner] \in {"work", "complete", "done"}
    BY <2>1, <2>4 DEF IInv, Owners
  <2>6. row.digest = payload[row.owner] /\ since[row.owner] = epoch[key[r]]
        /\ effect[row.owner] # "none"
    BY <2>1, <2>4 DEF Deposits
  <2>7. row.owner # r
    BY <2>1, <2>5
  <2>8. since'[r] = epoch[key[r]] /\ since'[row.owner] = since[row.owner]
    BY <1>0, <2>2, <2>4, <2>7 DEF TypeOK
  <2>9. answer'[r].body = row.owner /\ answer'[r].code = "replayed" /\ pc'[r] = "done"
    BY <1>0, <2>2, <2>4 DEF Respond, Answer, TypeOK
  <2> HIDE DEF row
  <2> QED BY <2>3, <2>4, <2>5, <2>6, <2>8, <2>9 DEF ResultOf
<1>4. CASE Complete(r) /\ answer'[r].code = "created"
  <2>1. UNCHANGED <<key, payload, since, effect>> /\ pc[r] = "complete" /\ effect[r] # "none"
    BY <1>4 DEF Complete, IInv, Stage
  <2>2. pc'[r] = "done" /\ answer'[r].body = r
    <3>1. Respond(r, "created", r) \/ Respond(r, "error", None)
      BY <1>4 DEF Complete
    <3> QED BY <1>0, <1>4, <3>1 DEF Respond, Answer, TypeOK
  <2> QED BY <2>1, <2>2 DEF ResultOf
<1>5. \/ answer'[r] = answer[r] /\ (answer[r].code \in {"created", "replayed"} => pc'[r] = pc[r])
      \/ Lookup(r) /\ answer'[r].code = "replayed"
      \/ Complete(r) /\ answer'[r].code = "created"
  <2>0. answer[r].code \in {"created", "replayed"} => pc[r] = "done"
    BY DEF Answers
  <2>1. ASSUME NEW q \in Requests, q # r, Arrive(q) \/ Handle(q)
        PROVE  answer'[r] = answer[r] /\ pc'[r] = pc[r]
    BY <1>0, <2>1 DEF Arrive, Handle, Lookup, Reserve, Work, Fail, Complete, Goto, Respond, TypeOK
  <2>2. \A code, body : Respond(r, code, body) => answer'[r].code = code
    BY <1>0 DEF Respond, Answer, TypeOK
  <2>3. CASE Arrive(r)
    BY <2>0, <2>2, <2>3 DEF Arrive, Goto
  <2>4. CASE Lookup(r)
    BY <2>0, <2>2, <2>4 DEF Lookup, Goto
  <2>5. CASE Reserve(r) \/ Work(r)
    BY <2>0, <2>2, <2>5 DEF Reserve, Work, Goto
  <2>6. CASE Fail(r)
    BY <2>2, <2>6 DEF Fail, FailureCodes
  <2>7. CASE Complete(r)
    BY <2>2, <2>7 DEF Complete
  <2>8. CASE Crash
    BY <1>0, <2>0, <2>8 DEF Crash, InFlight, Answer
  <2>9. ASSUME NEW k \in Keys, Expire(k) PROVE UNCHANGED <<answer, pc>>
    BY <2>9 DEF Expire
  <2> QED BY <2>1, <2>3, <2>4, <2>5, <2>6, <2>7, <2>8, <2>9 DEF Next, Handle, vars
<1> QED BY <1>2, <1>3, <1>4, <1>5

\* What is answered comes from the reservations, in every reachable state.
LEMMA AnswersHold == Spec => [](IInv /\ Answers)
<1>1. Init => Deposits /\ Answers
  BY NoneAssumption DEF Init, Deposits, Answers, NoRow, Answer
<1>2. IInv /\ Deposits /\ Answers /\ [Next]_vars => Deposits' /\ Answers'
  BY DepositsStep, AnswersStep
<1> QED BY Invariant, <1>1, <1>2, PTL DEF Spec

\* Every client that is answered with success for one key, directly or by a replay, and
\* with no expiration in between, is given the same result, for any number of requests.
THEOREM SameAnswer == Spec => []OneCanonicalAnswer
<1>1. IInv /\ Answers => OneCanonicalAnswer
  <2> SUFFICES ASSUME IInv, Answers, NEW r \in Requests, NEW q \in Requests,
                      SameKey(r, q), since[r] = since[q],
                      answer[r].code \in {"created", "replayed"},
                      answer[q].code \in {"created", "replayed"}
               PROVE  answer[r].body = answer[q].body
    BY DEF OneCanonicalAnswer
  <2>1. ResultOf(answer[r].body, r) /\ ResultOf(answer[q].body, q)
    BY DEF Answers
  <2>2. key[r] \in Keys /\ key[q] = key[r]
    BY DEF SameKey
  <2> QED BY <2>1, <2>2 DEF IInv, Distinct, SameKey, Acquired, ResultOf
<1> QED BY AnswersHold, <1>1, PTL

\* begin() replays only what a request with the same key and payload has committed.
THEOREM ReplaysAreTrue == Spec => []ReplayIsOfTheSameRequest
<1>1. Answers => ReplayIsOfTheSameRequest
  BY DEF Answers, ResultOf, ReplayIsOfTheSameRequest
<1> QED BY AnswersHold, <1>1, PTL

-----------------------------------------------------------------------------
(***************************************************************************)
(* With requests that end before their reservation expires, a request at   *)
(* work owns the live row of its key (Holds), from which follow mutual     *)
(* exclusion and the refinement of OnceOnly.                               *)
(***************************************************************************)
Holds == \A r \in Requests : key[r] \in Keys /\ AtWork(r) =>
           table[key[r]].owner = r /\ ~table[key[r]].expired

\* No row of a request at work expires or is replaced.
LEMMA HoldsStep == ASSUME PromptRequests, IInv, Holds, [Next]_vars PROVE Holds'
<1>1. ASSUME NEW r \in Requests, Arrive(r) PROVE Holds'
  BY <1>1, KeyAssumption DEF Arrive, Goto, Respond, IInv, TypeOK, Holds, AtWork
<1>2. ASSUME NEW r \in Requests, Lookup(r) PROVE Holds'
  BY <1>2 DEF Lookup, Goto, Respond, IInv, TypeOK, Holds, AtWork
<1>3. ASSUME NEW r \in Requests, Reserve(r) PROVE Holds'
  <2>1. pc[r] = "reserve" /\ key[r] \in Keys /\ key' = key
    BY <1>3 DEF Reserve, IInv, Stage
  <2>2. CASE TakenByAnother(r)
    BY <1>3, <2>2 DEF Reserve, Respond, IInv, TypeOK, Holds, AtWork
  <2>3. CASE ~TakenByAnother(r)
    <3>1. /\ table'[key[r]] = Pending(r)
          /\ \A q \in Requests \ {r} : pc'[q] = pc[q]
      BY <1>3, <2>1, <2>3 DEF Reserve, Goto, IInv, TypeOK
    <3>2. \A k \in Keys \ {key[r]} : table'[k] = table[k]
      BY <1>3, <2>3 DEF Reserve, IInv, TypeOK
    <3>3. table[key[r]] = NoRow \/ table[key[r]].expired
      BY <2>1, <2>3, NoneAssumption DEF TakenByAnother, IInv, TypeOK, Reads, Owners, NoRow
    <3>4. \A q \in Requests \ {r} : AtWork(q) => key[q] # key[r]
      BY <2>1, <3>3, NoneAssumption DEF Holds, NoRow
    <3> QED BY <2>1, <3>1, <3>2, <3>4 DEF Pending, Holds, AtWork
  <2> QED BY <2>2, <2>3
<1>4. ASSUME NEW r \in Requests, Work(r) \/ Fail(r) \/ Complete(r) PROVE Holds'
  <2>1. /\ \A q \in Requests : AtWork(q)' => AtWork(q)
        /\ key' = key
    BY <1>4 DEF Work, Fail, Complete, Goto, Respond, AtWork, IInv, TypeOK
  <2>2. \A k \in Keys : table'[k].owner = table[k].owner /\ table'[k].expired = table[k].expired
    BY <1>4 DEF Work, Fail, Complete, Completed, IInv, TypeOK
  <2> QED BY <2>1, <2>2 DEF Holds
<1>5. ASSUME NEW k \in Keys, Expire(k) PROVE Holds'
  <2>1. /\ ~InFlight(table[k].owner) /\ pc' = pc /\ key' = key
        /\ \A j \in Keys \ {k} : table'[j] = table[j]
    BY <1>5 DEF Expire, IInv, TypeOK
  <2>2. \A q \in Requests : AtWork(q) => key[q] # k
    BY <2>1 DEF Holds, InFlight, AtWork
  <2> QED BY <2>1, <2>2 DEF Holds, AtWork
<1>6. CASE Crash
  <2>1. \A q \in Requests : AtWork(q)' => AtWork(q)
    BY <1>6 DEF Crash, AtWork
  <2> QED BY <1>6, <2>1 DEF Crash, Holds
<1>7. CASE UNCHANGED vars
  BY <1>7 DEF vars, Holds, AtWork
<1> QED BY <1>1, <1>2, <1>3, <1>4, <1>5, <1>6, <1>7 DEF Next, Handle

\* So requests at work hold their keys in every reachable state.
LEMMA HoldsInvariant == ASSUME PromptRequests PROVE Spec => [](IInv /\ Holds)
<1>1. Init => Holds
  BY KeyAssumption DEF Init, Holds, AtWork
<1>2. IInv /\ Holds /\ [Next]_vars => Holds'
  BY HoldsStep
<1> QED BY Invariant, <1>1, <1>2, PTL DEF Spec

\* Two requests never run the operation of one key at the same time.
THEOREM MutualExclusion == ASSUME PromptRequests PROVE Spec => []OneRequestAtWork
<1>1. Holds => OneRequestAtWork
  BY DEF Holds, OneRequestAtWork, SameKey
<1> QED BY HoldsInvariant, <1>1, PTL

\* The values the abstract variables take (the substitution of Once).
absHolder == [k \in Keys |-> IF Live(k) THEN table[k].owner ELSE None]
absPerformed == [k \in Keys |-> {r \in Requests : key[r] = k /\ effect[r] # "none"}]
absPublished == [k \in Keys |-> IF Live(k) THEN table[k].body ELSE None]

\* The initial states are initial states of OnceOnly.
LEMMA RefinementInit == Init => Once!AInit
BY KeyAssumption DEF Init, Once!AInit, Live, NoRow

\* Every step is a step of OnceOnly or a stutter.
LEMMA RefinementStep ==
  ASSUME IInv, Holds, [Next]_vars PROVE [Once!ANext]_(Once!avars)
<1> USE DEF Once!avars
<1>1. ASSUME NEW r \in Requests, Arrive(r) PROVE UNCHANGED Once!avars
  <2>1. effect[r] = "none" /\ \A q \in Requests \ {r} : key'[q] = key[q]
    BY <1>1 DEF Arrive, IInv, TypeOK, Stage
  <2>2. UNCHANGED <<table, effect>>
    BY <1>1 DEF Arrive
  <2> QED BY <2>1, <2>2 DEF Live
<1>2. ASSUME NEW r \in Requests, Lookup(r) \/ Fail(r) PROVE UNCHANGED Once!avars
  BY <1>2 DEF Lookup, Fail, Live
<1>3. ASSUME NEW r \in Requests, Reserve(r) PROVE [Once!ANext]_(Once!avars)
  <2>1. pc[r] = "reserve" /\ key[r] \in Keys /\ key' = key /\ effect' = effect
        /\ effect[r] = "none"
    BY <1>3 DEF Reserve, IInv, Stage
  <2>2. CASE table' = table
    BY <2>1, <2>2 DEF Live
  <2>3. CASE table' # table
    <3>1. ~TakenByAnother(r) /\ table' = [table EXCEPT ![key[r]] = Pending(r)]
      BY <1>3, <2>3 DEF Reserve
    <3>2. ~Live(key[r])
      BY <2>1, <3>1, NoneAssumption
         DEF Live, TakenByAnother, IInv, TypeOK, Reads, Owners, NoRow
    <3>3. /\ Live(key[r])' /\ table'[key[r]].owner = r /\ table'[key[r]].body = None
          /\ \A k \in Keys \ {key[r]} : table'[k] = table[k]
      BY <2>1, <3>1, NoneAssumption DEF Live, Pending, NoRow, IInv, TypeOK
    <3>4. absHolder' = [absHolder EXCEPT ![key[r]] = r]
      BY <2>1, <3>3 DEF absHolder, Live
    <3>5. absPublished' = absPublished /\ absPerformed' = absPerformed
      BY <2>1, <3>2, <3>3 DEF absPublished, absPerformed, Live
    <3>6. absHolder[key[r]] = None /\ r \notin absPerformed[key[r]]
      BY <2>1, <3>2 DEF absHolder, absPerformed
    <3>7. Once!Acquire(key[r], r)
      BY <3>4, <3>5, <3>6 DEF Once!Acquire, absHolder, absPublished, absPerformed
    <3> QED BY <2>1, <3>7 DEF Once!ANext
  <2> QED BY <2>2, <2>3
<1>4. ASSUME NEW r \in Requests, Work(r) PROVE [Once!ANext]_(Once!avars)
  <2>1. /\ pc[r] = "work" /\ UNCHANGED <<table, key>>
        /\ effect[r] = "none" /\ effect'[r] # "none"
        /\ \A q \in Requests \ {r} : effect'[q] = effect[q]
    BY <1>4 DEF Work, Effects, IInv, TypeOK, Stage
  <2>2. absHolder' = absHolder /\ absPublished' = absPublished
    BY <2>1 DEF absHolder, absPublished, Live
  <2>3. CASE key[r] \in Keys
    <3> PICK k \in Keys : k = key[r]
      BY <2>3
    <3>1. Live(k) /\ table[k].owner = r
      BY <2>1, NoneAssumption DEF Holds, AtWork, Live, NoRow
    <3>2. absPerformed' = [absPerformed EXCEPT ![k] = @ \cup {r}]
      BY <2>1 DEF absPerformed
    <3>3. Once!Perform(k, r)
      BY <2>1, <2>2, <3>1, <3>2
         DEF Once!Perform, absHolder, absPublished, absPerformed
    <3> QED BY <3>3 DEF Once!ANext
  <2>4. CASE key[r] \notin Keys
    <3>1. absPerformed' = absPerformed
      BY <2>1, <2>4 DEF absPerformed
    <3> QED BY <2>2, <3>1 DEF absHolder, absPublished, absPerformed
  <2> QED BY <2>3, <2>4
<1>5. ASSUME NEW r \in Requests, Complete(r) PROVE [Once!ANext]_(Once!avars)
  <2>1. pc[r] = "complete" /\ UNCHANGED <<key, effect>> /\ effect[r] # "none"
    BY <1>5 DEF Complete, IInv, Stage
  <2>2. CASE table' = table
    BY <2>1, <2>2 DEF Live
  <2>3. CASE table' # table
    <3>1. key[r] \in Keys /\ table' = [table EXCEPT ![key[r]] = Completed(@, r)]
      BY <1>5, <2>3 DEF Complete
    <3>2. table[key[r]].owner = r /\ ~table[key[r]].expired /\ Live(key[r])
      BY <2>1, <3>1, NoneAssumption DEF Holds, AtWork, Live, NoRow
    <3>3. /\ Live(key[r])' /\ table'[key[r]].owner = r /\ table'[key[r]].body = r
          /\ \A k \in Keys \ {key[r]} : table'[k] = table[k]
      BY <2>1, <3>1, <3>2, NoneAssumption DEF Live, Completed, NoRow, IInv, TypeOK
    <3>4. absPublished' = [absPublished EXCEPT ![key[r]] = r]
      <4>1. \A k \in Keys \ {key[r]} : Live(k)' = Live(k)
        BY <2>1, <3>3 DEF Live
      <4>2. absPublished' = [k \in Keys |-> IF Live(k)' THEN table'[k].body ELSE None]
        BY DEF absPublished
      <4>3. \A k \in Keys : absPublished'[k] = IF k = key[r] THEN r ELSE absPublished[k]
        BY <2>1, <3>1, <3>3, <4>1, <4>2 DEF absPublished
      <4> QED BY <4>2, <4>3 DEF absPublished
    <3>5. absHolder' = absHolder /\ absPerformed' = absPerformed
      BY <2>1, <3>1, <3>2, <3>3 DEF absHolder, absPerformed, Live
    <3>6. absHolder[key[r]] = r /\ r \in absPerformed[key[r]]
      BY <2>1, <3>1, <3>2 DEF absHolder, absPerformed
    <3>7. Once!Publish(key[r], r)
      BY <3>4, <3>5, <3>6 DEF Once!Publish, absHolder, absPublished, absPerformed
    <3> QED BY <3>1, <3>7 DEF Once!ANext
  <2> QED BY <2>2, <2>3
<1>6. ASSUME NEW k \in Keys, Expire(k) PROVE [Once!ANext]_(Once!avars)
  <2>1. /\ Live(k) /\ UNCHANGED <<key, effect>>
        /\ table'[k].expired
        /\ \A j \in Keys \ {k} : table'[j] = table[j]
    BY <1>6 DEF Expire, Expired, Live, IInv, TypeOK
  <2>2. ~Live(k)' /\ table[k].owner # None
    BY <2>1, NoneAssumption DEF Live, IInv, Owners
  <2>3. /\ absHolder' = [absHolder EXCEPT ![k] = None]
        /\ absPublished' = [absPublished EXCEPT ![k] = None]
    <3>1. \A j \in Keys \ {k} : Live(j)' = Live(j)
      BY <2>1 DEF Live
    <3> QED BY <2>1, <2>2, <3>1 DEF absHolder, absPublished
  <2>4. absPerformed' = absPerformed /\ absHolder[k] # None
    BY <2>1, <2>2 DEF absPerformed, absHolder
  <2>5. Once!Lapse(k)
    BY <2>3, <2>4 DEF Once!Lapse, absHolder, absPublished, absPerformed
  <2> QED BY <2>5 DEF Once!ANext
<1>7. CASE Crash
  BY <1>7 DEF Crash, Live
<1>8. CASE UNCHANGED vars
  BY <1>8 DEF vars, Live
<1> QED BY <1>1, <1>2, <1>3, <1>4, <1>5, <1>6, <1>7, <1>8 DEF Next, Handle

\* The reservation protocol implements OnceOnly.
THEOREM Refinement == ASSUME PromptRequests PROVE Spec => ImplementsOnceOnly
<1>1. Init => Once!AInit
  BY RefinementInit
<1>2. IInv /\ Holds /\ [Next]_vars => [Once!ANext]_(Once!avars)
  BY RefinementStep
<1> QED BY HoldsInvariant, <1>1, <1>2, PTL DEF Spec, ImplementsOnceOnly, Once!ASpec
===============================================================================
