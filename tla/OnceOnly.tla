------------------------------- MODULE OnceOnly -------------------------------
(***************************************************************************)
(* What an idempotency key promises, with no table, no statuses and no     *)
(* responses: at any moment a key has at most one holder, only the holder  *)
(* performs the protected operation, it performs it once, and only what    *)
(* was performed is published.  A holding ends by lapsing, never otherwise.*)
(* IdempotencyKeys (backend/reliability/idempotency.py and its two callers)*)
(* implements this specification.                                          *)
(***************************************************************************)

CONSTANTS Keys, Requests, None

VARIABLES holder,     \* key -> the request that holds it, or None
          performed,  \* key -> the requests that performed its operation
          published   \* key -> the request whose result is handed out, or None

avars == <<holder, performed, published>>

AInit == /\ holder = [k \in Keys |-> None]
         /\ performed = [k \in Keys |-> {}]
         /\ published = [k \in Keys |-> None]

Acquire(k, r) == /\ holder[k] = None
                 /\ r \notin performed[k]
                 /\ holder' = [holder EXCEPT ![k] = r]
                 /\ UNCHANGED <<performed, published>>

Perform(k, r) == /\ holder[k] = r
                 /\ r \notin performed[k]
                 /\ performed' = [performed EXCEPT ![k] = @ \cup {r}]
                 /\ UNCHANGED <<holder, published>>

Publish(k, r) == /\ holder[k] = r
                 /\ r \in performed[k]
                 /\ published' = [published EXCEPT ![k] = r]
                 /\ UNCHANGED <<holder, performed>>

Lapse(k) == /\ holder[k] # None
            /\ holder' = [holder EXCEPT ![k] = None]
            /\ published' = [published EXCEPT ![k] = None]
            /\ UNCHANGED performed

ANext == \E k \in Keys : \/ \E r \in Requests : \/ Acquire(k, r)
                                                \/ Perform(k, r)
                                                \/ Publish(k, r)
                         \/ Lapse(k)

ASpec == AInit /\ [][ANext]_avars
===============================================================================
