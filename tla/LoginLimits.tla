---------------------------- MODULE LoginLimits ----------------------------
(***************************************************************************)
(* Attempts to log in behind the two in-memory limiters of a process       *)
(* (backend/security/abuse_limiter.py and login_limiter.py, as             *)
(* require_login_abuse_control and login use them).  The other costly      *)
(* routes use the abuse limiter alone, the way Acquire and Release do.     *)
(*                                                                         *)
(* One limiter key is enough: keys share nothing.  Both limiters read the  *)
(* clock before they take their lock, so a reading is any time between the *)
(* previous step of the thread and the moment it gets the lock.            *)
(* No name here is one of Access: Access_proofs reasons about both.        *)
(***************************************************************************)
EXTENDS Naturals, SequencesExt

CONSTANTS
  Threads,                      \* threads that serve attempts for the key
  MaxAttempts, AttemptWindow,   \* auth_login_max_attempts, auth_login_window_seconds
  MaxRequests, RequestWindow,   \* login_rate_limit, abuse_rate_window_seconds
  MaxConcurrent,                \* login_concurrency_limit
  MaxClock                      \* bound: the clock

ASSUME SettingAssumption ==
  /\ {MaxAttempts, AttemptWindow, MaxRequests, RequestWindow, MaxConcurrent} \subseteq Nat \ {0}
  /\ MaxClock \in Nat
ASSUME ThreadAssumption == IsFiniteSet(Threads)

VARIABLES
  clock,      \* time.monotonic()
  starts,     \* AbuseLimiter._requests: times of the attempts it has admitted
  busy,       \* AbuseLimiter._active: leases not released
  failures,   \* LoginAttemptLimiter._attempts: times of failures
  place,      \* thread -> where its attempt is
  since,      \* thread -> the time of its last step
  admitted,   \* history: attempts admitted in the window that ends now
  recent      \* history: failures in the window that ends now, since a success

memory == <<starts, busy, failures>>
history == <<admitted, recent>>
loginVars == <<clock, memory, place, since, history>>

LoginInit == /\ clock = 0
             /\ starts = <<>> /\ busy = 0 /\ failures = <<>>
             /\ place = [t \in Threads |-> "idle"]
             /\ since = [t \in Threads |-> 0]
             /\ admitted = {} /\ recent = {}

MoveTo(t, where) == /\ place' = [place EXCEPT ![t] = where]
                    /\ since' = [since EXCEPT ![t] = IF where = "idle" THEN 0 ELSE clock]

Readings(t) == since[t] .. clock

Expired(entry, n, window) == entry + window <= n

\* The histories are sets of times, numbered so that equal ones count apart.
Entered(S, n) ==
  LET id == CHOOSE i \in 1 .. Cardinality(S) + 1 : [time |-> n, id |-> i] \notin S IN
    S \cup {[time |-> n, id |-> id]}
InWindow(S, n, window) == {e \in S : ~Expired(e.time, n, window)}

ClockTicks == /\ clock < MaxClock
              /\ clock' = clock + 1
              /\ admitted' = InWindow(admitted, clock', RequestWindow)
              /\ recent' = InWindow(recent, clock', AttemptWindow)
              /\ UNCHANGED <<memory, place, since>>

\* Mutant: entries go as soon as they are as old as the window is long, less one.
PrunedEarly(q, n, window) == SelectSeq(q, LAMBDA e : ~Expired(e, n + 1, window))
\* Entries are removed from the left end up to the first that is in the window.
Pruned(q, n, window) ==
  LET first == SelectInSeq(q, LAMBDA e : ~Expired(e, n, window)) IN
    IF first = 0 THEN <<>> ELSE SubSeq(q, first, Len(q))

Arrive(t) == /\ place[t] = "idle"
             /\ MoveTo(t, "acquire")
             /\ UNCHANGED <<clock, memory, history>>

\* Mutant: one slot more than configured.
OneMoreSlot == busy <= MaxConcurrent
SlotFree == busy < MaxConcurrent

\* acquire(): a lease, or 429.
Acquire(t) ==
  /\ place[t] = "acquire"
  /\ \E n \in Readings(t) :
       LET q == Pruned(starts, n, RequestWindow) IN
         \/ /\ Len(q) < MaxRequests /\ SlotFree
            /\ starts' = Append(q, n)
            /\ busy' = busy + 1
            /\ admitted' = InWindow(Entered(admitted, n), clock, RequestWindow)
            /\ MoveTo(t, "allowed")
         \/ /\ ~(Len(q) < MaxRequests /\ SlotFree)
            /\ starts' = q
            /\ MoveTo(t, "idle")
            /\ UNCHANGED <<busy, admitted>>
  /\ UNCHANGED <<clock, failures, recent>>

\* Mutant: the failures are let through up to and including the limit.
OneMoreAttempt(q) == Len(q) <= MaxAttempts
AttemptFits(q) == Len(q) < MaxAttempts

\* is_allowed(): go on to the password, or 429.
Allowed(t) ==
  /\ place[t] = "allowed"
  /\ \E n \in Readings(t) :
       LET q == Pruned(failures, n, AttemptWindow) IN
         /\ failures' = q
         /\ MoveTo(t, IF AttemptFits(q) THEN "verify" ELSE "release")
  /\ UNCHANGED <<clock, starts, busy, history>>

\* authenticate_user, which takes long: right or wrong.
Authenticate(t) == /\ place[t] = "verify"
                   /\ MoveTo(t, "cleared") \/ MoveTo(t, "failed")
                   /\ UNCHANGED <<clock, memory, history>>

RecordFailure(t) ==
  /\ place[t] = "failed"
  /\ \E n \in Readings(t) :
       /\ failures' = Append(Pruned(failures, n, AttemptWindow), n)
       /\ recent' = InWindow(Entered(recent, n), clock, AttemptWindow)
  /\ MoveTo(t, "release")
  /\ UNCHANGED <<clock, starts, busy, admitted>>

Clear(t) == /\ place[t] = "cleared"
            /\ failures' = <<>> /\ recent' = {}
            /\ MoveTo(t, "release")
            /\ UNCHANGED <<clock, starts, busy, admitted>>

\* Mutant: the slot is given back and then dropped with the key.
SlotsDropped == 0
SlotsLeft == IF busy <= 1 THEN 0 ELSE busy - 1

\* The response has been made: the dependency releases its lease.
Release(t) == /\ place[t] = "release"
              /\ busy' = SlotsLeft
              /\ MoveTo(t, "idle")
              /\ UNCHANGED <<clock, starts, failures, history>>

Handle(t) == \/ Acquire(t) \/ Allowed(t) \/ Authenticate(t) \/ RecordFailure(t) \/ Clear(t)
             \/ Release(t)

LoginNext == \/ \E t \in Threads : Arrive(t) \/ Handle(t)
             \/ ClockTicks

LoginSpec == LoginInit /\ [][LoginNext]_loginVars
-----------------------------------------------------------------------------
Holds(t) == place[t] \in {"allowed", "verify", "failed", "cleared", "release"}

\* The slots counted are those of the attempts between acquire() and release():
\* no refused, failed or overlapping attempt leaks one or gives one back twice.
Holders == {t \in Threads : Holds(t)}
LeasesAreCounted == busy = Cardinality(Holders)

\* In the window that ends now no more attempts were admitted than the limit,
\* although clocks read before the lock put the deque out of order.
RateIsBounded == Cardinality(admitted) <= MaxRequests

\* The two limiters together bound the wrong passwords of a window: attempts that
\* pass is_allowed() before earlier ones have failed are no more than the slots.
FailuresAreBounded == Cardinality(recent) <= MaxAttempts + MaxConcurrent - 1
=============================================================================
