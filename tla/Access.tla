------------------------------- MODULE Access -------------------------------
(***************************************************************************)
(* Logins, bearer sessions and the administration of users                 *)
(* (backend/security/auth.py, backend/services/user_admin_service.py and   *)
(* the dependencies and endpoints that call them).  The limiters in front  *)
(* of a login are LoginLimits.                                             *)
(*                                                                         *)
(* A login that succeeds stands for the session it issues.  The clock      *)
(* counts ticks, and is read before the statement that uses the reading.   *)
(* The database is read committed, and an object that was loaded is read   *)
(* again only after the next commit of its own session.                    *)
(***************************************************************************)
EXTENDS Naturals, FiniteSets

CONSTANTS
  Users,
  Logins,       \* logins that succeed, each the name of its session
  Calls,        \* threads that serve requests with a bearer token
  Changes,      \* what a PATCH may ask for: role and is_active, or None
  Idle, Absolute,               \* auth_session_idle_minutes, auth_session_absolute_hours
  MaxTime,      \* bound: the clock
  None

ASSUME LimitAssumption == {Idle, Absolute} \subseteq Nat \ {0} /\ MaxTime \in Nat
ASSUME ActorAssumption == /\ Logins \cap Calls = {} /\ None \notin Users \cup Logins \cup Calls
                          /\ IsFiniteSet(Users)
ASSUME ChangeAssumption ==
  Changes \subseteq [role : {"admin", "analyst", None}, active : BOOLEAN \cup {None}]

VARIABLES
  now,        \* the clock
  user,       \* users: user -> its row, or NoUser
  session,    \* auth_sessions: login -> the row it issued, or NoSession
  pc,         \* login or call -> where its handler is
  at,         \* login or call -> the clock reading it uses, or the time of its last step
  who,        \* login -> the user it names
  ask,        \* call -> its token, operation, target user and change
  row,        \* call -> the session row it read
  me,         \* call -> the row of its own user, read when the permission was checked
  target,     \* call -> the row of the target user it read
  hit,        \* call -> the sessions its update statement has revoked, not committed
  latest,     \* history: login -> the latest time its session was used
  raced       \* history: two updates of users have overlapped

callVars == <<ask, row, me, target, hit>>
vars == <<now, user, session, pc, at, who, callVars, latest, raced>>

NoUser == [role |-> "none", active |-> FALSE]
NoSession == [user |-> None, created |-> 0, seen |-> 0, revoked |-> FALSE]
NewSession(u, t) == [user |-> u, created |-> t, seen |-> t, revoked |-> FALSE]
NoAsk == [token |-> None, op |-> "none", user |-> None, change |-> [role |-> None, active |-> None]]

IsAdmin(u) == u.role = "admin" /\ u.active
Admins == {u \in Users : IsAdmin(user[u])}

\* Some attempts have succeeded before; every user is active, one an Admin.
Init == /\ now = 0
        /\ user \in [Users -> {NoUser} \cup [role : {"admin", "analyst"}, active : {TRUE}]]
        /\ Admins # {}
        /\ session \in [Logins -> {NoSession} \cup {NewSession(u, 0) : u \in Users}]
        /\ \A l \in Logins : session[l] # NoSession => user[session[l].user].active
        /\ pc = [a \in Logins \cup Calls |->
                   IF a \in Logins /\ session[a] # NoSession THEN "done" ELSE "idle"]
        /\ at = [a \in Logins \cup Calls |-> 0]
        /\ who = [l \in Logins |-> None]
        /\ ask = [c \in Calls |-> NoAsk]
        /\ row = [c \in Calls |-> NoSession]
        /\ me = [c \in Calls |-> NoUser]
        /\ target = [c \in Calls |-> NoUser]
        /\ hit = [c \in Calls |-> {}]
        /\ latest = [l \in Logins |-> 0]
        /\ raced = FALSE

Tick == /\ now < MaxTime
        /\ now' = now + 1
        /\ UNCHANGED <<user, session, pc, at, who, callVars, latest, raced>>

Goto(a, where) == pc' = [pc EXCEPT ![a] = where]
\* A call has been answered: nothing is left of it, and its thread is free.
End(c) == /\ pc' = [pc EXCEPT ![c] = "idle"] /\ at' = [at EXCEPT ![c] = 0]
          /\ ask' = [ask EXCEPT ![c] = NoAsk]
          /\ row' = [row EXCEPT ![c] = NoSession]
          /\ me' = [me EXCEPT ![c] = NoUser] /\ target' = [target EXCEPT ![c] = NoUser]
          /\ hit' = [hit EXCEPT ![c] = {}]
-----------------------------------------------------------------------------
\* authenticate_user reads the row, and hashes the password, which takes long.
Verify(l) ==
  /\ pc[l] = "idle"
  /\ \E u \in Users : user[u].active /\ who' = [who EXCEPT ![l] = u]
  /\ Goto(l, "issue")
  /\ at' = [at EXCEPT ![l] = now]
  /\ UNCHANGED <<now, user, session, callVars, latest, raced>>

\* Issue the session and commit.
Issue(l) ==
  /\ pc[l] = "issue"
  /\ \E t \in at[l] .. now : /\ session' = [session EXCEPT ![l] = NewSession(who[l], t)]
                             /\ latest' = [latest EXCEPT ![l] = t]
  /\ pc' = [pc EXCEPT ![l] = "done"] /\ at' = [at EXCEPT ![l] = 0]
  /\ who' = [who EXCEPT ![l] = None]
  /\ UNCHANGED <<now, user, callVars, raced>>
-----------------------------------------------------------------------------
Keeps(c) == UNCHANGED <<at, ask, row, me, target, hit>>

Operations == {"read", "logout", "update", "revoke", "create"}

\* authenticate_session selects the row of the token; the clock was read before.
Present(c) ==
  /\ pc[c] = "idle"
  /\ \E l \in Logins, op \in Operations, u \in Users, ch \in Changes :
       /\ session[l].user # None
       /\ op \in {"read", "logout"} => u = session[l].user
       /\ op # "update" => ch = CHOOSE x \in Changes : TRUE
       /\ \/ /\ session[l].revoked
             /\ End(c)
          \/ /\ ~session[l].revoked
             /\ ask' = [ask EXCEPT ![c] = [token |-> l, op |-> op, user |-> u, change |-> ch]]
             /\ row' = [row EXCEPT ![c] = session[l]]
             /\ Goto(c, "user")
             /\ at' = [at EXCEPT ![c] = now]
             /\ UNCHANGED <<me, target, hit>>
  /\ UNCHANGED <<now, user, session, latest, raced, who>>

\* Mutant: a session does not expire when it is idle.
ExpiredWhenOld(s, t) == t >= s.created + Absolute
ExpiredAt(s, t) == t >= s.created + Absolute \/ t >= s.seen + Idle

\* It reads the user of the session, and compares the clock with the row.
CheckUser(c) ==
  /\ pc[c] = "user"
  /\ LET s == row[c] IN
       \/ ~user[s.user].active /\ End(c)
       \/ /\ user[s.user].active
          /\ Goto(c, IF ExpiredAt(s, at[c]) THEN "expire" ELSE "touch")
          /\ Keeps(c)
  /\ UNCHANGED <<now, user, session, latest, raced, who>>

Revoked(s) == [user |-> s.user, created |-> s.created, seen |-> s.seen, revoked |-> TRUE]

\* The session has expired: revoke it, audit and commit, 401.
Expire(c) ==
  /\ pc[c] = "expire"
  /\ session' = [session EXCEPT ![ask[c].token] = Revoked(@)]
  /\ End(c)
  /\ UNCHANGED <<now, user, latest, raced, who>>

\* Mutant: the whole row that was read is written back.
TouchedAsRead(c, s) == [user |-> s.user, created |-> s.created, seen |-> at[c],
                        revoked |-> row[c].revoked]
\* last_seen_at is the one column that has changed.
Touched(c, s) == [user |-> s.user, created |-> s.created, seen |-> at[c], revoked |-> s.revoked]

\* The call is accepted: last_seen_at is committed.
Touch(c) ==
  /\ pc[c] = "touch"
  /\ session' = [session EXCEPT ![ask[c].token] = Touched(c, @)]
  /\ latest' = [latest EXCEPT ![ask[c].token] = IF at[c] > @ THEN at[c] ELSE @]
  /\ Goto(c, IF ask[c].op = "logout" THEN "logout" ELSE "permit")
  /\ at' = [at EXCEPT ![c] = 0]
  /\ row' = [row EXCEPT ![c] = NoSession]
  /\ UNCHANGED <<now, ask, me, target, hit, user, raced, who>>

\* revoke_session: the row is read again, and written unless it is revoked.
Logout(c) ==
  /\ pc[c] = "logout"
  /\ session' = [session EXCEPT ![ask[c].token] = Revoked(@)]
  /\ End(c)
  /\ UNCHANGED <<now, user, latest, raced, who>>

Caller(c) == session[ask[c].token].user
Updating(c) == ask[c].op = "update" /\ pc[c] \in {"target", "count", "sweep", "commit"}

\* require_user_permission on the user, who is read again: READ_SOC is any
\* active user's, MANAGE_USERS an Admin's.
Permit(c) ==
  /\ pc[c] = "permit"
  /\ LET u == user[Caller(c)]
         granted == u.active /\ (ask[c].op = "read" \/ IsAdmin(u)) IN
       /\ \/ /\ ~granted \/ ask[c].op = "read"
             /\ End(c)
          \/ /\ granted /\ ask[c].op # "read"
             /\ me' = [me EXCEPT ![c] = u]
             /\ Goto(c, "target")
             /\ UNCHANGED <<at, ask, row, target, hit>>
       /\ raced' = (raced \/ (granted /\ ask[c].op = "update" /\ \E d \in Calls : Updating(d)))
  /\ UNCHANGED <<now, user, session, latest, who>>

\* UserAdminService.create_user: the name is new, or a lookup or the unique
\* index refuses it.
CreateUser(c) ==
  /\ pc[c] = "target" /\ ask[c].op = "create"
  /\ LET u == ask[c].user IN
       \/ /\ user[u] = NoUser
          /\ \E role \in {"admin", "analyst"} :
               user' = [user EXCEPT ![u] = [role |-> role, active |-> TRUE]]
       \/ user[u] # NoUser /\ UNCHANGED user
  /\ End(c)
  /\ UNCHANGED <<now, session, latest, raced, who>>

\* The row as a change would leave it; fields left out are kept.
Changed(u, ch) == [role |-> IF ch.role = None THEN u.role ELSE ch.role,
                   active |-> IF ch.active = None THEN u.active ELSE ch.active]

\* The target user is read, unless it is the caller, whose row is loaded.
ReadTarget(c) ==
  /\ pc[c] = "target" /\ ask[c].op \in {"update", "revoke"}
  /\ LET u == IF ask[c].user = Caller(c) THEN me[c] ELSE user[ask[c].user]
         new == Changed(u, ask[c].change)
         stage == IF ask[c].op = "update" /\ IsAdmin(u) /\ ~IsAdmin(new) THEN "count" ELSE "sweep" IN
       \/ /\ u = NoUser \/ (ask[c].op = "update" /\ new = u)
          /\ End(c)
       \/ /\ u # NoUser /\ ~(ask[c].op = "update" /\ new = u)
          /\ target' = [target EXCEPT ![c] = u]
          /\ Goto(c, stage)
          /\ UNCHANGED <<at, ask, row, me, hit>>
  /\ UNCHANGED <<now, user, session, latest, raced, who>>

\* Mutant: the last Admin is counted as one too many.
FewerThanOneAdmin == Cardinality(Admins) < 1
FinalAdmin == Cardinality(Admins) <= 1

\* The active Admins are counted: 409 for the final one.
CountAdmins(c) ==
  /\ pc[c] = "count"
  /\ \/ FinalAdmin /\ End(c)
     \/ ~FinalAdmin /\ Goto(c, "sweep") /\ Keeps(c)
  /\ UNCHANGED <<now, user, session, latest, raced, who>>

LiveSessions(u) == {l \in Logins : session[l].user = u /\ ~session[l].revoked}

\* _revoke_sessions sends its UPDATE: it finds the sessions committed by now.
Sweep(c) ==
  /\ pc[c] = "sweep"
  /\ hit' = [hit EXCEPT ![c] = LiveSessions(ask[c].user)]
  /\ Goto(c, "commit")
  /\ UNCHANGED <<now, user, session, at, ask, row, me, target, latest, raced, who>>

\* The columns an update writes: those that differ from the row it has read.
Written(c) ==
  LET new == Changed(target[c], ask[c].change)
      u == user[ask[c].user] IN
    [role |-> IF new.role = target[c].role THEN u.role ELSE new.role,
     active |-> IF new.active = target[c].active THEN u.active ELSE new.active]

\* The user, the revoked sessions and the audit row are committed.
CommitUser(c) ==
  /\ pc[c] = "commit"
  /\ session' = [l \in Logins |-> IF l \in hit[c] THEN Revoked(session[l]) ELSE session[l]]
  /\ user' = IF ask[c].op = "update" THEN [user EXCEPT ![ask[c].user] = Written(c)] ELSE user
  /\ End(c)
  /\ UNCHANGED <<now, latest, raced, who>>

Call(c) == \/ Present(c) \/ CheckUser(c) \/ Expire(c) \/ Touch(c) \/ Logout(c) \/ Permit(c)
           \/ CreateUser(c) \/ ReadTarget(c) \/ CountAdmins(c) \/ Sweep(c) \/ CommitUser(c)

Next == \/ \E l \in Logins : Verify(l) \/ Issue(l)
        \/ \E c \in Calls : Call(c)
        \/ Tick

Spec == Init /\ [][Next]_vars
-----------------------------------------------------------------------------
\* A revoked session is never live again, whatever calls were using it when it
\* was revoked.
RevokedStaysRevoked ==
  [][\A l \in Logins : session[l].revoked => session'[l].revoked]_vars

\* A session that nobody has used for Idle ticks, or that is Absolute ticks old,
\* is never used again, even when overlapping calls write older readings of
\* the clock over newer ones.
ExpiredStaysExpired ==
  [][\A c \in Calls : pc[c] = "touch" /\ pc'[c] # "touch" =>
       LET l == ask[c].token IN
         /\ at[c] < session[l].created + Absolute
         /\ at[c] < latest[l] + Idle]_vars

\* There is an active Admin as long as no two updates of users overlap.
AdminUnlessRaced == raced \/ Admins # {}
=============================================================================
