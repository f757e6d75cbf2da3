----------------------------- MODULE Access_proofs -----------------------------
(***************************************************************************)
(* Proofs about Access and about the limiters of LoginLimits.              *)
(*                                                                         *)
(* For any number of users, sessions and calls, and clocks that are read   *)
(* early and used late: a revoked session stays revoked, an expired one    *)
(* is never used, and an Admin is left unless two updates overlap.         *)
(* SessionsInv relates what calls have read of a session to its row and to *)
(* its latest use, AdminInv what an update has read of users to their rows.*)
(*                                                                         *)
(* For every finite set of threads, every limit and every window: the      *)
(* count of slots is exact and never exceeds the limit, and the attempts   *)
(* and the failures of a window are bounded.                               *)
(***************************************************************************)
EXTENDS Access, LoginLimits, FiniteSetTheorems, SequenceTheorems, NaturalsInduction,
        WellFoundedInduction, TLAPS

Shapes ==
  /\ now \in Nat
  /\ at \in [Logins \cup Calls -> Nat] /\ latest \in [Logins -> Nat]
  /\ user = [u \in Users |-> user[u]]
  /\ session = [l \in Logins |-> session[l]] /\ who = [l \in Logins |-> who[l]]
  /\ pc = [a \in Logins \cup Calls |-> pc[a]]
  /\ ask = [c \in Calls |-> ask[c]] /\ row = [c \in Calls |-> row[c]]
  /\ me = [c \in Calls |-> me[c]] /\ target = [c \in Calls |-> target[c]]
  /\ hit = [c \in Calls |-> hit[c]]

\* A row is issued once, by its login, and was seen no later than it was used.
SessionInv(l) ==
  /\ session[l].user \in Users \cup {None}
  /\ session[l].created \in Nat /\ session[l].seen \in Nat /\ session[l].seen <= latest[l]
  /\ pc[l] \in {"idle", "issue"} => session[l] = NoSession
  /\ pc[l] = "issue" => who[l] \in Users

\* What a call has read of its session is no later than the latest use of it.
CallInv(c) ==
  /\ \A l \in hit[c] : session[l].user \in Users /\ l \in Logins
  /\ pc[c] # "idle" =>
    LET l == ask[c].token IN
      /\ l \in Logins /\ session[l].user \in Users /\ ask[c].user \in Users
      /\ pc[c] \in {"user", "touch"} => /\ row[c].created = session[l].created
                                        /\ row[c].seen \in Nat /\ row[c].seen <= latest[l]
      /\ pc[c] = "touch" => ~ExpiredAt(row[c], at[c])

SessionsInv == Shapes /\ (\A l \in Logins : SessionInv(l)) /\ (\A c \in Calls : CallInv(c))

\* Another Admin is left when c takes that role from its target.
Spared(c) ==
  IsAdmin(target[c]) /\ ~IsAdmin(Changed(target[c], ask[c].change)) =>
    \E a \in Users : a # ask[c].user /\ IsAdmin(user[a])

\* What the one update under way has read is what the users table holds.
UpdateInv(c) ==
  Updating(c) =>
    /\ pc[c] = "target" => me[c] = user[Caller(c)] /\ me[c] # NoUser
    /\ pc[c] # "target" => target[c] = user[ask[c].user] /\ target[c] # NoUser
    /\ pc[c] \in {"sweep", "commit"} => Spared(c)

AdminInv ==
  ~raced =>
    /\ \E a \in Users : IsAdmin(user[a])
    /\ \A c, d \in Calls : Updating(c) /\ Updating(d) => c = d
    /\ \A c \in Calls : UpdateInv(c)
-----------------------------------------------------------------------------
\* At the start every session is unused and no update is under way.
LEMMA InitInv == Init => SessionsInv /\ AdminInv
<1> SUFFICES ASSUME Init PROVE SessionsInv /\ AdminInv
  OBVIOUS
<1>1. Shapes
  BY DEF Init, Shapes
<1>2. ASSUME NEW l \in Logins PROVE SessionInv(l)
  <2>1. session[l] \in {NoSession} \cup {NewSession(u, 0) : u \in Users} /\ latest[l] = 0
    BY DEF Init
  <2>2. pc[l] = IF session[l] # NoSession THEN "done" ELSE "idle"
    BY DEF Init
  <2>3. CASE session[l] = NoSession
    BY <2>1, <2>2, <2>3 DEF NoSession, SessionInv
  <2>4. ASSUME NEW u \in Users, session[l] = NewSession(u, 0) PROVE SessionInv(l)
    <3>1. session[l].user = u /\ session[l].created = 0 /\ session[l].seen = 0
      BY <2>4 DEF NewSession
    <3>2. session[l] # NoSession
      BY <3>1, ActorAssumption DEF NoSession
    <3> QED BY <2>1, <2>2, <3>1, <3>2 DEF SessionInv
  <2> QED BY <2>1, <2>3, <2>4
<1>3. ASSUME NEW c \in Calls PROVE CallInv(c) /\ ~Updating(c)
  <2>1. pc[c] = "idle" /\ hit[c] = {}
    BY ActorAssumption DEF Init
  <2> QED BY <2>1 DEF CallInv, Updating
<1>4. \E a \in Users : IsAdmin(user[a])
  BY DEF Init, Admins
<1> QED BY <1>1, <1>2, <1>3, <1>4 DEF SessionsInv, AdminInv, UpdateInv

\* A step of a call leaves the logins and the other calls where they are.
Alone(c) ==
  /\ \A d \in Calls : d # c => /\ pc'[d] = pc[d] /\ at'[d] = at[d] /\ ask'[d] = ask[d]
                               /\ row'[d] = row[d] /\ me'[d] = me[d] /\ target'[d] = target[d]
                               /\ hit'[d] = hit[d]
  /\ \A l \in Logins : pc'[l] = pc[l] /\ who'[l] = who[l]

\* No call writes what another call or a login has read.
LEMMA CallsAlone ==
  ASSUME Shapes, NEW c \in Calls, Call(c)
  PROVE  Alone(c)
<1> USE ActorAssumption DEF Shapes, Alone, End, Goto, Keeps
<1>1. CASE Present(c)
  BY <1>1 DEF Present
<1>2. CASE CheckUser(c) \/ Expire(c) \/ Touch(c) \/ Logout(c)
  BY <1>2 DEF CheckUser, Expire, Touch, Logout
<1>3. CASE Permit(c) \/ CreateUser(c) \/ ReadTarget(c)
  BY <1>3 DEF Permit, CreateUser, ReadTarget
<1>4. CASE CountAdmins(c) \/ Sweep(c) \/ CommitUser(c)
  BY <1>4 DEF CountAdmins, Sweep, CommitUser
<1> QED BY <1>1, <1>2, <1>3, <1>4 DEF Call

\* The functions of the state keep their domains.
LEMMA ShapesStep == ASSUME Shapes, [Next]_vars PROVE Shapes'
<1> USE DEF Shapes, End, Goto, Keeps
<1>1. CASE UNCHANGED vars
  BY <1>1 DEF vars, callVars
<1>2. CASE Tick
  BY <1>2 DEF Tick, callVars
<1>3. ASSUME NEW l \in Logins, Verify(l) PROVE Shapes'
  BY <1>3 DEF Verify, callVars
<1>4. ASSUME NEW l \in Logins, Issue(l) PROVE Shapes'
  <2>1. \A t \in at[l] .. now : t \in Nat
    OBVIOUS
  <2>2. latest' \in [Logins -> Nat]
    BY <1>4, <2>1 DEF Issue
  <2>3. session' = [k \in Logins |-> session'[k]] /\ pc' = [a \in Logins \cup Calls |-> pc'[a]]
        /\ who' = [k \in Logins |-> who'[k]]
    BY <1>4 DEF Issue
  <2>4. at' \in [Logins \cup Calls -> Nat]
    BY <1>4 DEF Issue
  <2> QED BY <1>4, <2>2, <2>3, <2>4 DEF Issue, callVars
<1>5. ASSUME NEW c \in Calls, Call(c) PROVE Shapes'
  <2>1. CASE Present(c)
    BY <2>1 DEF Present
  <2>2. CASE CheckUser(c)
    BY <2>2 DEF CheckUser
  <2>3. CASE Expire(c)
    BY <2>3 DEF Expire
  <2>4. CASE Touch(c)
    BY <2>4 DEF Touch
  <2>5. CASE Logout(c)
    BY <2>5 DEF Logout
  <2>6. CASE Permit(c)
    BY <2>6 DEF Permit
  <2>7. CASE CreateUser(c)
    BY <2>7 DEF CreateUser
  <2>8. CASE ReadTarget(c)
    BY <2>8 DEF ReadTarget
  <2>9. CASE CountAdmins(c) \/ Sweep(c)
    BY <2>9 DEF CountAdmins, Sweep
  <2>10. CASE CommitUser(c)
    BY <2>10 DEF CommitUser
  <2> QED BY <1>5, <2>1, <2>2, <2>3, <2>4, <2>5, <2>6, <2>7, <2>8, <2>9, <2>10 DEF Call
<1> QED BY <1>1, <1>2, <1>3, <1>4, <1>5 DEF Next
-----------------------------------------------------------------------------
\* What a call may do to a session: revoke it, or note its use.
SessionKept(l) ==
  /\ session'[l].user = session[l].user /\ session'[l].created = session[l].created
  /\ session[l].revoked => session'[l].revoked
  /\ session[l] = NoSession => session'[l] = NoSession
  /\ latest[l] <= latest'[l]
  /\ \/ session'[l].seen = session[l].seen
     \/ session'[l].seen \in Nat /\ session'[l].seen <= latest'[l]

\* Whatever a call does, it does no more than that to any session.
LEMMA CallsKeepSessions ==
  ASSUME SessionsInv, NEW c \in Calls, Call(c), NEW l \in Logins
  PROVE  SessionKept(l)
<1>0. latest[l] \in Nat /\ at[c] \in Nat
  BY DEF SessionsInv, Shapes
<1>1. latest[l] <= latest[l]
  BY <1>0
<1>2. CASE UNCHANGED <<session, latest>>
  BY <1>1, <1>2 DEF SessionKept
<1>n. \A k \in Logins : session[k].user \in Users => session[k] # NoSession
  BY ActorAssumption DEF NoSession
<1>3. ASSUME session'[l] = session[l] \/ (session[l].user \in Users /\ session'[l] = Revoked(session[l])),
             UNCHANGED latest
      PROVE  SessionKept(l)
  BY <1>1, <1>n, <1>3 DEF SessionKept, Revoked
<1>4. CASE Expire(c) \/ Logout(c)
  <2>1. session[ask[c].token].user \in Users
    BY <1>4 DEF Expire, Logout, SessionsInv, CallInv
  <2> QED BY <1>3, <1>4, <2>1 DEF Expire, Logout, SessionsInv, Shapes
<1>5. CASE CommitUser(c)
  BY <1>3, <1>5 DEF CommitUser, SessionsInv, CallInv
<1>6. CASE Touch(c)
  <2>1. CASE l = ask[c].token
    <3>0. session[l].user \in Users
      BY <1>6, <2>1 DEF Touch, SessionsInv, CallInv
    <3>1. session'[l] = Touched(c, session[l])
          /\ latest'[l] = (IF at[c] > latest[l] THEN at[c] ELSE latest[l])
      BY <1>6, <2>1 DEF Touch, SessionsInv, Shapes
    <3>2. /\ session'[l].user = session[l].user /\ session'[l].created = session[l].created
          /\ session'[l].revoked = session[l].revoked /\ session'[l].seen = at[c]
      BY <3>1 DEF Touched
    <3>3. latest[l] <= latest'[l] /\ at[c] <= latest'[l]
      BY <1>0, <3>1
    <3> QED BY <1>0, <1>n, <3>0, <3>2, <3>3 DEF SessionKept
  <2>2. CASE l # ask[c].token
    <3>1. session'[l] = session[l] /\ latest'[l] = latest[l]
      BY <1>6, <2>2 DEF Touch, SessionsInv, Shapes
    <3> QED BY <1>1, <3>1 DEF SessionKept
  <2> QED BY <2>1, <2>2
<1>7. CASE Present(c) \/ CheckUser(c) \/ Permit(c) \/ CreateUser(c) \/ ReadTarget(c)
           \/ CountAdmins(c) \/ Sweep(c)
  BY <1>2, <1>7 DEF Present, CheckUser, Permit, CreateUser, ReadTarget, CountAdmins, Sweep
<1> QED BY <1>4, <1>5, <1>6, <1>7 DEF Call

\* A login issues a session where none was.
LEMMA LoginsKeepSessions ==
  ASSUME SessionsInv, NEW k \in Logins, Verify(k) \/ Issue(k), NEW l \in Logins
  PROVE  \/ /\ session[l] = NoSession /\ session'[l].revoked = FALSE
            /\ l = k /\ pc[k] = "issue"
         \/ /\ session'[l] = session[l] /\ latest'[l] = latest[l]
<1>1. CASE Verify(k)
  BY <1>1 DEF Verify
<1>2. CASE Issue(k) /\ l # k
  BY <1>2 DEF Issue, SessionsInv, Shapes
<1>3. CASE Issue(k) /\ l = k
  BY <1>3 DEF Issue, SessionsInv, Shapes, SessionInv, NewSession
<1> QED BY <1>1, <1>2, <1>3

\* A call in flight keeps its session under the steps of others.
LEMMA CallStays ==
  ASSUME SessionsInv, Shapes', NEW c \in Calls,
         pc'[c] = pc[c] /\ ask'[c] = ask[c] /\ row'[c] = row[c] /\ at'[c] = at[c],
         hit'[c] = hit[c],
         \A l \in Logins : session[l].user \in Users => SessionKept(l)
  PROVE  CallInv(c)'
<1>0. (\A l \in hit[c] : session[l].user \in Users /\ l \in Logins)'
  BY DEF SessionsInv, CallInv, SessionKept
<1> SUFFICES ASSUME pc[c] # "idle" PROVE CallInv(c)'
  BY <1>0 DEF CallInv
<1> DEFINE l == ask[c].token
<1>1. /\ l \in Logins /\ session[l].user \in Users /\ ask[c].user \in Users
      /\ pc[c] \in {"user", "touch"} => /\ row[c].created = session[l].created
                                        /\ row[c].seen \in Nat /\ row[c].seen <= latest[l]
      /\ pc[c] = "touch" => ~ExpiredAt(row[c], at[c])
  BY DEF SessionsInv, CallInv
<1>2. /\ session'[l].user = session[l].user /\ session'[l].created = session[l].created
      /\ latest[l] <= latest'[l]
  BY <1>1 DEF SessionKept
<1>a. ask'[c].token = l
  OBVIOUS
<1> HIDE DEF l
<1>3. pc[c] \in {"user", "touch"} => row[c].seen <= latest'[l]
  <2>1. latest[l] \in Nat
    BY <1>1 DEF SessionsInv, Shapes
  <2>2. latest'[l] \in Nat
    BY <1>1 DEF Shapes
  <2> QED BY <1>1, <1>2, <2>1, <2>2
<1> QED BY <1>0, <1>1, <1>2, <1>3, <1>a DEF CallInv, ExpiredAt

\* A call keeps what it has read of its session apart from what others do to it.
LEMMA CallMoves ==
  ASSUME SessionsInv, Shapes', NEW c \in Calls, Call(c)
  PROVE  CallInv(c)'
<1> USE DEF Goto, Keeps, Shapes
<1>0. \A l \in Logins : SessionKept(l)
  BY CallsKeepSessions
<1>1. (\A l \in hit[c] : session[l].user \in Users /\ l \in Logins)
  BY DEF SessionsInv, CallInv
<1>2. \A l \in Logins : session[l].user \in Users => session'[l].user \in Users
  BY <1>0 DEF SessionKept
<1>3. ASSUME End(c) PROVE CallInv(c)'
  <2>1. pc'[c] = "idle" /\ hit'[c] = {}
    BY <1>3 DEF End, SessionsInv
  <2> QED BY <2>1 DEF CallInv
<1>4. CASE Present(c) /\ ~End(c)
  <2>1. PICK l \in Logins : /\ session[l].user # None
                            /\ ask'[c].token = l /\ row'[c] = session[l] /\ pc'[c] = "user"
                            /\ ask'[c].user \in Users
                            /\ UNCHANGED <<hit, session, latest>>
    BY <1>4 DEF Present, SessionsInv
  <2>2. session[l].user \in Users /\ session[l].seen \in Nat /\ session[l].seen <= latest[l]
    BY <2>1 DEF SessionsInv, SessionInv
  <2> QED BY <1>1, <2>1, <2>2 DEF CallInv
<1>5. ASSUME pc[c] # "idle", pc'[c] # "idle", pc'[c] # "user", pc'[c] # "touch",
             ask'[c] = ask[c], hit'[c] = hit[c]
      PROVE  CallInv(c)'
  <2>1. ask[c].token \in Logins /\ session[ask[c].token].user \in Users /\ ask[c].user \in Users
    BY <1>5 DEF SessionsInv, CallInv
  <2> QED BY <1>1, <1>2, <1>5, <2>1 DEF CallInv
<1>6. CASE CheckUser(c) /\ ~End(c)
  <2>1. /\ pc[c] = "user" /\ UNCHANGED <<at, ask, row, hit, session, latest>>
        /\ pc'[c] = IF ExpiredAt(row[c], at[c]) THEN "expire" ELSE "touch"
    BY <1>6 DEF CheckUser, SessionsInv
  <2>2. CASE ExpiredAt(row[c], at[c])
    BY <1>5, <2>1, <2>2
  <2>3. CASE ~ExpiredAt(row[c], at[c])
    BY <2>1, <2>3 DEF CallInv, SessionsInv, ExpiredAt
  <2> QED BY <2>2, <2>3
<1>7. CASE Sweep(c)
  <2>1. /\ pc[c] = "sweep" /\ pc'[c] = "commit" /\ UNCHANGED <<ask, session>>
        /\ hit'[c] = LiveSessions(ask[c].user)
    BY <1>7 DEF Sweep, SessionsInv
  <2>2. ask[c].token \in Logins /\ session[ask[c].token].user \in Users /\ ask[c].user \in Users
    BY <2>1 DEF SessionsInv, CallInv
  <2>3. \A l \in hit'[c] : session[l].user \in Users /\ l \in Logins
    BY <2>1, <2>2 DEF LiveSessions
  <2> QED BY <2>1, <2>2, <2>3 DEF CallInv
<1>8. CASE Touch(c)
  BY <1>5, <1>8 DEF Touch, SessionsInv
<1>9. CASE (Permit(c) \/ ReadTarget(c) \/ CountAdmins(c)) /\ ~End(c)
  BY <1>5, <1>9 DEF Permit, ReadTarget, CountAdmins, SessionsInv
<1>10. CASE Expire(c) \/ Logout(c) \/ CreateUser(c) \/ CommitUser(c)
  BY <1>3, <1>10 DEF Expire, Logout, CreateUser, CommitUser
<1> QED BY <1>3, <1>4, <1>6, <1>7, <1>8, <1>9, <1>10 DEF Call

\* Every step keeps what is known of sessions.
LEMMA SessionsStep == ASSUME SessionsInv, [Next]_vars PROVE SessionsInv'
<1>0. Shapes'
  BY ShapesStep DEF SessionsInv
<1>1. ASSUME UNCHANGED <<session, pc, at, who, callVars, latest>> PROVE SessionsInv'
  <2>1. \A l \in Logins : SessionInv(l)'
    BY <1>1 DEF SessionsInv, SessionInv
  <2>2. \A c \in Calls : CallInv(c)'
    BY <1>1 DEF SessionsInv, CallInv, ExpiredAt, callVars
  <2> QED BY <1>0, <2>1, <2>2 DEF SessionsInv
<1>2. ASSUME NEW k \in Logins, Verify(k) \/ Issue(k) PROVE SessionsInv'
  <2>1. ASSUME NEW l \in Logins PROVE SessionInv(l)'
    <3>1. CASE Verify(k)
      <4>1. UNCHANGED <<session, latest>>
        BY <3>1 DEF Verify
      <4>2. CASE l = k
        <5>1. pc[l] = "idle" /\ pc'[l] = "issue" /\ who'[l] \in Users
          BY <3>1, <4>2 DEF Verify, Goto, SessionsInv, Shapes
        <5> QED BY <4>1, <5>1 DEF SessionsInv, SessionInv
      <4>3. CASE l # k
        <5>1. pc'[l] = pc[l] /\ who'[l] = who[l]
          BY <3>1, <4>3 DEF Verify, Goto, SessionsInv, Shapes
        <5> QED BY <4>1, <5>1 DEF SessionsInv, SessionInv
      <4> QED BY <4>2, <4>3
    <3>2. CASE Issue(k)
      <4>1. CASE l = k
        <5>1. PICK t \in at[l] .. now : session'[l] = NewSession(who[l], t) /\ latest'[l] = t
          BY <3>2, <4>1 DEF Issue, SessionsInv, Shapes
        <5>2. t \in Nat /\ t <= t
          BY <5>1 DEF SessionsInv, Shapes
        <5>3. pc'[l] = "done" /\ who[l] \in Users
          BY <3>2, <4>1 DEF Issue, SessionsInv, Shapes, SessionInv
        <5>4. session'[l].user = who[l] /\ session'[l].created = t /\ session'[l].seen = t
          BY <5>1 DEF NewSession
        <5> QED BY <5>1, <5>2, <5>3, <5>4 DEF SessionInv
      <4>2. CASE l # k
        <5>1. /\ pc'[l] = pc[l] /\ who'[l] = who[l]
              /\ session'[l] = session[l] /\ latest'[l] = latest[l]
          BY <3>2, <4>2 DEF Issue, SessionsInv, Shapes
        <5> QED BY <5>1 DEF SessionsInv, SessionInv
      <4> QED BY <4>1, <4>2
    <3> QED BY <1>2, <3>1, <3>2
  <2>2. ASSUME NEW c \in Calls PROVE CallInv(c)'
    <3>1. pc'[c] = pc[c] /\ at'[c] = at[c] /\ UNCHANGED <<ask, row, hit>>
      BY <1>2, ActorAssumption DEF Verify, Issue, Goto, callVars, SessionsInv, Shapes
    <3>2. ASSUME NEW l \in Logins, session[l].user \in Users PROVE SessionKept(l)
      <4>1. session[l] # NoSession
        BY <3>2, ActorAssumption DEF NoSession
      <4>2. session'[l] = session[l] /\ latest'[l] = latest[l]
        BY <1>2, <4>1, LoginsKeepSessions
      <4>3. latest[l] <= latest[l]
        BY DEF SessionsInv, Shapes
      <4> QED BY <4>2, <4>3 DEF SessionKept
    <3> QED BY <1>0, <3>1, <3>2, CallStays
  <2> QED BY <1>0, <2>1, <2>2 DEF SessionsInv
<1>3. ASSUME NEW c \in Calls, Call(c) PROVE SessionsInv'
  <2>0. Alone(c) /\ \A l \in Logins : SessionKept(l)
    BY <1>3, CallsAlone, CallsKeepSessions DEF SessionsInv
  <2>1. ASSUME NEW l \in Logins PROVE SessionInv(l)'
    <3>1. pc'[l] = pc[l] /\ who'[l] = who[l] /\ SessionKept(l)
      BY <2>0 DEF Alone
    <3>2. /\ session[l].seen \in Nat /\ latest[l] \in Nat /\ latest'[l] \in Nat
          /\ session[l].seen <= latest[l] /\ latest[l] <= latest'[l]
      BY <1>0, <3>1 DEF SessionsInv, SessionInv, Shapes, SessionKept
    <3>3. session'[l].seen \in Nat /\ session'[l].seen <= latest'[l]
      <4>1. CASE session'[l].seen = session[l].seen
        BY <3>2, <4>1
      <4> QED BY <3>1, <4>1 DEF SessionKept
    <3> QED BY <3>1, <3>3 DEF SessionsInv, SessionInv, SessionKept
  <2>2. ASSUME NEW d \in Calls PROVE CallInv(d)'
    <3>1. CASE d = c
      BY <1>0, <1>3, <3>1, CallMoves
    <3>2. CASE d # c
      BY <1>0, <2>0, <3>2, CallStays DEF Alone
    <3> QED BY <3>1, <3>2
  <2> QED BY <1>0, <2>1, <2>2 DEF SessionsInv
<1> QED BY <1>1, <1>2, <1>3 DEF Next, vars, Tick

\* What is known of sessions holds in every state.
LEMMA SessionsHold == Spec => []SessionsInv
<1>1. Init => SessionsInv
  BY InitInv
<1>2. SessionsInv /\ [Next]_vars => SessionsInv'
  BY SessionsStep
<1> QED BY <1>1, <1>2, PTL DEF Spec
-----------------------------------------------------------------------------
\* A revoked session is never live again, whatever calls were using it when it
\* was revoked (revoke_session, _revoke_sessions, authenticate_session).
THEOREM RevocationIsFinal == Spec => RevokedStaysRevoked
<1>1. ASSUME SessionsInv, [Next]_vars, NEW l \in Logins, session[l].revoked
      PROVE  session'[l].revoked
  <2>1. CASE UNCHANGED session
    BY <1>1, <2>1
  <2>2. ASSUME NEW k \in Logins, Verify(k) \/ Issue(k) PROVE session'[l].revoked
    <3>1. session[l] # NoSession
      BY <1>1 DEF NoSession
    <3> QED BY <1>1, <2>2, <3>1, LoginsKeepSessions
  <2>3. ASSUME NEW c \in Calls, Call(c) PROVE session'[l].revoked
    BY <1>1, <2>3, CallsKeepSessions DEF SessionKept
  <2> QED BY <1>1, <2>1, <2>2, <2>3 DEF Next, vars, Tick
<1>2. SessionsInv /\ [Next]_vars => \A l \in Logins : session[l].revoked => session'[l].revoked
  BY <1>1
<1> QED BY <1>2, SessionsHold, PTL DEF Spec, RevokedStaysRevoked

\* A session that nobody has used for the idle limit, or that has reached the
\* absolute one, is not used again (authenticate_session's two comparisons).
THEOREM ExpiryIsFinal == Spec => ExpiredStaysExpired
<1>1. ASSUME SessionsInv, NEW c \in Calls, pc[c] = "touch"
      PROVE  /\ at[c] < session[ask[c].token].created + Absolute
             /\ at[c] < latest[ask[c].token] + Idle
  <2> DEFINE l == ask[c].token
  <2>1. /\ l \in Logins /\ row[c].created = session[l].created
        /\ row[c].seen \in Nat /\ row[c].seen <= latest[l] /\ ~ExpiredAt(row[c], at[c])
    BY <1>1 DEF SessionsInv, CallInv
  <2>2. /\ at[c] \in Nat /\ latest[l] \in Nat /\ session[l].created \in Nat
        /\ Idle \in Nat /\ Absolute \in Nat
    <3>1. at[c] \in Nat /\ latest[l] \in Nat
      BY <1>1, <2>1 DEF SessionsInv, Shapes
    <3>2. session[l].created \in Nat
      BY <1>1, <2>1 DEF SessionsInv, SessionInv
    <3>3. Idle \in Nat /\ Absolute \in Nat
      BY LimitAssumption
    <3> QED BY <3>1, <3>2, <3>3
  <2> HIDE DEF l
  <2>3. at[c] < row[c].created + Absolute /\ at[c] < row[c].seen + Idle
    BY <2>1, <2>2 DEF ExpiredAt
  <2>4. at[c] < session[l].created + Absolute /\ at[c] < latest[l] + Idle
    BY <2>1, <2>2, <2>3
  <2> QED BY <2>4 DEF l
<1>2. SessionsInv =>
        [\A c \in Calls : pc[c] = "touch" /\ pc'[c] # "touch" =>
          LET l == ask[c].token IN
            /\ at[c] < session[l].created + Absolute
            /\ at[c] < latest[l] + Idle]_vars
  BY <1>1
<1> QED BY <1>2, SessionsHold, PTL DEF ExpiredStaysExpired
-----------------------------------------------------------------------------
\* Of more than one Admin, one is not the user x.
LEMMA AnotherAdmin ==
  ASSUME NEW x, ~FinalAdmin
  PROVE  \E a \in Users : a # x /\ IsAdmin(user[a])
<1>1. SUFFICES ASSUME Admins \subseteq {x} PROVE FALSE
  BY DEF Admins
<1>2. IsFiniteSet(Admins) /\ Cardinality(Admins) \in Nat
  <2>1. Admins \subseteq Users
    BY DEF Admins
  <2> QED BY <2>1, ActorAssumption, FS_Subset, FS_CardinalityType
<1>3. IsFiniteSet({x}) /\ Cardinality({x}) = 1
  BY FS_Singleton
<1>4. Cardinality(Admins) <= 1
  BY <1>1, <1>2, <1>3, FS_Subset
<1> QED BY <1>4 DEF FinalAdmin

\* Rows that are there stay; rows that are not may be created.
Created == \A u \in Users : user[u] # NoUser => user'[u] = user[u]

\* An Admin has a row.
LEMMA AdminIsThere == \A u : IsAdmin(u) => u # NoUser
BY DEF IsAdmin, NoUser

\* What an update has read of users stays true while users are only created.
LEMMA UpdateStays ==
  ASSUME SessionsInv, NEW c \in Calls, UpdateInv(c), Created,
         pc'[c] = pc[c] /\ ask'[c] = ask[c] /\ me'[c] = me[c] /\ target'[c] = target[c],
         \A l \in Logins : session[l].user \in Users => session'[l].user = session[l].user
  PROVE  UpdateInv(c)'
<1> SUFFICES ASSUME Updating(c) PROVE UpdateInv(c)'
  BY DEF UpdateInv, Updating
<1>1. ask[c].token \in Logins /\ session[ask[c].token].user \in Users /\ ask[c].user \in Users
  BY DEF SessionsInv, CallInv, Updating
<1>2. Caller(c) \in Users /\ Caller(c)' = Caller(c)
  BY <1>1 DEF Caller
<1>3. pc[c] = "target" => me'[c] = user'[Caller(c)] /\ me'[c] # NoUser
  BY <1>2 DEF UpdateInv, Created
<1>4. pc[c] # "target" => target'[c] = user'[ask[c].user] /\ target'[c] # NoUser
  BY <1>1 DEF UpdateInv, Created
<1>5. \A a \in Users : IsAdmin(user[a]) => IsAdmin(user'[a])
  BY AdminIsThere DEF Created
<1>6. pc[c] \in {"sweep", "commit"} => Spared(c)'
  BY <1>5 DEF UpdateInv, Spared, Changed, IsAdmin
<1> QED BY <1>2, <1>3, <1>4, <1>6 DEF UpdateInv, Updating

\* The row an update writes when its target has not changed since.
LEMMA WrittenIsChanged ==
  ASSUME NEW c \in Calls, target[c] = user[ask[c].user]
  PROVE  Written(c) = Changed(target[c], ask[c].change)
<1> DEFINE new == Changed(target[c], ask[c].change)
<1>1. new = [role |-> new.role, active |-> new.active]
  BY DEF Changed
<1>2. Written(c) = [role |-> new.role, active |-> new.active]
  <2>1. (IF new.role = target[c].role THEN target[c].role ELSE new.role) = new.role
    OBVIOUS
  <2>2. (IF new.active = target[c].active THEN target[c].active ELSE new.active) = new.active
    OBVIOUS
  <2> HIDE DEF new
  <2> QED BY <2>1, <2>2 DEF Written, new
<1> QED BY <1>1, <1>2

\* The call itself: what it reads of users is what the table holds.
LEMMA UpdateMoves ==
  ASSUME SessionsInv, AdminInv, ~raced, NEW c \in Calls, Call(c), ~raced'
  PROVE  UpdateInv(c)'
<1> USE DEF Goto, Keeps
<1>0. Shapes /\ UpdateInv(c) /\ c \in Logins \cup Calls
  BY DEF SessionsInv, AdminInv
<1>1. ASSUME End(c) PROVE UpdateInv(c)'
  <2>1. pc'[c] = "idle"
    BY <1>0, <1>1 DEF End, Shapes
  <2> QED BY <2>1 DEF UpdateInv, Updating
<1>2. CASE (Present(c) \/ CheckUser(c) \/ Touch(c)) /\ ~End(c)
  <2>1. pc'[c] \in {"user", "expire", "touch", "logout", "permit"}
    BY <1>0, <1>2 DEF Present, CheckUser, Touch, Shapes
  <2> QED BY <2>1 DEF UpdateInv, Updating
<1>3. CASE Permit(c) /\ ~End(c)
  <2>1. /\ pc'[c] = "target" /\ me'[c] = user[Caller(c)] /\ user[Caller(c)].active
        /\ UNCHANGED <<ask, user, session>>
    BY <1>0, <1>3 DEF Permit, Shapes
  <2>2. me'[c] # NoUser
    BY <2>1 DEF NoUser
  <2>3. Caller(c)' = Caller(c)
    BY <2>1 DEF Caller
  <2> QED BY <2>1, <2>2, <2>3 DEF UpdateInv
<1>4. CASE ReadTarget(c) /\ ~End(c)
  <2> SUFFICES ASSUME Updating(c)' PROVE UpdateInv(c)'
    BY DEF UpdateInv
  <2> DEFINE u == IF ask[c].user = Caller(c) THEN me[c] ELSE user[ask[c].user]
  <2>1. /\ pc[c] = "target" /\ target'[c] = u /\ u # NoUser /\ UNCHANGED <<ask, user>>
        /\ pc'[c] = (IF ask[c].op = "update" /\ IsAdmin(u) /\ ~IsAdmin(Changed(u, ask[c].change))
                     THEN "count" ELSE "sweep")
    BY <1>0, <1>4 DEF ReadTarget, Shapes
  <2>2. ask[c].op = "update" /\ Updating(c)
    BY <2>1 DEF Updating
  <2>3. u = user[ask[c].user]
    BY <1>0, <2>1, <2>2 DEF UpdateInv
  <2> HIDE DEF u
  <2>4. pc'[c] = "sweep" => ~(IsAdmin(u) /\ ~IsAdmin(Changed(u, ask[c].change)))
    BY <2>1, <2>2
  <2>5. pc'[c] \in {"sweep", "commit"} => Spared(c)'
    <3>1. pc'[c] # "commit" /\ target'[c] = u /\ ask'[c] = ask[c]
      BY <2>1
    <3> QED BY <2>4, <3>1 DEF Spared, Changed, IsAdmin
  <2> QED BY <2>1, <2>3, <2>5 DEF UpdateInv
<1>5. CASE (CountAdmins(c) \/ Sweep(c)) /\ ~End(c)
  <2> SUFFICES ASSUME Updating(c)' PROVE UpdateInv(c)'
    BY DEF UpdateInv
  <2>1. /\ pc[c] \in {"count", "sweep"} /\ pc'[c] \in {"sweep", "commit"}
        /\ pc[c] = "count" => ~FinalAdmin
        /\ UNCHANGED <<ask, user, target>>
    BY <1>0, <1>5 DEF CountAdmins, Sweep, Shapes
  <2>2. Updating(c)
    BY <2>1 DEF Updating
  <2>3. target[c] = user[ask[c].user] /\ target[c] # NoUser
    BY <1>0, <2>1, <2>2 DEF UpdateInv
  <2>4. Spared(c)
    <3>1. CASE pc[c] = "count"
      BY <2>1, <3>1, AnotherAdmin DEF Spared
    <3>2. CASE pc[c] = "sweep"
      BY <1>0, <2>2, <3>2 DEF UpdateInv
    <3> QED BY <2>1, <3>1, <3>2
  <2>5. Spared(c)'
    BY <2>1, <2>4 DEF Spared, Changed, IsAdmin
  <2> QED BY <2>1, <2>3, <2>5 DEF UpdateInv
<1>6. CASE Expire(c) \/ Logout(c) \/ CreateUser(c) \/ CommitUser(c)
  BY <1>1, <1>6 DEF Expire, Logout, CreateUser, CommitUser
<1> QED BY <1>1, <1>2, <1>3, <1>4, <1>5, <1>6 DEF Call

\* An update begins with the permission; one that finds another under way is a race.
LEMMA UpdatesBegin ==
  ASSUME SessionsInv, NEW c \in Calls, Call(c), ~raced', ~Updating(c), Updating(c)'
  PROVE  \A d \in Calls : ~Updating(d)
<1> USE DEF Goto, Keeps
<1>0. Shapes /\ c \in Logins \cup Calls
  BY DEF SessionsInv
<1>1. ~End(c)
  BY <1>0 DEF End, Shapes, Updating
<1>2. ~(Present(c) \/ CheckUser(c) \/ Touch(c) \/ Expire(c) \/ Logout(c) \/ CreateUser(c)
        \/ CommitUser(c))
  BY <1>0, <1>1 DEF Present, CheckUser, Touch, Expire, Logout, CreateUser, CommitUser, Shapes, Updating
<1>3. ~(ReadTarget(c) \/ CountAdmins(c) \/ Sweep(c))
  BY <1>0, <1>1 DEF ReadTarget, CountAdmins, Sweep, Shapes, Updating
<1>4. CASE Permit(c)
  <2>1. ask'[c].op = "update" /\ ask'[c] = ask[c]
    BY <1>0, <1>1, <1>4 DEF Permit, Updating
  <2> QED BY <1>1, <1>4, <2>1 DEF Permit
<1> QED BY <1>2, <1>3, <1>4 DEF Call
\* What a call does to users: nothing, create one, or write the update it holds.
LEMMA UsersChange ==
  ASSUME SessionsInv, NEW c \in Calls, Call(c)
  PROVE  Created \/ (CommitUser(c) /\ Updating(c))
<1>1. CASE CreateUser(c)
  <2>1. PICK u \in Users, r \in {"admin", "analyst"} :
           \/ user[u] = NoUser /\ user' = [user EXCEPT ![u] = [role |-> r, active |-> TRUE]]
           \/ UNCHANGED user
    <3>1. ask[c].user \in Users
      BY <1>1 DEF CreateUser, SessionsInv, CallInv
    <3> QED BY <1>1, <3>1 DEF CreateUser
  <2>2. \A v \in Users : v # u => user'[v] = user[v]
    BY <2>1 DEF SessionsInv, Shapes
  <2> QED BY <2>1, <2>2 DEF Created
<1>2. CASE CommitUser(c)
  BY <1>2 DEF CommitUser, Created, Updating
<1>3. CASE ~CreateUser(c) /\ ~CommitUser(c)
  <2>1. UNCHANGED user
    BY <1>3 DEF Call, Present, CheckUser, Expire, Touch, Logout, Permit, ReadTarget,
                CountAdmins, Sweep
  <2> QED BY <2>1 DEF Created
<1> QED BY <1>1, <1>2, <1>3

\* The update of the only call that updates leaves an Admin.
LEMMA UpdateLeavesAdmin ==
  ASSUME SessionsInv, AdminInv, ~raced, NEW c \in Calls, CommitUser(c), Updating(c)
  PROVE  \E a \in Users : IsAdmin(user'[a])
<1> DEFINE u == ask[c].user  new == Changed(target[c], ask[c].change)
<1>1. /\ u \in Users /\ target[c] = user[u] /\ Spared(c)
      /\ user' = [user EXCEPT ![u] = Written(c)]
  BY DEF SessionsInv, CallInv, AdminInv, UpdateInv, CommitUser, Updating
<1>2. user'[u] = new /\ \A v \in Users : v # u => user'[v] = user[v]
  BY <1>1, WrittenIsChanged DEF SessionsInv, Shapes
<1>3. (IsAdmin(target[c]) /\ ~IsAdmin(new)) => \E a \in Users : a # u /\ IsAdmin(user[a])
  BY <1>1 DEF Spared
<1>4. \E a \in Users : IsAdmin(user[a])
  BY DEF AdminInv
<1> HIDE DEF u, new
<1>5. CASE IsAdmin(new)
  BY <1>1, <1>2, <1>5
<1>6. CASE ~IsAdmin(new) /\ IsAdmin(target[c])
  BY <1>2, <1>3, <1>6
<1>7. CASE ~IsAdmin(new) /\ ~IsAdmin(target[c])
  BY <1>1, <1>2, <1>4, <1>7
<1> QED BY <1>5, <1>6, <1>7

\* Every step keeps what is known of users and updates.
LEMMA AdminStep == ASSUME SessionsInv, AdminInv, [Next]_vars PROVE AdminInv'
<1> SUFFICES ASSUME ~raced' PROVE AdminInv'
  BY DEF AdminInv
<1>1. ~raced
  BY DEF Next, vars, Tick, Verify, Issue, Call, Present, CheckUser, Expire, Touch, Logout, Permit,
         CreateUser, ReadTarget, CountAdmins, Sweep, CommitUser
<1>2. /\ \E a \in Users : IsAdmin(user[a])
      /\ \A c, d \in Calls : Updating(c) /\ Updating(d) => c = d
      /\ \A c \in Calls : UpdateInv(c)
  BY <1>1 DEF AdminInv
<1>3. ASSUME \A c \in Calls : pc'[c] = pc[c], UNCHANGED <<user, ask, me, target>>,
             \A l \in Logins : session[l].user \in Users => session'[l].user = session[l].user
      PROVE  AdminInv'
  <2>1. \A c \in Calls : UpdateInv(c)'
    BY <1>2, <1>3, UpdateStays DEF Created
  <2>2. \A c \in Calls : Updating(c)' = Updating(c)
    BY <1>3 DEF Updating
  <2>3. (\A c, d \in Calls : Updating(c) /\ Updating(d) => c = d)'
    BY <1>2, <1>3 DEF Updating
  <2>4. (\E a \in Users : IsAdmin(user[a]))'
    BY <1>2, <1>3 DEF IsAdmin
  <2> QED BY <2>1, <2>3, <2>4 DEF AdminInv
<1>4. CASE UNCHANGED vars \/ Tick
  BY <1>3, <1>4 DEF vars, callVars, Tick
<1>5. ASSUME NEW k \in Logins, Verify(k) \/ Issue(k) PROVE AdminInv'
  <2>1. UNCHANGED <<user, ask, me, target>> /\ \A c \in Calls : pc'[c] = pc[c]
    BY <1>5, ActorAssumption DEF Verify, Issue, Goto, callVars, SessionsInv, Shapes
  <2>2. ASSUME NEW l \in Logins, session[l].user \in Users PROVE session'[l].user = session[l].user
    <3>1. session[l] # NoSession
      BY <2>2, ActorAssumption DEF NoSession
    <3> QED BY <1>5, <3>1, LoginsKeepSessions
  <2> QED BY <1>3, <2>1, <2>2
<1>6. ASSUME NEW c \in Calls, Call(c) PROVE AdminInv'
  <2>1. Alone(c) /\ \A l \in Logins : session'[l].user = session[l].user
    BY <1>6, CallsAlone, CallsKeepSessions DEF SessionsInv, SessionKept
  <2>2. UpdateInv(c)'
    BY <1>1, <1>6, UpdateMoves
  <2>3. ASSUME NEW d \in Calls, d # c
        PROVE  /\ Updating(d)' <=> Updating(d)
               /\ UpdateInv(d)'
    <3>1. /\ pc'[d] = pc[d] /\ ask'[d] = ask[d] /\ me'[d] = me[d] /\ target'[d] = target[d]
      BY <2>1, <2>3 DEF Alone
    <3>2. Updating(d)' <=> Updating(d)
      BY <3>1 DEF Updating
    <3>3. CASE Created
      BY <1>2, <2>1, <3>1, <3>2, <3>3, UpdateStays
    <3>4. CASE CommitUser(c) /\ Updating(c)
      <4>1. ~Updating(d)
        BY <1>2, <2>3, <3>4
      <4> QED BY <3>2, <4>1 DEF UpdateInv
    <3> QED BY <1>6, <3>2, <3>3, <3>4, UsersChange
  <2>4. ASSUME NEW d \in Calls, d # c, Updating(d)', Updating(c)' PROVE FALSE
    BY <1>2, <1>6, <2>3, <2>4, UpdatesBegin
  <2>5. (\A d, e \in Calls : Updating(d) /\ Updating(e) => d = e)'
    <3>1. ASSUME NEW d \in Calls, NEW e \in Calls, Updating(d)', Updating(e)', d # e PROVE FALSE
      BY <1>2, <2>3, <2>4, <3>1
    <3> QED BY <3>1 DEF Updating
  <2>6. (\E a \in Users : IsAdmin(user[a]))'
    <3>1. CASE Created
      <4>1. PICK a \in Users : IsAdmin(user[a])
        BY <1>2
      <4>2. user'[a] = user[a]
        BY <3>1, <4>1, AdminIsThere DEF Created
      <4> QED BY <4>1, <4>2 DEF IsAdmin
    <3>2. CASE CommitUser(c) /\ Updating(c)
      <4>1. \E a \in Users : IsAdmin(user'[a])
        BY <1>1, <3>2, UpdateLeavesAdmin
      <4> QED BY <4>1 DEF IsAdmin
    <3> QED BY <1>6, <3>1, <3>2, UsersChange
  <2>7. \A d \in Calls : UpdateInv(d)'
    BY <2>2, <2>3
  <2> QED BY <2>5, <2>6, <2>7 DEF AdminInv
<1> QED BY <1>4, <1>5, <1>6 DEF Next

\* There is an active Admin as long as no two updates of users overlap
\* (update_user and its count of the active Admins).
THEOREM AdminIsLeft == Spec => []AdminUnlessRaced
<1>1. Init => AdminInv
  BY InitInv
<1>2. SessionsInv /\ AdminInv /\ [Next]_vars => AdminInv'
  BY AdminStep
<1>3. AdminInv => AdminUnlessRaced
  BY DEF AdminInv, AdminUnlessRaced, Admins
<1> QED BY <1>1, <1>2, <1>3, SessionsHold, PTL DEF Spec
-----------------------------------------------------------------------------
(***************************************************************************)
(* The limiters in front of a login.                                       *)
(*                                                                         *)
(* The invariant of the slots is the count itself with the types that the  *)
(* steps need: Acquire adds its thread to the holders, and only when a     *)
(* slot is free; Release takes it away; every other step keeps the set of  *)
(* the holders.                                                            *)
(*                                                                         *)
(* A deque may be out of order, since a clock is read before the lock that *)
(* orders the entries, and so it may keep entries that have expired. What  *)
(* holds is that it misses none that counts (Matches): from now on, as     *)
(* many of its entries are unexpired as of the attempts that were made.    *)
(* Its length is therefore no less than their number. The failures also    *)
(* pass the attempts that have been allowed and may still fail (Windows).  *)
(***************************************************************************)

Places == {"idle", "acquire", "allowed", "verify", "failed", "cleared", "release"}
Held == {"allowed", "verify", "failed", "cleared", "release"}

Counted == /\ place \in [Threads -> Places]
           /\ busy \in Nat
           /\ LeasesAreCounted

\* No more slots are taken than there are.
SlotsSuffice == busy <= MaxConcurrent

\* The holders of slots are finitely many.
LEMMA HoldersFinite == IsFiniteSet(Holders) /\ Cardinality(Holders) \in Nat
<1>1. IsFiniteSet(Holders)
  BY ThreadAssumption, FS_Subset DEF Holders
<1> QED
  BY <1>1, FS_CardinalityType

\* A thread that moves between two places where it holds a slot, or between two
\* where it holds none, leaves the holders as they are.
LEMMA SameHolders ==
  ASSUME Counted, NEW t \in Threads, NEW where \in Places,
         place' = [place EXCEPT ![t] = where], place[t] \in Held <=> where \in Held
  PROVE  Holders' = Holders /\ place' \in [Threads -> Places]
BY DEF Counted, Holders, Holds, Held

\* A thread that takes a slot is one more holder.
LEMMA OneMore ==
  ASSUME Counted, NEW t \in Threads, place[t] \notin Held, place' = [place EXCEPT ![t] = "allowed"],
         busy' = busy + 1
  PROVE  Counted'
<1>1. Holders' = Holders \cup {t} /\ t \notin Holders
  BY DEF Counted, Holders, Holds, Held
<1>2. Cardinality(Holders') = Cardinality(Holders) + 1
  BY <1>1, HoldersFinite, FS_AddElement
<1> QED
  BY <1>2 DEF Counted, LeasesAreCounted, Places

\* A thread that gives its slot back is one holder less.
LEMMA OneLess ==
  ASSUME Counted, NEW t \in Threads, place[t] \in Held, place' = [place EXCEPT ![t] = "idle"],
         busy' = SlotsLeft
  PROVE  Counted' /\ busy' <= busy
<1>1. Holders' = Holders \ {t} /\ t \in Holders
  BY DEF Counted, Holders, Holds, Held
<1>2. Cardinality(Holders') = Cardinality(Holders) - 1
  BY <1>1, HoldersFinite, FS_RemoveElement
<1>3. Cardinality(Holders) # 0
  BY <1>1, HoldersFinite, FS_EmptySet
<1>4. busy' = busy - 1 /\ busy' \in Nat
  BY <1>3 DEF SlotsLeft, Counted, LeasesAreCounted
<1> QED
  BY <1>2, <1>4 DEF Counted, LeasesAreCounted, Places

\* Acquire adds a holder when a slot is free, Release takes one away, the rest keeps them.
LEMMA CountStep == Counted /\ SlotsSuffice /\ [LoginNext]_loginVars => Counted' /\ SlotsSuffice'
<1> SUFFICES ASSUME Counted, SlotsSuffice, [LoginNext]_loginVars
             PROVE  Counted' /\ SlotsSuffice'
  OBVIOUS
<1> USE DEF MoveTo
<1>1. ASSUME NEW t \in Threads, NEW where \in Places, MoveTo(t, where),
             place[t] \in Held <=> where \in Held, UNCHANGED busy
      PROVE  Counted' /\ SlotsSuffice'
  BY <1>1, SameHolders DEF Counted, LeasesAreCounted, SlotsSuffice
<1>2. ASSUME NEW t \in Threads, Arrive(t) PROVE Counted' /\ SlotsSuffice'
  BY <1>1, <1>2 DEF Arrive, memory, Held, Places
<1>3. ASSUME NEW t \in Threads, Acquire(t) PROVE Counted' /\ SlotsSuffice'
  <2>1. CASE SlotFree /\ busy' = busy + 1 /\ MoveTo(t, "allowed")
    <3>1. Counted'
      BY <1>3, <2>1, OneMore DEF Acquire, Held
    <3> QED
      BY <3>1, <2>1, SettingAssumption DEF SlotFree, SlotsSuffice, Counted
  <2>2. CASE busy' = busy /\ MoveTo(t, "idle")
    BY <1>1, <1>3, <2>2 DEF Acquire, Held, Places
  <2> QED
    BY <1>3, <2>1, <2>2 DEF Acquire
<1>4. ASSUME NEW t \in Threads, Allowed(t) PROVE Counted' /\ SlotsSuffice'
  <2>1. PICK where \in {"verify", "release"} : MoveTo(t, where)
    BY <1>4 DEF Allowed
  <2> QED
    BY <1>1, <1>4, <2>1 DEF Allowed, Held, Places
<1>5. ASSUME NEW t \in Threads, Authenticate(t) PROVE Counted' /\ SlotsSuffice'
  BY <1>1, <1>5 DEF Authenticate, memory, Held, Places
<1>6. ASSUME NEW t \in Threads, RecordFailure(t) PROVE Counted' /\ SlotsSuffice'
  BY <1>1, <1>6 DEF RecordFailure, Held, Places
<1>7. ASSUME NEW t \in Threads, Clear(t) PROVE Counted' /\ SlotsSuffice'
  BY <1>1, <1>7 DEF Clear, Held, Places
<1>8. ASSUME NEW t \in Threads, Release(t) PROVE Counted' /\ SlotsSuffice'
  <2>1. Counted' /\ busy' <= busy
    BY <1>8, OneLess DEF Release, Held
  <2> QED
    BY <2>1, SettingAssumption DEF SlotsSuffice, Counted
<1>9. CASE ClockTicks \/ UNCHANGED loginVars
  BY <1>9 DEF ClockTicks, loginVars, memory, Counted, LeasesAreCounted, Holders, Holds, SlotsSuffice
<1> QED
  BY <1>2, <1>3, <1>4, <1>5, <1>6, <1>7, <1>8, <1>9 DEF LoginNext, Handle

\* At first no slot is taken.
LEMMA CountInit == LoginInit => Counted /\ SlotsSuffice
<1> SUFFICES ASSUME LoginInit PROVE Counted /\ SlotsSuffice
  OBVIOUS
<1>1. Holders = {}
  BY DEF LoginInit, Holders, Holds
<1> QED
  BY <1>1, FS_EmptySet, SettingAssumption DEF LoginInit, Counted, LeasesAreCounted, SlotsSuffice, Places

\* The count of slots is that of the attempts that hold one, in every reachable
\* state: no refused, failed or overlapping attempt leaks a slot or frees two.
THEOREM CountIsExact == LoginSpec => []LeasesAreCounted
<1>1. Counted => LeasesAreCounted
  BY DEF Counted
<1> QED
  BY CountInit, CountStep, <1>1, PTL DEF LoginSpec

\* The number of attempts that are admitted and not answered, those hashing a
\* password among them, never exceeds login_concurrency_limit.
THEOREM ConcurrencyIsBounded == LoginSpec => [](Cardinality(Holders) <= MaxConcurrent)
<1>1. Counted /\ SlotsSuffice => Cardinality(Holders) <= MaxConcurrent
  BY DEF Counted, LeasesAreCounted, SlotsSuffice
<1> QED
  BY CountInit, CountStep, <1>1, PTL DEF LoginSpec
-----------------------------------------------------------------------------
(***************************************************************************)
(* The windows.  A deque and a history match when at every later time they *)
(* have as many entries in the window (Matches): removing expired entries  *)
(* from the left of the one and anywhere from the other keeps them so, and *)
(* so does adding one time to both.                                        *)
(***************************************************************************)

\* The places of q whose entries are in the window that ends at m.
Unexpired(q, m, window) == {i \in 1 .. Len(q) : ~Expired(q[i], m, window)}

Matches(S, q, n, window) ==
  /\ IsFiniteSet(S) /\ q \in Seq(Nat)
  /\ \A e \in S : e.time \in Nat /\ ~Expired(e.time, n, window)
  /\ \A m \in Nat : m >= n =>
       Cardinality(InWindow(S, m, window)) = Cardinality(Unexpired(q, m, window))

\* A set of naturals has a least member.
LEMMA Least ==
  ASSUME NEW S, S \subseteq Nat, S # {}
  PROVE  Min(S) \in S /\ \A y \in S : Min(S) <= y
<1> DEFINE R == OpToRel(<, Nat)
<1>1. IsWellFoundedOn(R, Nat)
  BY NatLessThanWellFounded
<1>2. \A x, y \in Nat : <<x, y>> \in R <=> x < y
  BY DEF OpToRel
<1> HIDE DEF R
<1>3. PICK x \in S : \A y \in S : ~(<<y, x>> \in R)
  BY <1>1, WFMin
<1>4. ASSUME NEW y \in S PROVE x <= y
  <2>1. x \in Nat /\ y \in Nat /\ ~(y < x)
    BY <1>2, <1>3
  <2> QED BY <2>1
<1> QED BY <1>3, <1>4 DEF Min

\* What is in the window of a later time is in that of an earlier one.
LEMMA ExpiredStays ==
  ASSUME NEW x \in Nat, NEW k \in Nat, NEW m \in Nat, NEW window \in Nat, k <= m,
         Expired(x, k, window)
  PROVE  Expired(x, m, window)
BY DEF Expired

\* The entries of a deque that count are no more than its entries.
LEMMA UnexpiredFinite ==
  ASSUME NEW q \in Seq(Nat), NEW m, NEW window
  PROVE  /\ IsFiniteSet(Unexpired(q, m, window)) /\ Cardinality(Unexpired(q, m, window)) \in Nat
         /\ Cardinality(Unexpired(q, m, window)) <= Len(q)
<1>1. Len(q) \in Nat
  BY LenProperties
<1>2. IsFiniteSet(1 .. Len(q)) /\ Cardinality(1 .. Len(q)) = Len(q)
  <2> DEFINE l == Len(q)
  <2>1. l \in Nat /\ l \in Int /\ 1 \in Int
    BY <1>1
  <2> HIDE DEF l
  <2>2. IsFiniteSet(1 .. l) /\ Cardinality(1 .. l) = IF 1 > l THEN 0 ELSE l - 1 + 1
    BY <2>1, FS_Interval
  <2>3. Cardinality(1 .. l) = l
    BY <2>1, <2>2
  <2> QED BY <2>2, <2>3 DEF l
<1>3. Unexpired(q, m, window) \in SUBSET (1 .. Len(q))
  BY DEF Unexpired
<1> QED BY <1>2, <1>3, FS_Subset, FS_CardinalityType

\* Pruning removes entries from the left that have expired.
LEMMA PrunedIs ==
  ASSUME NEW q \in Seq(Nat), NEW k \in Nat, NEW window \in Nat
  PROVE  /\ Pruned(q, k, window) \in Seq(Nat) /\ Len(Pruned(q, k, window)) <= Len(q)
         /\ \E d \in 0 .. Len(q) :
              /\ Len(Pruned(q, k, window)) = Len(q) - d
              /\ \A i \in 1 .. Len(q) - d : Pruned(q, k, window)[i] = q[i + d]
              /\ \A i \in 1 .. d : Expired(q[i], k, window)
<1> DEFINE I == {i \in 1 .. Len(q) : ~Expired(q[i], k, window)}
           first == SelectInSeq(q, LAMBDA e : ~Expired(e, k, window))
<1>1. Len(q) \in Nat /\ \A i \in 1 .. Len(q) : q[i] \in Nat
  BY LenProperties, ElementOfSeq
<1>2. first = IF I # {} THEN Min(I) ELSE 0
  BY DEF SelectInSeq
<1>3. Pruned(q, k, window) = IF first = 0 THEN <<>> ELSE SubSeq(q, first, Len(q))
  BY DEF Pruned
<1> HIDE DEF first
<1>4. CASE I = {}
  <2>1. Pruned(q, k, window) = <<>>
    BY <1>2, <1>3, <1>4
  <2>2. \A i \in 1 .. Len(q) : Expired(q[i], k, window)
    BY <1>4
  <2>3. Len(<<>>) = Len(q) - Len(q) /\ Len(q) \in 0 .. Len(q) /\ 1 .. (Len(q) - Len(q)) = {}
    BY <1>1
  <2> QED BY <1>1, <2>1, <2>2, <2>3
<1>5. CASE I # {}
  <2>1. first \in I /\ \A i \in I : first <= i
    <3>1. I \subseteq Nat
      BY <1>1
    <3> HIDE DEF I
    <3> QED BY <1>2, <1>5, <3>1, Least
  <2> DEFINE d == first - 1
             p == SubSeq(q, first, Len(q))
  <2>2. first \in 1 .. Len(q) /\ first \in Nat /\ d \in 0 .. Len(q)
    BY <1>1, <2>1
  <2>3. \A i \in first .. Len(q) : q[i] \in Nat
    BY <1>1, <2>2
  <2>4. /\ p \in Seq(Nat) /\ Len(p) = Len(q) - d
        /\ \A i \in 1 .. Len(q) - first + 1 : p[i] = q[first + i - 1]
    BY <1>1, <2>2, <2>3, SubSeqProperties
  <2>5. \A i \in 1 .. Len(q) - d : p[i] = q[i + d]
    <3>1. Len(q) - d = Len(q) - first + 1 /\ \A i \in Nat : first + i - 1 = i + d
      BY <1>1, <2>2
    <3>2. \A i \in 1 .. Len(q) - d : i \in Nat
      BY <1>1, <2>2
    <3> QED BY <2>4, <3>1, <3>2
  <2>6. \A i \in 1 .. d : Expired(q[i], k, window)
    <3>1. \A i \in 1 .. d : i \in 1 .. Len(q) /\ ~(first <= i)
      BY <1>1, <2>2
    <3> QED BY <2>1, <3>1
  <2>7. Pruned(q, k, window) = p
    <3>1. first # 0
      BY <1>1, <2>2
    <3> QED BY <1>3, <3>1
  <2>8. Len(p) <= Len(q)
    BY <1>1, <2>2, <2>4
  <2> HIDE DEF p, d
  <2> QED BY <2>2, <2>4, <2>5, <2>6, <2>7, <2>8
<1> QED BY <1>4, <1>5

\* So it takes none away that is in the window of a later time.
LEMMA PruneKeeps ==
  ASSUME NEW q \in Seq(Nat), NEW k \in Nat, NEW window \in Nat, NEW m \in Nat, k <= m
  PROVE  Cardinality(Unexpired(Pruned(q, k, window), m, window))
           = Cardinality(Unexpired(q, m, window))
<1> DEFINE p == Pruned(q, k, window)
<1>1. p \in Seq(Nat)
  BY PrunedIs
<1>2. PICK d \in 0 .. Len(q) :
        /\ Len(p) = Len(q) - d
        /\ \A i \in 1 .. Len(q) - d : p[i] = q[i + d]
        /\ \A i \in 1 .. d : Expired(q[i], k, window)
  BY PrunedIs
<1>3. Len(q) \in Nat /\ d \in Nat /\ d <= Len(q) /\ \A i \in 1 .. Len(q) : q[i] \in Nat
  BY LenProperties, ElementOfSeq
<1> HIDE DEF p
<1> DEFINE A == Unexpired(p, m, window)
           B == Unexpired(q, m, window)
           f == [i \in A |-> i + d]
<1>4. \A i \in A : i \in 1 .. Len(q) - d /\ ~Expired(q[i + d], m, window)
  BY <1>2 DEF Unexpired
<1>5. \A i \in A : i \in Nat /\ i + d \in 1 .. Len(q) /\ i + d \in B
  BY <1>3, <1>4 DEF Unexpired
<1>6. \A j \in B : j \in 1 .. Len(q) /\ ~Expired(q[j], m, window)
  BY DEF Unexpired
<1>7. ASSUME NEW j \in B PROVE j - d \in A /\ (j - d) + d = j
  <2>1. j \in 1 .. Len(q) /\ j \in Nat /\ j >= 1
    BY <1>3, <1>6
  <2>2. j > d
    <3>1. CASE j \in 1 .. d
      BY <1>2, <1>3, <1>6, <2>1, <3>1, ExpiredStays
    <3> QED BY <1>3, <2>1, <3>1
  <2>3. j - d \in 1 .. Len(q) - d /\ (j - d) + d = j
    BY <1>3, <2>1, <2>2
  <2>4. p[j - d] = q[j] /\ j - d \in 1 .. Len(p)
    BY <1>2, <2>3
  <2> QED BY <1>6, <2>3, <2>4 DEF Unexpired
<1>8. f \in Bijection(A, B)
  <2>1. f \in [A -> B]
    BY <1>5
  <2>2. \A i, j \in A : f[i] = f[j] => i = j
    BY <1>3, <1>5
  <2>3. \A j \in B : \E i \in A : f[i] = j
    BY <1>7
  <2> HIDE DEF A, B, f
  <2> QED BY <2>1, <2>2, <2>3 DEF Bijection, Injection, Surjection, IsInjective
<1>9. ExistsBijection(A, B) /\ IsFiniteSet(A)
  BY <1>1, <1>8, UnexpiredFinite DEF ExistsBijection
<1> HIDE DEF A, B, f
<1> QED BY <1>9, FS_Bijection DEF A, B, p

\* A new entry is one more in its windows.
LEMMA AppendUnexpired ==
  ASSUME NEW q \in Seq(Nat), NEW n \in Nat, NEW m \in Nat, NEW window \in Nat
  PROVE  Cardinality(Unexpired(Append(q, n), m, window)) =
           Cardinality(Unexpired(q, m, window)) + (IF Expired(n, m, window) THEN 0 ELSE 1)
<1> DEFINE u == Append(q, n)
           l == Len(q)
           A == Unexpired(q, m, window)
<1>1. l \in Nat /\ Len(u) = l + 1 /\ u[l + 1] = n /\ \A i \in 1 .. l : u[i] = q[i]
  BY AppendProperties, LenProperties
<1>2. IsFiniteSet(A) /\ Cardinality(A) \in Nat
  BY UnexpiredFinite
<1>3. A = {i \in 1 .. l : ~Expired(q[i], m, window)} /\ l + 1 \notin A
  BY <1>1 DEF Unexpired
<1>4. Unexpired(u, m, window) = {i \in 1 .. l + 1 : ~Expired(u[i], m, window)}
  BY <1>1 DEF Unexpired
<1>5. 1 .. l + 1 = (1 .. l) \cup {l + 1}
  BY <1>1
<1> HIDE DEF u, l, A
<1>6. CASE Expired(n, m, window)
  <2>1. Unexpired(u, m, window) = A
    BY <1>1, <1>3, <1>4, <1>5, <1>6
  <2> QED BY <1>2, <1>6, <2>1 DEF u, A
<1>7. CASE ~Expired(n, m, window)
  <2>1. Unexpired(u, m, window) = A \cup {l + 1}
    BY <1>1, <1>3, <1>4, <1>5, <1>7
  <2>2. Cardinality(A \cup {l + 1}) = Cardinality(A) + 1
    BY <1>2, <1>3, FS_AddElement
  <2> QED BY <1>7, <2>1, <2>2 DEF u, A
<1> QED BY <1>6, <1>7

\* A number is left for a time that is entered.
LEMMA EnteredIs ==
  ASSUME NEW S, IsFiniteSet(S), NEW n
  PROVE  \E id \in Nat : [time |-> n, id |-> id] \notin S
                         /\ Entered(S, n) = S \cup {[time |-> n, id |-> id]}
<1> DEFINE c == Cardinality(S) + 1
           T == {[time |-> n, id |-> i] : i \in 1 .. c}
           f == [i \in 1 .. c |-> [time |-> n, id |-> i]]
<1>1. Cardinality(S) \in Nat /\ c \in Nat
  BY FS_CardinalityType
<1>2. IsFiniteSet(1 .. c) /\ Cardinality(1 .. c) = c
  BY <1>1, FS_Interval
<1>3. f \in Bijection(1 .. c, T)
  <2>1. f \in [1 .. c -> T]
    OBVIOUS
  <2>2. \A i, j \in 1 .. c : f[i] = f[j] => i = j
    <3>1. \A i \in 1 .. c : f[i].id = i
      OBVIOUS
    <3> HIDE DEF f
    <3> QED BY <3>1
  <2>3. \A x \in T : \E i \in 1 .. c : f[i] = x
    OBVIOUS
  <2> HIDE DEF f, T, c
  <2> QED BY <2>1, <2>2, <2>3 DEF Bijection, Injection, Surjection, IsInjective
<1>4. ExistsBijection(1 .. c, T)
  BY <1>3 DEF ExistsBijection
<1>5. Cardinality(T) = c
  <2> HIDE DEF T, c
  <2> QED BY <1>2, <1>4, FS_Bijection
<1>6. \E i \in 1 .. c : [time |-> n, id |-> i] \notin S
  <2> SUFFICES ASSUME \A i \in 1 .. c : [time |-> n, id |-> i] \in S PROVE FALSE
    OBVIOUS
  <2>1. T \in SUBSET S
    OBVIOUS
  <2> HIDE DEF T
  <2>2. Cardinality(T) <= Cardinality(S)
    BY <2>1, FS_Subset
  <2> QED BY <1>1, <1>5, <2>2
<1> DEFINE id == CHOOSE i \in 1 .. c : [time |-> n, id |-> i] \notin S
<1>7. id \in 1 .. c /\ [time |-> n, id |-> id] \notin S
  BY <1>6
<1>8. Entered(S, n) = S \cup {[time |-> n, id |-> id]}
  BY DEF Entered
<1>9. id \in Nat
  BY <1>1, <1>7
<1> HIDE DEF id
<1> QED BY <1>7, <1>8, <1>9

\* Nothing has been entered.
LEMMA MatchesNone ==
  ASSUME NEW n, NEW window
  PROVE  Matches({}, <<>>, n, window)
<1>1. \A m : InWindow({}, m, window) = {} /\ Unexpired(<<>>, m, window) = {}
  BY DEF InWindow, Unexpired
<1> QED BY <1>1, FS_EmptySet DEF Matches

\* The clock ticks: what expires is taken from the history.
LEMMA MatchesTick ==
  ASSUME NEW S, NEW q, NEW n \in Nat, NEW window \in Nat, Matches(S, q, n, window)
  PROVE  /\ Matches(InWindow(S, n + 1, window), q, n + 1, window)
         /\ Cardinality(InWindow(S, n + 1, window)) <= Cardinality(S)
<1> DEFINE T == InWindow(S, n + 1, window)
<1>1. T \in SUBSET S /\ \A e \in T : e.time \in Nat /\ ~Expired(e.time, n + 1, window)
  BY DEF Matches, InWindow
<1>2. IsFiniteSet(T) /\ Cardinality(T) <= Cardinality(S)
  BY <1>1, FS_Subset DEF Matches
<1>3. ASSUME NEW m \in Nat, m >= n + 1
      PROVE  InWindow(T, m, window) = InWindow(S, m, window)
  <2>1. \A e \in S : ~Expired(e.time, m, window) => ~Expired(e.time, n + 1, window)
    BY <1>3, ExpiredStays DEF Matches
  <2> QED BY <2>1 DEF InWindow
<1>4. \A m \in Nat : m >= n + 1 => m >= n
  OBVIOUS
<1> HIDE DEF T
<1> QED BY <1>1, <1>2, <1>3, <1>4 DEF Matches, T

\* The deque is pruned at a time that was read before.
LEMMA MatchesPrune ==
  ASSUME NEW S, NEW q, NEW n \in Nat, NEW window \in Nat, Matches(S, q, n, window),
         NEW k \in Nat, k <= n
  PROVE  Matches(S, Pruned(q, k, window), n, window)
<1>1. q \in Seq(Nat) /\ Pruned(q, k, window) \in Seq(Nat)
  BY PrunedIs DEF Matches
<1>2. ASSUME NEW m \in Nat, m >= n
      PROVE  Cardinality(Unexpired(Pruned(q, k, window), m, window))
               = Cardinality(Unexpired(q, m, window))
  BY <1>1, <1>2, PruneKeeps
<1> QED BY <1>1, <1>2 DEF Matches

\* A time that was read before enters both.
LEMMA MatchesAdd ==
  ASSUME NEW S, NEW q, NEW n \in Nat, NEW window \in Nat, Matches(S, q, n, window),
         NEW k \in Nat, k <= n
  PROVE  /\ Matches(InWindow(Entered(S, k), n, window), Append(q, k), n, window)
         /\ Cardinality(InWindow(Entered(S, k), n, window)) <= Cardinality(S) + 1
<1> DEFINE T == InWindow(Entered(S, k), n, window)
<1>0. IsFiniteSet(S) /\ q \in Seq(Nat) /\ \A e \in S : e.time \in Nat
  BY DEF Matches
<1>1. PICK id \in Nat : /\ [time |-> k, id |-> id] \notin S
                        /\ Entered(S, k) = S \cup {[time |-> k, id |-> id]}
  BY <1>0, EnteredIs
<1> DEFINE e == [time |-> k, id |-> id]
<1>2. e \notin S /\ Entered(S, k) = S \cup {e} /\ e.time = k
  BY <1>1
<1> HIDE DEF e
<1>3. IsFiniteSet(S \cup {e}) /\ Cardinality(S \cup {e}) = Cardinality(S) + 1
  BY <1>0, <1>2, FS_AddElement
<1>4. T \in SUBSET (S \cup {e})
  BY <1>2 DEF InWindow
<1>5. IsFiniteSet(T) /\ Cardinality(T) <= Cardinality(S) + 1
  BY <1>3, <1>4, FS_Subset
<1>6. \A x \in T : x.time \in Nat /\ ~Expired(x.time, n, window)
  BY <1>0, <1>2 DEF InWindow
<1>7. Append(q, k) \in Seq(Nat)
  BY <1>0, AppendProperties
<1>8. ASSUME NEW m \in Nat, m >= n
      PROVE  Cardinality(InWindow(T, m, window)) = Cardinality(Unexpired(Append(q, k), m, window))
  <2> DEFINE A == InWindow(S, m, window)
  <2>1. \A x \in S \cup {e} : ~Expired(x.time, m, window) => ~Expired(x.time, n, window)
    BY <1>0, <1>2, <1>8, ExpiredStays
  <2>2. InWindow(T, m, window) = {x \in S \cup {e} : ~Expired(x.time, m, window)}
    BY <1>2, <2>1 DEF InWindow
  <2>3. A \in SUBSET S /\ e \notin A /\ A = {x \in S : ~Expired(x.time, m, window)}
    BY <1>2 DEF InWindow
  <2>4. IsFiniteSet(A) /\ Cardinality(A) \in Nat
    BY <1>0, <2>3, FS_Subset, FS_CardinalityType
  <2>5. Cardinality(A) = Cardinality(Unexpired(q, m, window))
    BY <1>8 DEF Matches
  <2> HIDE DEF A
  <2>6. CASE Expired(k, m, window)
    <3>1. InWindow(T, m, window) = A
      BY <1>2, <2>2, <2>3, <2>6
    <3> QED BY <1>0, <2>4, <2>5, <2>6, <3>1, AppendUnexpired
  <2>7. CASE ~Expired(k, m, window)
    <3>1. InWindow(T, m, window) = A \cup {e}
      BY <1>2, <2>2, <2>3, <2>7
    <3>2. Cardinality(A \cup {e}) = Cardinality(A) + 1
      BY <2>3, <2>4, FS_AddElement
    <3> QED BY <1>0, <2>5, <2>7, <3>1, <3>2, AppendUnexpired
  <2> QED BY <2>6, <2>7
<1> HIDE DEF T
<1> QED BY <1>5, <1>6, <1>7, <1>8 DEF Matches, T

\* A history has no more entries than the deque it matches.
LEMMA MatchesBound ==
  ASSUME NEW S, NEW q, NEW n \in Nat, NEW window \in Nat, Matches(S, q, n, window)
  PROVE  Cardinality(S) <= Len(q) /\ Cardinality(S) \in Nat /\ Len(q) \in Nat
<1>1. InWindow(S, n, window) = S
  BY DEF Matches, InWindow
<1>2. n >= n
  OBVIOUS
<1>3. Cardinality(S) = Cardinality(Unexpired(q, n, window)) /\ q \in Seq(Nat)
  BY <1>1, <1>2 DEF Matches
<1> QED BY <1>3, UnexpiredFinite, LenProperties
-----------------------------------------------------------------------------
\* The attempts that have passed is_allowed() and may still fail.
Trying == {t \in Threads : place[t] \in {"verify", "failed"}}

Clocks == clock \in Nat /\ since \in [Threads -> Nat] /\ \A t \in Threads : since[t] <= clock

Windows ==
  /\ Matches(admitted, starts, clock, RequestWindow) /\ Len(starts) <= MaxRequests
  /\ Matches(recent, failures, clock, AttemptWindow)
  /\ Cardinality(recent) + Cardinality(Trying) <= MaxAttempts + MaxConcurrent - 1

\* An attempt that may still fail holds a slot.
LEMMA TryingFinite ==
  ASSUME Counted, SlotsSuffice
  PROVE  /\ IsFiniteSet(Trying) /\ Cardinality(Trying) \in Nat
         /\ Cardinality(Trying) <= MaxConcurrent
<1>1. Trying \in SUBSET Holders
  BY DEF Trying, Holders, Holds
<1>2. IsFiniteSet(Holders) /\ Cardinality(Holders) <= MaxConcurrent /\ Cardinality(Holders) \in Nat
  BY HoldersFinite DEF Counted, LeasesAreCounted, SlotsSuffice
<1>3. /\ IsFiniteSet(Trying) /\ Cardinality(Trying) \in Nat
      /\ Cardinality(Trying) <= Cardinality(Holders)
  BY <1>1, <1>2, FS_Subset, FS_CardinalityType
<1>4. MaxConcurrent \in Nat
  BY SettingAssumption
<1> QED BY <1>2, <1>3, <1>4

\* A clock that was read is never ahead of the clock.
LEMMA ClocksStep == Clocks /\ [LoginNext]_loginVars => Clocks'
BY DEF Clocks, LoginNext, Handle, MoveTo, Arrive, Acquire, Allowed, Authenticate, RecordFailure, Clear,
       Release, ClockTicks, loginVars

\* An attempt that goes on between two places where it is counted alike changes no count.
LEMMA SameTrying ==
  ASSUME Counted, NEW t \in Threads, NEW where, place' = [place EXCEPT ![t] = where],
         place[t] \in {"verify", "failed"} <=> where \in {"verify", "failed"}
  PROVE  Trying' = Trying
BY DEF Counted, Trying

\* Every step keeps the windows: what enters a history enters the deque that bounds it.
LEMMA WindowsStep ==
  ASSUME Counted, SlotsSuffice, Clocks, Windows, [LoginNext]_loginVars PROVE Windows'
<1>0. /\ clock \in Nat /\ \A t \in Threads : \A n \in Readings(t) : n \in Nat /\ n <= clock
      /\ RequestWindow \in Nat /\ AttemptWindow \in Nat /\ MaxRequests \in Nat
      /\ MaxAttempts \in Nat \ {0} /\ MaxConcurrent \in Nat \ {0}
  BY SettingAssumption DEF Clocks, Readings
<1>1. /\ Cardinality(recent) \in Nat /\ IsFiniteSet(Trying) /\ Cardinality(Trying) \in Nat
      /\ Cardinality(Trying) <= MaxConcurrent
  BY <1>0, TryingFinite, MatchesBound DEF Windows
<1>2. Cardinality(Trying') \in Nat /\ Cardinality(Trying') <= MaxConcurrent
  <2>1. Counted' /\ SlotsSuffice'
    BY CountStep
  <2>2. IsFiniteSet(Holders') /\ Cardinality(Holders') <= MaxConcurrent
    <3>1. IsFiniteSet(Holders')
      BY ThreadAssumption, FS_Subset DEF Holders
    <3> QED BY <2>1, <3>1 DEF Counted, LeasesAreCounted, SlotsSuffice
  <2>3. Trying' \in SUBSET Holders'
    BY DEF Trying, Holders, Holds
  <2>4. Cardinality(Trying') \in Nat /\ Cardinality(Trying') <= Cardinality(Holders')
        /\ Cardinality(Holders') \in Nat
    BY <2>2, <2>3, FS_Subset, FS_CardinalityType
  <2> QED BY <1>0, <2>2, <2>4
<1>3. ASSUME UNCHANGED <<clock, memory, history>>, Trying' = Trying PROVE Windows'
  BY <1>3 DEF Windows, memory, history
<1>4. ASSUME NEW t \in Threads, Arrive(t) PROVE Windows'
  <2>1. place[t] = "idle" /\ place' = [place EXCEPT ![t] = "acquire"]
    BY <1>4 DEF Arrive, MoveTo
  <2>2. Trying' = Trying
    BY <2>1, SameTrying
  <2> QED BY <1>3, <1>4, <2>2 DEF Arrive
<1>5. ASSUME NEW t \in Threads, Acquire(t) PROVE Windows'
  <2>1. PICK n \in Readings(t) :
          LET q == Pruned(starts, n, RequestWindow) IN
            \/ /\ Len(q) < MaxRequests /\ SlotFree
               /\ starts' = Append(q, n)
               /\ admitted' = InWindow(Entered(admitted, n), clock, RequestWindow)
               /\ MoveTo(t, "allowed")
            \/ /\ starts' = q
               /\ MoveTo(t, "idle")
               /\ UNCHANGED admitted
    BY <1>5 DEF Acquire
  <2> DEFINE q == Pruned(starts, n, RequestWindow)
  <2>2. n \in Nat /\ n <= clock
    BY <1>0
  <2>3. Matches(admitted, q, clock, RequestWindow)
    BY <1>0, <2>2, MatchesPrune DEF Windows
  <2>4. q \in Seq(Nat) /\ Len(q) \in Nat /\ Len(q) <= Len(starts) /\ Len(starts) \in Nat
    BY <1>0, <2>2, PrunedIs, LenProperties DEF Windows, Matches
  <2>5. Trying' = Trying
    <3>1. place[t] = "acquire" /\ \E where \in {"allowed", "idle"} : place' = [place EXCEPT ![t] = where]
      BY <1>5, <2>1 DEF Acquire, MoveTo
    <3> QED BY <3>1, SameTrying
  <2>6. UNCHANGED <<clock, failures, recent>>
    BY <1>5 DEF Acquire
  <2> HIDE DEF q
  <2>7. CASE /\ Len(q) < MaxRequests /\ starts' = Append(q, n)
             /\ admitted' = InWindow(Entered(admitted, n), clock, RequestWindow)
    <3>1. Matches(admitted', starts', clock, RequestWindow)
      BY <1>0, <2>2, <2>3, <2>7, MatchesAdd
    <3>2. Len(starts') = Len(q) + 1
      BY <2>2, <2>4, <2>7, AppendProperties
    <3>3. Len(starts') <= MaxRequests
      BY <1>0, <2>4, <2>7, <3>2
    <3> QED BY <2>5, <2>6, <3>1, <3>3 DEF Windows
  <2>8. CASE starts' = q /\ UNCHANGED admitted
    <3>1. Len(starts') <= MaxRequests
      BY <1>0, <2>4, <2>8 DEF Windows
    <3> QED BY <2>3, <2>5, <2>6, <2>8, <3>1 DEF Windows
  <2> QED BY <2>1, <2>7, <2>8 DEF q
<1>6. ASSUME NEW t \in Threads, Allowed(t) PROVE Windows'
  <2>1. PICK n \in Readings(t) :
          LET q == Pruned(failures, n, AttemptWindow) IN
            failures' = q /\ MoveTo(t, IF AttemptFits(q) THEN "verify" ELSE "release")
    BY <1>6 DEF Allowed
  <2>2. n \in Nat /\ n <= clock
    BY <1>0
  <2>3. Matches(recent, failures', clock, AttemptWindow)
    BY <1>0, <2>1, <2>2, MatchesPrune DEF Windows
  <2>4. Cardinality(recent) <= Len(failures') /\ Len(failures') \in Nat
    BY <1>0, <2>3, MatchesBound
  <2>5. UNCHANGED <<clock, starts, admitted, recent>> /\ place[t] = "allowed"
    BY <1>6 DEF Allowed, history
  <2>6. Cardinality(recent) + Cardinality(Trying') <= MaxAttempts + MaxConcurrent - 1
    <3>1. CASE AttemptFits(failures')
      <4>1. Len(failures') < MaxAttempts
        BY <3>1 DEF AttemptFits
      <4> QED BY <1>0, <1>1, <1>2, <2>4, <4>1
    <3>2. CASE ~AttemptFits(failures')
      <4>1. place' = [place EXCEPT ![t] = "release"]
        BY <2>1, <3>2 DEF MoveTo
      <4>2. Trying' = Trying
        BY <2>5, <4>1, SameTrying
      <4> QED BY <4>2 DEF Windows
    <3> QED BY <3>1, <3>2
  <2> QED BY <2>3, <2>5, <2>6 DEF Windows
<1>7. ASSUME NEW t \in Threads, Authenticate(t) PROVE Windows'
  <2>1. place[t] = "verify" /\ UNCHANGED <<clock, memory, history>>
        /\ \E where \in {"cleared", "failed"} : place' = [place EXCEPT ![t] = where]
    BY <1>7 DEF Authenticate, MoveTo
  <2>2. CASE place' = [place EXCEPT ![t] = "failed"]
    <3>1. Trying' = Trying
      BY <2>1, <2>2, SameTrying
    <3> QED BY <1>3, <2>1, <3>1
  <2>3. CASE place' = [place EXCEPT ![t] = "cleared"]
    <3>1. Trying' \in SUBSET Trying
      BY <2>3 DEF Counted, Trying
    <3>2. Cardinality(Trying') <= Cardinality(Trying)
      BY <1>1, <3>1, FS_Subset
    <3>3. Cardinality(recent) + Cardinality(Trying') <= MaxAttempts + MaxConcurrent - 1
      BY <1>0, <1>1, <1>2, <3>2 DEF Windows
    <3> QED BY <2>1, <3>3 DEF Windows, memory, history
  <2> QED BY <2>1, <2>2, <2>3
<1>8. ASSUME NEW t \in Threads, RecordFailure(t) PROVE Windows'
  <2>1. PICK n \in Readings(t) :
          /\ failures' = Append(Pruned(failures, n, AttemptWindow), n)
          /\ recent' = InWindow(Entered(recent, n), clock, AttemptWindow)
    BY <1>8 DEF RecordFailure
  <2> DEFINE q == Pruned(failures, n, AttemptWindow)
  <2>2. n \in Nat /\ n <= clock
    BY <1>0
  <2>3. Matches(recent, q, clock, AttemptWindow)
    BY <1>0, <2>2, MatchesPrune DEF Windows
  <2>4. /\ Matches(recent', failures', clock, AttemptWindow)
        /\ Cardinality(recent') <= Cardinality(recent) + 1
    <3> HIDE DEF q
    <3>1. failures' = Append(q, n)
      BY <2>1 DEF q
    <3> QED BY <1>0, <2>1, <2>2, <2>3, <3>1, MatchesAdd
  <2>5. place[t] = "failed" /\ place' = [place EXCEPT ![t] = "release"] /\ UNCHANGED <<clock, starts, admitted>>
    BY <1>8 DEF RecordFailure, MoveTo
  <2>6. Trying' = Trying \ {t} /\ t \in Trying
    BY <2>5 DEF Counted, Trying
  <2>7. Cardinality(Trying') = Cardinality(Trying) - 1
    BY <1>1, <2>6, FS_RemoveElement
  <2>8. Cardinality(recent') \in Nat
    BY <1>0, <2>4, MatchesBound
  <2>9. Cardinality(recent') + Cardinality(Trying') <= MaxAttempts + MaxConcurrent - 1
    BY <1>0, <1>1, <1>2, <2>4, <2>7, <2>8 DEF Windows
  <2> QED BY <2>4, <2>5, <2>9 DEF Windows
<1>9. ASSUME NEW t \in Threads, Clear(t) PROVE Windows'
  <2>1. /\ failures' = <<>> /\ recent' = {} /\ UNCHANGED <<clock, starts, admitted>>
    BY <1>9 DEF Clear
  <2>2. Matches(recent', failures', clock, AttemptWindow)
    BY <2>1, MatchesNone
  <2>3. Cardinality(recent') = 0
    BY <2>1, FS_EmptySet
  <2>4. Cardinality(recent') + Cardinality(Trying') <= MaxAttempts + MaxConcurrent - 1
    BY <1>0, <1>2, <2>3
  <2> QED BY <2>1, <2>2, <2>4 DEF Windows
<1>10. ASSUME NEW t \in Threads, Release(t) PROVE Windows'
  <2>1. place[t] = "release" /\ place' = [place EXCEPT ![t] = "idle"]
    BY <1>10 DEF Release, MoveTo
  <2>2. Trying' = Trying
    BY <2>1, SameTrying
  <2> QED BY <1>10, <2>2 DEF Release, Windows, history
<1>11. CASE ClockTicks
  <2>1. /\ clock' = clock + 1 /\ UNCHANGED <<memory, place>>
        /\ admitted' = InWindow(admitted, clock + 1, RequestWindow)
        /\ recent' = InWindow(recent, clock + 1, AttemptWindow)
    BY <1>11 DEF ClockTicks
  <2>2. /\ Matches(admitted', starts, clock + 1, RequestWindow)
        /\ Matches(recent', failures, clock + 1, AttemptWindow)
        /\ Cardinality(recent') <= Cardinality(recent)
    BY <1>0, <2>1, MatchesTick DEF Windows
  <2>3. Cardinality(recent') \in Nat
    BY <2>2, FS_CardinalityType DEF Matches
  <2>4. Trying' = Trying
    BY <2>1 DEF Trying
  <2>5. Cardinality(recent') + Cardinality(Trying') <= MaxAttempts + MaxConcurrent - 1
    BY <1>0, <1>1, <2>2, <2>3, <2>4 DEF Windows
  <2> QED BY <2>1, <2>2, <2>5 DEF Windows, memory
<1>12. CASE UNCHANGED loginVars
  BY <1>3, <1>12 DEF loginVars, memory, history, Trying
<1> QED BY <1>4, <1>5, <1>6, <1>7, <1>8, <1>9, <1>10, <1>11, <1>12 DEF LoginNext, Handle

\* The windows hold in every reachable state.
LEMMA WindowsHold == LoginSpec => [](Counted /\ SlotsSuffice /\ Clocks /\ Windows)
<1>1. LoginInit => Clocks
  BY DEF LoginInit, Clocks
<1>2. LoginInit => Windows
  <2> SUFFICES ASSUME LoginInit PROVE Windows
    OBVIOUS
  <2>1. /\ Matches(admitted, starts, clock, RequestWindow)
        /\ Matches(recent, failures, clock, AttemptWindow)
    BY MatchesNone DEF LoginInit
  <2>2. Cardinality(recent) = 0 /\ Cardinality(Trying) = 0
    <3>1. recent = {} /\ Trying = {}
      BY DEF LoginInit, Trying
    <3> QED BY <3>1, FS_EmptySet
  <2>3. Len(starts) <= MaxRequests
    BY SettingAssumption DEF LoginInit
  <2> QED BY <2>1, <2>2, <2>3, SettingAssumption DEF Windows
<1>3. Counted /\ SlotsSuffice /\ Clocks /\ Windows /\ [LoginNext]_loginVars
        => Counted' /\ SlotsSuffice' /\ Clocks' /\ Windows'
  BY CountStep, ClocksStep, WindowsStep
<1> QED BY CountInit, <1>1, <1>2, <1>3, PTL DEF LoginSpec

\* In the window that ends now no more attempts were admitted than login_rate_limit,
\* although clocks read before the lock put the deque out of order.
THEOREM RateHolds == LoginSpec => []RateIsBounded
<1>1. Clocks /\ Windows => RateIsBounded
  <2> SUFFICES ASSUME Clocks, Windows PROVE RateIsBounded
    OBVIOUS
  <2>1. MaxRequests \in Nat /\ RequestWindow \in Nat
    BY SettingAssumption
  <2>2. Cardinality(admitted) <= Len(starts) /\ Cardinality(admitted) \in Nat /\ Len(starts) \in Nat
    BY <2>1, MatchesBound DEF Clocks, Windows
  <2> QED BY <2>1, <2>2 DEF Windows, RateIsBounded
<1> QED BY WindowsHold, <1>1, PTL

\* The wrong passwords of a window are no more than auth_login_max_attempts and the
\* slots but one, since the last success: that many attempts pass is_allowed() before
\* any of them has failed, and no more.
THEOREM FailuresHold == LoginSpec => []FailuresAreBounded
<1>1. Counted /\ SlotsSuffice /\ Clocks /\ Windows => FailuresAreBounded
  <2> SUFFICES ASSUME Counted, SlotsSuffice, Clocks, Windows PROVE FailuresAreBounded
    OBVIOUS
  <2>1. MaxAttempts \in Nat /\ MaxConcurrent \in Nat /\ AttemptWindow \in Nat
    BY SettingAssumption
  <2>2. Cardinality(recent) \in Nat /\ Cardinality(Trying) \in Nat
    BY <2>1, MatchesBound, TryingFinite DEF Clocks, Windows
  <2> QED BY <2>1, <2>2 DEF Windows, FailuresAreBounded
<1> QED BY WindowsHold, <1>1, PTL
=============================================================================
