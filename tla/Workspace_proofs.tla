--------------------------- MODULE Workspace_proofs ---------------------------
(***************************************************************************)
(* Proofs about the two ends of the system: the pages of Workspace and the *)
(* commands of Deployment.                                                 *)
(*                                                                         *)
(* For any tabs, logins and pages: a tab never mixes two users, and the    *)
(* figures it shows include every change that was answered before.         *)
(*                                                                         *)
(* For any seeds, stops and bounds: the demo data are there once, and the  *)
(* smoke check says what is.  DemoInv says what a seed knows of the demo   *)
(* data: either it found no event and inserts them all, alone, or it found *)
(* them and inserts at most the rule, after a renaming, and a link.        *)
(***************************************************************************)
EXTENDS Workspace, Deployment, FiniteSetTheorems, TLAPS

Places == {"rest", "start", "render", "fetch", "clear", "message", "go on"}
States ==
  [token : Logins \cup {None}, client : Logins \cup {None}, user : Logins \cup {None},
   page : Pages, open : SUBSET {"case", "alert"}, kept : SUBSET Logins, at : Places,
   since : Nat, dropped : BOOLEAN, shows : Pages \cup {"login", "error"},
   figures : Nat, due : Nat]

\* A tab without a token waits for one, and all its session state is that of its token.
OfOneUser(r) ==
  /\ r.client \in {None, r.token} /\ r.user \in {None, r.token} /\ r.kept \subseteq {r.token}
  /\ r.token = None => r.shows = "login" /\ r.at \in {"rest", "start"}

\* What a tab is due was answered before e, and what it shows or loads is not older; d is
\* the number of changes.
Timely(r, e, d) ==
  /\ r.due <= e
  /\ r.at \in {"clear", "message", "go on"} => r.since <= d
  /\ r.at = "fetch" => r.due <= r.since /\ r.since <= d
  /\ r.at = "rest" /\ r.shows \in FigurePages => r.due <= r.figures

\* Figures that may be stored are not older than e.
Storable(r, e) == r.at = "fetch" /\ ~r.dropped => e <= r.since

\* Nothing older than the latest answered change is in the cache.
CacheIsCurrent ==
  /\ cache \in [FigurePages -> Nat \cup {None}]
  /\ \A p \in FigurePages : cache[p] # None => cache[p] \in Nat /\ ended <= cache[p]

IInv == /\ data \in Nat /\ ended \in Nat /\ ended <= data
        /\ CacheIsCurrent
        /\ tab \in [Tabs -> States]
        /\ \A t \in Tabs : /\ OfOneUser(tab[t])
                         /\ Timely(tab[t], ended, data) /\ Storable(tab[t], ended)
-----------------------------------------------------------------------------
\* A new session state.
LEMMA FreshState ==
  /\ Fresh \in States /\ Fresh.token = None /\ Fresh.client = None /\ Fresh.user = None
  /\ Fresh.kept = {} /\ Fresh.at = "rest" /\ Fresh.shows = "login" /\ Fresh.figures = 0
  /\ Fresh.due = 0
BY DEF Fresh, States, Places, Pages

\* A tab that has been emptied, and may have signed in again.
LEMMA NewState ==
  ASSUME NEW l \in Logins \cup {None}, NEW w \in {"rest", "start"}, NEW r,
         r = [Fresh EXCEPT !.token = l, !.user = l, !.at = w],
         NEW e \in Nat, NEW d \in Nat
  PROVE  r \in States /\ OfOneUser(r) /\ Timely(r, e, d) /\ Storable(r, e)
<1>1. r \in States
  BY FreshState DEF States, Places
<1>2. /\ r.token = l /\ r.user = l /\ r.at = w /\ r.client = None /\ r.kept = {}
      /\ r.shows = "login" /\ r.figures = 0 /\ r.due = 0
  BY FreshState DEF States
<1>3. OfOneUser(r)
  BY <1>2 DEF OfOneUser
<1>4. Timely(r, e, d)
  <2>1. 0 <= e /\ 0 <= 0
    OBVIOUS
  <2>2. r.at \notin {"clear", "message", "go on", "fetch"}
    BY <1>2
  <2> QED BY <1>2, <2>1, <2>2, Zenon DEF Timely
<1>5. Storable(r, e)
  BY <1>2 DEF Storable
<1> QED BY <1>1, <1>3, <1>4, <1>5

\* A tab that has been emptied, with a script that is over or begins.
LEMMA Emptied ==
  ASSUME NEW r, r \in {Fresh, [Fresh EXCEPT !.at = "start"]}, NEW e \in Nat, NEW d \in Nat
  PROVE  r \in States /\ OfOneUser(r) /\ Timely(r, e, d) /\ Storable(r, e)
<1>1. r \in States
  BY FreshState DEF States, Places
<1>2. /\ r.token = None /\ r.user = None /\ r.at \in {"rest", "start"} /\ r.client = None
      /\ r.kept = {} /\ r.shows = "login" /\ r.figures = 0 /\ r.due = 0
  BY FreshState DEF States
<1>3. OfOneUser(r)
  BY <1>2 DEF OfOneUser
<1>4. Timely(r, e, d)
  <2>1. 0 <= e /\ 0 <= 0
    OBVIOUS
  <2>2. r.at \notin {"clear", "message", "go on", "fetch"}
    BY <1>2
  <2> QED BY <1>2, <2>1, <2>2, Zenon DEF Timely
<1>5. Storable(r, e)
  BY <1>2 DEF Storable
<1> QED BY <1>1, <1>3, <1>4, <1>5

\* The invariant holds before the first click.
LEMMA InitHolds == Init => IInv
<1> SUFFICES ASSUME Init PROVE IInv
  OBVIOUS
<1>1. CacheIsCurrent
  BY DEF Init, CacheIsCurrent
<1>2. Fresh \in States /\ OfOneUser(Fresh) /\ Timely(Fresh, 0, 0) /\ Storable(Fresh, 0)
  BY Emptied
<1> QED BY <1>1, <1>2 DEF Init, IInv

\* A step of one tab that leaves the latest answered change alone.
LEMMA OneTab ==
  ASSUME IInv, NEW t \in Tabs, NEW r \in States, Put(t, r),
         OfOneUser(r), Timely(r, ended, data'), Storable(r, ended),
         ended' = ended, data' \in Nat, data <= data', CacheIsCurrent'
  PROVE  IInv'
<1>1. tab' \in [Tabs -> States] /\ tab'[t] = r /\ \A u \in Tabs \ {t} : tab'[u] = tab[u]
  BY DEF IInv, Put
<1>2. ASSUME NEW u \in Tabs
      PROVE  OfOneUser(tab'[u]) /\ Timely(tab'[u], ended', data') /\ Storable(tab'[u], ended')
  <2>1. CASE u = t
    BY <1>1, <2>1
  <2>2. CASE u # t
    <3>1. /\ tab'[u] = tab[u] /\ tab[u] \in States /\ OfOneUser(tab[u])
          /\ Timely(tab[u], ended, data) /\ Storable(tab[u], ended)
      BY <1>1, <2>2 DEF IInv
    <3>2. tab[u].since <= data => tab[u].since <= data'
      BY <3>1 DEF States, IInv
    <3>3. Timely(tab[u], ended, data')
      BY <3>1, <3>2, Zenon DEF Timely
    <3> QED BY <3>1, <3>3
  <2> QED BY <2>1, <2>2
<1>3. ended' \in Nat /\ ended' <= data'
  BY DEF IInv
<1> QED BY <1>1, <1>2, <1>3 DEF IInv

\* The same for a step that changes nothing but the tab and the sessions.
LEMMA OnlyTab ==
  ASSUME IInv, NEW t \in Tabs, NEW r \in States, Put(t, r),
         OfOneUser(r), Timely(r, ended, data), Storable(r, ended),
         UNCHANGED <<data, cache, ended>>
  PROVE  IInv'
<1>1. CacheIsCurrent' /\ data' \in Nat /\ data <= data' /\ ended' = ended
  BY DEF IInv, CacheIsCurrent
<1>2. Timely(r, ended, data')
  OBVIOUS
<1> QED BY <1>1, <1>2, OneTab

\* The client of a tab carries its token.
LEMMA ClientIsToken ==
  ASSUME IInv, NEW t \in Tabs
  PROVE  get_client(t) = tab[t].token
BY DEF IInv, OfOneUser, get_client

\* Signing in, being sent away and leaving empty the tab, or keep all of it.
LEMMA SessionStep ==
  ASSUME IInv, NEW t \in Tabs, Session(t)
  PROVE  IInv'
<1>0. /\ tab[t] \in States /\ OfOneUser(tab[t]) /\ Timely(tab[t], ended, data)
      /\ ended \in Nat /\ data \in Nat
  BY DEF IInv
<1>1. CASE render_error_401(t) \/ logout(t)
  <2>1. Put(t, [Fresh EXCEPT !.at = "start"]) /\ UNCHANGED <<data, cache, ended>>
    BY <1>1 DEF render_error_401, logout, clear_authenticated_session
  <2> QED BY <1>0, <2>1, Emptied, OnlyTab
<1>2. CASE render_login(t)
  <2>1. PICK l \in Logins : Put(t, [Fresh EXCEPT !.token = l, !.user = l, !.at = "start"])
    BY <1>2 DEF render_login, establish_authenticated_session, clear_authenticated_session
  <2> DEFINE r == [Fresh EXCEPT !.token = l, !.user = l, !.at = "start"]
  <2>2. r \in States /\ OfOneUser(r) /\ Timely(r, ended, data) /\ Storable(r, ended)
    BY <1>0, NewState
  <2>3. UNCHANGED <<data, cache, ended>>
    BY <1>2 DEF render_login
  <2>4. Put(t, r)
    BY <2>1
  <2> HIDE DEF r
  <2> QED BY <2>2, <2>3, <2>4, OnlyTab
<1>3. CASE validate_authenticated_session(t)
  <2> DEFINE r == [tab[t] EXCEPT !.at = "rest"]
             q == [tab[t] EXCEPT !.client = get_client(t), !.at = "rest", !.shows = "login",
                                 !.figures = 0, !.due = 0]
  <2>0. UNCHANGED <<data, cache, ended>>
    BY <1>3 DEF validate_authenticated_session
  <2>1. CASE tab[t].token = None /\ Put(t, r)
    <3>1. r \in States
      BY <1>0 DEF States, Places
    <3>2. /\ r.token = None /\ r.client = tab[t].client /\ r.user = tab[t].user
          /\ r.kept = tab[t].kept /\ r.at = "rest" /\ r.shows = "login"
          /\ r.due = tab[t].due /\ r.figures = tab[t].figures
      BY <1>0, <2>1 DEF States, OfOneUser
    <3> HIDE DEF r
    <3>3. OfOneUser(r)
      BY <1>0, <2>1, <3>2 DEF OfOneUser
    <3>4. Timely(r, ended, data) /\ Storable(r, ended)
      BY <1>0, <3>2 DEF Timely, Storable, FigurePages
    <3> QED BY <2>0, <2>1, <3>1, <3>3, <3>4, OnlyTab
  <2>2. CASE Put(t, clear_authenticated_session(t))
    BY <1>0, <2>0, <2>2, Emptied, OnlyTab DEF clear_authenticated_session
  <2>3. CASE Put(t, q)
    <3>1. q \in States
      BY <1>0, ClientIsToken DEF States, Places
    <3>2. /\ q.token = tab[t].token /\ q.client = tab[t].token /\ q.user = tab[t].user
          /\ q.kept = tab[t].kept /\ q.at = "rest" /\ q.shows = "login" /\ q.due = 0
      BY <1>0, ClientIsToken DEF States
    <3> HIDE DEF q
    <3>3. OfOneUser(q)
      BY <1>0, <3>2 DEF OfOneUser
    <3>4. q.due <= ended /\ q.shows \notin FigurePages
      BY <1>0, <3>2 DEF FigurePages
    <3>5. Timely(q, ended, data) /\ Storable(q, ended)
      BY <3>2, <3>4, Zenon DEF Timely, Storable
    <3> QED BY <2>0, <2>3, <3>1, <3>3, <3>5, OnlyTab
  <2> QED BY <1>3, <2>1, <2>2, <2>3 DEF validate_authenticated_session
<1>4. CASE Reload(t)
  <2>1. Put(t, Fresh) /\ UNCHANGED <<data, cache, ended>>
    BY <1>4 DEF Reload
  <2> QED BY <1>0, <2>1, Emptied, OnlyTab
<1> QED BY <1>1, <1>2, <1>3, <1>4 DEF Session
-----------------------------------------------------------------------------
\* A tab that goes on under its token.
LEMMA SameUser ==
  ASSUME IInv, NEW t \in Tabs, tab[t].token # None, NEW r, r.token = tab[t].token,
         r.client = tab[t].token \/ r.client = tab[t].client,
         r.user = tab[t].token \/ r.user = tab[t].user,
         r.kept = Kept(t) \/ r.kept = tab[t].kept
  PROVE  OfOneUser(r)
<1>1. OfOneUser(tab[t])
  BY DEF IInv
<1> QED BY <1>1 DEF OfOneUser, Kept

\* Three facts of arithmetic, for leaves that are otherwise about records.
LEMMA NotNegative == \A n \in Nat : 0 <= n
OBVIOUS

\* What comes of a click: what was due has been shown, or is left out.
LEMMA Clicks ==
  ASSUME IInv, NEW t \in Tabs, tab[t].token # None, NEW r \in States,
         r.token = tab[t].token, r.client = tab[t].token, r.user = tab[t].token,
         r.kept = Kept(t), r.due = 0, NEW d \in Nat,
         r.at \in {"rest", "start"} \/ (r.at \in {"clear", "message", "go on"} /\ r.since <= d)
  PROVE  OfOneUser(r) /\ Timely(r, ended, d) /\ Storable(r, ended)
<1>1. OfOneUser(r)
  BY SameUser
<1>2. r.due <= ended /\ r.due <= r.figures
  <2>1. ended \in Nat
    BY DEF IInv
  <2>2. r.figures \in Nat
    BY DEF States
  <2>3. 0 <= ended /\ 0 <= r.figures
    BY <2>1, <2>2, NotNegative, Zenon
  <2> QED BY <2>3, Zenon
<1>3. r.at # "fetch"
  OBVIOUS
<1>4. r.at \in {"clear", "message", "go on"} => r.since <= d
  OBVIOUS
<1> QED BY <1>1, <1>2, <1>3, <1>4, Zenon DEF Timely, Storable

\* The tab after a click, as the pages build it.
LEMMA AtState ==
  ASSUME IInv, NEW t \in Tabs, tab[t].token # None, NEW where \in Places
  PROVE  /\ At(t, where) \in States
         /\ At(t, where).token = tab[t].token /\ At(t, where).client = tab[t].token
         /\ At(t, where).user = tab[t].token /\ At(t, where).kept = Kept(t)
         /\ At(t, where).due = 0 /\ At(t, where).at = where
         /\ At(t, where).open = tab[t].open
<1>1. tab[t] \in States /\ ended \in Nat
  BY DEF IInv
<1>2. Kept(t) \in SUBSET Logins
  BY <1>1 DEF Kept, States
<1>3. Known(t) \in States /\ Known(t).token = tab[t].token /\ Known(t).open = tab[t].open
      /\ Known(t).client = tab[t].token /\ Known(t).user = tab[t].token
  BY <1>1, ClientIsToken DEF Known, States
<1> QED BY <1>2, <1>3 DEF At, States

\* A button that only the session state remembers.
LEMMA RememberStep ==
  ASSUME IInv, NEW t \in Tabs,
         \/ open_alert(t) \/ open_case(t) \/ request_triage(t) \/ draft_report(t)
         \/ go_back(t, "case", "Cases") \/ go_back(t, "alert", "Investigations")
  PROVE  IInv'
<1>1. /\ tab[t].token # None /\ UNCHANGED <<data, cache, ended>>
      /\ tab[t] \in States /\ data \in Nat
  BY DEF open_alert, open_case, request_triage, draft_report, go_back, Remember, Clicked,
         Validated, Runs, IInv
<1>2. PICK where \in {"rest", "start"}, o \in SUBSET {"case", "alert"} :
        Put(t, At(t, where)) \/ Put(t, [At(t, where) EXCEPT !.open = o])
  <2>1. tab[t].open \in SUBSET {"case", "alert"} /\ "rest" \in Places /\ "start" \in Places
    BY <1>1 DEF States, Places
  <2>2. CASE open_alert(t)
    BY <1>1, <2>1, <2>2, AtState DEF open_alert, Remember
  <2>3. CASE open_case(t)
    BY <1>1, <2>1, <2>3, AtState DEF open_case, Remember
  <2>4. CASE go_back(t, "case", "Cases")
    BY <1>1, <2>1, <2>4, AtState DEF go_back, Remember
  <2>5. CASE go_back(t, "alert", "Investigations")
    BY <1>1, <2>1, <2>5, AtState DEF go_back, Remember
  <2>6. CASE request_triage(t)
    BY <2>1, <2>6 DEF request_triage, Remember
  <2>7. CASE draft_report(t)
    BY <2>1, <2>7 DEF draft_report, Remember
  <2> QED BY <2>2, <2>3, <2>4, <2>5, <2>6, <2>7
<1> DEFINE a == At(t, where)
<1>3. Put(t, a) \/ Put(t, [a EXCEPT !.open = o])
  BY <1>2
<1>4. /\ a \in States /\ a.token = tab[t].token /\ a.client = tab[t].token
      /\ a.user = tab[t].token /\ a.kept = Kept(t) /\ a.due = 0 /\ a.at = where
  <2>1. where \in Places
    BY DEF Places
  <2> QED BY <1>1, <2>1, AtState
<1> HIDE DEF a
<1>5. PICK r : Put(t, r) /\ (r = a \/ r = [a EXCEPT !.open = o])
  BY <1>3
<1>6. /\ r \in States /\ r.token = tab[t].token /\ r.client = tab[t].token
      /\ r.user = tab[t].token /\ r.kept = Kept(t) /\ r.due = 0 /\ r.at = where
  <2>1. CASE r = a
    BY <1>4, <2>1
  <2>2. CASE r = [a EXCEPT !.open = o]
    BY <1>4, <2>2 DEF States
  <2> QED BY <1>5, <2>1, <2>2
<1>7. OfOneUser(r) /\ Timely(r, ended, data) /\ Storable(r, ended)
  BY <1>1, <1>6, Clicks
<1> QED BY <1>1, <1>5, <1>6, <1>7, OnlyTab
-----------------------------------------------------------------------------
\* A run of the script that renders a page is due what has been answered by now.
LEMMA NavigationStep ==
  ASSUME IInv, NEW t \in Tabs, render_sidebar_navigation(t)
  PROVE  IInv'
<1>1. /\ tab[t].token # None /\ UNCHANGED <<data, cache, ended>>
      /\ tab[t] \in States /\ data \in Nat /\ ended \in Nat
  BY DEF render_sidebar_navigation, Validated, Runs, IInv
<1>2. PICK page \in Pages :
        Put(t, [Known(t) EXCEPT !.page = page, !.kept = Kept(t), !.at = "render",
                                !.shows = page, !.figures = 0])
  <2>1. tab[t].page \in Pages /\ "Dashboard" \in Pages
    BY <1>1 DEF States, Pages
  <2>2. Visits[t] \subseteq Pages
    BY VisitAssumption
  <2> QED BY <2>1, <2>2 DEF render_sidebar_navigation
<1> DEFINE k == Known(t)
           q == Kept(t)
           r == [k EXCEPT !.page = page, !.kept = q, !.at = "render", !.shows = page,
                          !.figures = 0]
<1>3. k \in States /\ k.token = tab[t].token /\ k.client = tab[t].token
      /\ k.user = tab[t].token /\ k.due = ended
  BY <1>1, ClientIsToken DEF Known, States
<1>4. q \in SUBSET Logins
  BY <1>1 DEF Kept, States
<1>5. q = Kept(t) /\ Put(t, r)
  BY <1>2
<1> HIDE DEF k, q
<1>6. r \in States /\ r.token = tab[t].token /\ r.client = tab[t].token
      /\ r.user = tab[t].token /\ r.kept = q /\ r.at = "render" /\ r.due = ended
  BY <1>3, <1>4 DEF States, Places
<1> HIDE DEF r
<1>7. OfOneUser(r)
  BY <1>1, <1>5, <1>6, SameUser
<1>8. ended <= ended
  BY <1>1
<1>9. Timely(r, ended, data) /\ Storable(r, ended)
  BY <1>6, <1>8, Zenon DEF Timely, Storable
<1> QED BY <1>1, <1>5, <1>6, <1>7, <1>9, OnlyTab

\* A page is complete: without figures, or with figures that are not older than what
\* was due.
LEMMA Completed ==
  ASSUME IInv, NEW t \in Tabs, tab[t].token # None, NEW r \in States,
         r.token = tab[t].token, r.client = tab[t].client, r.user = tab[t].user,
         r.kept = tab[t].kept, r.at = "rest",
         r.due = 0 \/ (r.due = tab[t].due /\ r.due <= r.figures)
  PROVE  OfOneUser(r) /\ Timely(r, ended, data) /\ Storable(r, ended)
<1>1. OfOneUser(r)
  BY SameUser
<1>2. ended \in Nat /\ tab[t].due <= ended
  BY DEF IInv, Timely
<1>3. r.figures \in Nat
  BY DEF States
<1>4. r.due <= ended /\ r.due <= r.figures
  BY <1>2, <1>3, NotNegative, Zenon
<1> QED BY <1>1, <1>4, Zenon DEF Timely, Storable

\* A page without figures, or with an error in their place.
LEMMA RenderStep ==
  ASSUME IInv, NEW t \in Tabs, render_page(t) \/ render_error(t)
  PROVE  IInv'
<1>1. /\ tab[t] \in States /\ UNCHANGED <<data, cache, ended>> /\ tab[t].token # None
  BY DEF render_page, render_error, IInv, OfOneUser
<1> DEFINE k == tab[t]
           p == Rest([k EXCEPT !.due = 0])
           e == Rest([k EXCEPT !.due = 0, !.shows = "error", !.figures = 0])
<1>2. k \in States /\ k = tab[t] /\ (Put(t, p) \/ Put(t, e))
  BY <1>1 DEF render_page, render_error
<1> HIDE DEF k
<1>3. /\ p \in States /\ p.token = k.token /\ p.client = k.client /\ p.user = k.user
      /\ p.kept = k.kept /\ p.at = "rest" /\ p.due = 0
  BY <1>2 DEF Rest, States, Places
<1>4. /\ e \in States /\ e.token = k.token /\ e.client = k.client /\ e.user = k.user
      /\ e.kept = k.kept /\ e.at = "rest" /\ e.due = 0
  BY <1>2 DEF Rest, States, Places
<1> HIDE DEF p, e
<1>5. OfOneUser(p) /\ Timely(p, ended, data) /\ Storable(p, ended)
  BY <1>1, <1>2, <1>3, Completed
<1>6. OfOneUser(e) /\ Timely(e, ended, data) /\ Storable(e, ended)
  BY <1>1, <1>2, <1>4, Completed
<1> QED BY <1>1, <1>2, <1>3, <1>4, <1>5, <1>6, OnlyTab

\* What is shown keeps the tab as it is but for the figures.
LEMMA ShownState ==
  ASSUME IInv, NEW t \in Tabs, tab[t].token # None, NEW v \in Nat, tab[t].due <= v
  PROVE  /\ Shown(t, v) \in States /\ OfOneUser(Shown(t, v))
         /\ Timely(Shown(t, v), ended, data) /\ Storable(Shown(t, v), ended)
<1> DEFINE k == tab[t]
           r == Rest([k EXCEPT !.figures = v])
<1>1. k \in States /\ k = tab[t] /\ r = Shown(t, v)
  BY DEF IInv, Shown
<1> HIDE DEF k
<1>2. /\ r \in States /\ r.token = k.token /\ r.client = k.client /\ r.user = k.user
      /\ r.kept = k.kept /\ r.at = "rest" /\ r.due = k.due /\ r.figures = v
  BY <1>1 DEF Rest, States, Places
<1> HIDE DEF r
<1>3. OfOneUser(r) /\ Timely(r, ended, data) /\ Storable(r, ended)
  <2>1. r.due = tab[t].due /\ r.due <= r.figures
    BY <1>1, <1>2
  <2> QED BY <1>1, <1>2, <2>1, Completed
<1> QED BY <1>1, <1>2, <1>3

\* What is older than something older is older still.
LEMMA Transitive == \A a, b, c \in Nat : a <= b /\ b <= c => a <= c
OBVIOUS

\* Figures come from the cache, which is current, or are asked for.
LEMMA LoadStep ==
  ASSUME IInv, NEW t \in Tabs, LoadFigures(t)
  PROVE  IInv'
<1>1. /\ tab[t] \in States /\ UNCHANGED <<data, cache, ended>> /\ tab[t].token # None
      /\ tab[t].due \in Nat /\ ended \in Nat /\ data \in Nat
      /\ tab[t].due <= ended /\ ended <= data
  BY DEF LoadFigures, IInv, OfOneUser, Timely, States
<1>2. CASE cache[tab[t].page] # None /\ Put(t, Shown(t, cache[tab[t].page]))
  <2> DEFINE v == cache[tab[t].page]
  <2>1. v \in Nat /\ ended <= v
    BY <1>2 DEF LoadFigures, IInv, CacheIsCurrent
  <2>2. tab[t].due <= v
    BY <1>1, <2>1, Transitive, Zenon
  <2>3. Put(t, Shown(t, v))
    BY <1>2
  <2> HIDE DEF v
  <2>4. /\ Shown(t, v) \in States /\ OfOneUser(Shown(t, v))
        /\ Timely(Shown(t, v), ended, data) /\ Storable(Shown(t, v), ended)
    BY <1>1, <2>1, <2>2, ShownState
  <2> QED BY <1>1, <2>3, <2>4, OnlyTab
<1>3. CASE Put(t, [tab[t] EXCEPT !.at = "fetch", !.since = data])
  <2> DEFINE k == tab[t]
             r == [k EXCEPT !.at = "fetch", !.since = data]
  <2>1. k \in States /\ k = tab[t] /\ Put(t, r)
    BY <1>1, <1>3
  <2> HIDE DEF k
  <2>2. /\ r \in States /\ r.token = k.token /\ r.client = k.client /\ r.user = k.user
        /\ r.kept = k.kept /\ r.at = "fetch" /\ r.due = k.due /\ r.since = data
    BY <1>1, <2>1 DEF States, Places
  <2> HIDE DEF r
  <2>3. OfOneUser(r)
    BY <1>1, <2>1, <2>2, SameUser
  <2>4. r.due <= data /\ data <= data /\ r.due <= ended
    <3>1. tab[t].due <= data /\ data <= data
      BY <1>1, Transitive
    <3> QED BY <1>1, <2>1, <2>2, <3>1
  <2>5. Timely(r, ended, data) /\ Storable(r, ended)
    BY <1>1, <2>2, <2>4, Zenon DEF Timely, Storable
  <2> QED BY <1>1, <2>1, <2>2, <2>3, <2>5, OnlyTab
<1> QED BY <1>2, <1>3 DEF LoadFigures

\* Figures that arrive are stored unless the cache was cleared after they were asked for.
LEMMA ArriveStep ==
  ASSUME IInv, NEW t \in Tabs, FiguresArrive(t)
  PROVE  IInv'
<1>1. /\ tab[t] \in States /\ UNCHANGED <<data, ended>> /\ tab[t].token # None
      /\ tab[t].due \in Nat /\ ended \in Nat /\ data \in Nat /\ tab[t].since \in Nat
      /\ tab[t].due <= tab[t].since /\ ended <= data
      /\ ~tab[t].dropped => ended <= tab[t].since
  BY DEF FiguresArrive, IInv, OfOneUser, Timely, States, Storable
<1>2. PICK v \in tab[t].since .. data :
        /\ Put(t, Shown(t, v))
        /\ cache' = IF MayStore(t) THEN [cache EXCEPT ![tab[t].page] = v] ELSE cache
  BY DEF FiguresArrive
<1>3. v \in Nat /\ tab[t].since <= v
  BY <1>1
<1>4. tab[t].due <= v
  BY <1>1, <1>3, Transitive, Zenon
<1>5. CacheIsCurrent'
  <2>1. CASE MayStore(t)
    <3>1. ended <= v
      BY <1>1, <1>3, <2>1, Transitive, Zenon DEF MayStore
    <3>2. cache' = [cache EXCEPT ![tab[t].page] = v]
      BY <1>2, <2>1
    <3> QED BY <1>1, <1>3, <3>1, <3>2 DEF IInv, CacheIsCurrent
  <2>2. CASE ~MayStore(t)
    BY <1>1, <1>2, <2>2 DEF IInv, CacheIsCurrent
  <2> QED BY <2>1, <2>2
<1>6. /\ Shown(t, v) \in States /\ OfOneUser(Shown(t, v))
      /\ Timely(Shown(t, v), ended, data) /\ Storable(Shown(t, v), ended)
  BY <1>1, <1>3, <1>4, ShownState
<1>7. data' \in Nat /\ data <= data' /\ data' = data
  BY <1>1
<1> QED BY <1>1, <1>2, <1>5, <1>6, <1>7, OneTab
-----------------------------------------------------------------------------
\* The count of changes only grows.
LEMMA Successor == \A n \in Nat : n <= n /\ n + 1 \in Nat /\ n <= n + 1
OBVIOUS

\* Noting the version of a change leaves the rest of a tab alone.
LEMMA SinceState ==
  ASSUME NEW r \in States, NEW n \in Nat
  PROVE  LET q == [r EXCEPT !.since = n] IN
         /\ q \in States /\ q.token = r.token /\ q.client = r.client /\ q.user = r.user
         /\ q.kept = r.kept /\ q.due = r.due /\ q.at = r.at /\ q.since = n
BY DEF States

\* Any button that changes data: r is what the tab becomes with the answer.
LEMMA ChangeHolds ==
  ASSUME IInv, NEW t \in Tabs, NEW page, NEW permission,
         NEW r \in States, r.token = tab[t].token, r.client = tab[t].token,
         r.user = tab[t].token, r.kept = Kept(t), r.due = 0,
         r.at \in {"clear", "message", "go on"},
         Change(t, page, permission, r)
  PROVE  IInv'
<1>1. /\ tab[t] \in States /\ UNCHANGED <<cache, ended>> /\ tab[t].token # None
      /\ data \in Nat /\ ended \in Nat
  BY DEF Change, Clicked, Validated, Runs, IInv
<1> DEFINE a == At(t, "rest")
           q == [r EXCEPT !.since = data + 1]
<1>2. /\ data' \in Nat /\ data <= data'
      /\ Put(t, a) \/ (data' = data + 1 /\ Put(t, q))
  <2>1. (Put(t, a) /\ data' = data) \/ (data' = data + 1 /\ (Put(t, a) \/ Put(t, q)))
    BY Zenon DEF Change
  <2> QED BY <1>1, <2>1, Successor, Zenon
<1>3. CacheIsCurrent'
  BY <1>1 DEF IInv, CacheIsCurrent
<1>4. CASE Put(t, a)
  <2>1. /\ a \in States /\ a.token = tab[t].token /\ a.client = tab[t].token
        /\ a.user = tab[t].token /\ a.kept = Kept(t) /\ a.due = 0 /\ a.at = "rest"
    <3>1. "rest" \in Places
      BY DEF Places
    <3> QED BY <1>1, <3>1, AtState
  <2> HIDE DEF a
  <2>2. OfOneUser(a) /\ Timely(a, ended, data') /\ Storable(a, ended)
    BY <1>1, <1>2, <2>1, Clicks
  <2> QED BY <1>1, <1>2, <1>3, <1>4, <2>1, <2>2, OneTab
<1>5. CASE data' = data + 1 /\ Put(t, q)
  <2>1. /\ q \in States /\ q.token = tab[t].token /\ q.client = tab[t].token
        /\ q.user = tab[t].token /\ q.kept = Kept(t) /\ q.due = 0
        /\ q.at \in {"clear", "message", "go on"} /\ q.since = data'
    <3>1. data + 1 \in Nat
      BY <1>1, Successor, Zenon
    <3>2. /\ q \in States /\ q.token = r.token /\ q.client = r.client
          /\ q.user = r.user /\ q.kept = r.kept /\ q.due = r.due /\ q.at = r.at
          /\ q.since = data + 1
      BY <3>1, SinceState, Zenon
    <3> QED BY <1>5, <3>2, Zenon
  <2> HIDE DEF q
  <2>2. q.since <= data'
    BY <1>2, <2>1, Successor, Zenon
  <2>3. OfOneUser(q) /\ Timely(q, ended, data') /\ Storable(q, ended)
    BY <1>1, <1>2, <2>1, <2>2, Clicks
  <2> QED BY <1>1, <1>2, <1>3, <1>5, <2>1, <2>3, OneTab
<1> QED BY <1>2, <1>4, <1>5

\* Every button that changes data is an instance of ChangeHolds.
LEMMA ChangeStep ==
  ASSUME IInv, NEW t \in Tabs,
         \/ create_case(t) \/ change_case(t) \/ update_status(t) \/ escalate(t)
         \/ change_rule(t) \/ run_rule(t) \/ run_sync(t)
  PROVE  IInv'
<1>1. tab[t].token # None /\ tab[t] \in States
  BY DEF create_case, change_case, update_status, escalate, change_rule, run_rule, run_sync,
         Change, Clicked, Validated, Runs, IInv
<1> DEFINE Ready(r) ==
             /\ r \in States /\ r.token = tab[t].token /\ r.client = tab[t].token
             /\ r.user = tab[t].token /\ r.kept = Kept(t) /\ r.due = 0
             /\ r.at \in {"clear", "message", "go on"}
           k == At(t, "clear")
           c == [k EXCEPT !.open = @ \cup {"case"}]
           e == [k EXCEPT !.open = (@ \ {"alert"}) \cup {"case"}, !.page = "Cases"]
<1>2. Ready(k) /\ Ready(At(t, "message")) /\ Ready(At(t, "go on"))
  <2>1. "clear" \in Places /\ "message" \in Places /\ "go on" \in Places
    BY DEF Places
  <2> QED BY <1>1, <2>1, AtState
<1>3. k = At(t, "clear")
  OBVIOUS
<1> HIDE DEF k
<1>4. Ready(c) /\ Ready(e)
  BY <1>2 DEF States, Pages
<1>5. CASE create_case(t)
  <2>1. Change(t, "Cases", "mutate_investigations", c)
    BY <1>3, <1>5 DEF create_case
  <2> HIDE DEF c
  <2> QED BY <1>4, <2>1, ChangeHolds
<1>6. CASE escalate(t)
  <2>1. Change(t, "Investigations", "mutate_investigations", e)
    BY <1>3, <1>6 DEF escalate
  <2> HIDE DEF e
  <2> QED BY <1>4, <2>1, ChangeHolds
<1>7. CASE change_case(t)
  BY <1>2, <1>3, <1>7, ChangeHolds DEF change_case
<1>8. CASE update_status(t)
  BY <1>2, <1>3, <1>8, ChangeHolds DEF update_status
<1>9. CASE change_rule(t)
  BY <1>2, <1>3, <1>9, ChangeHolds DEF change_rule
<1>10. CASE run_rule(t)
  BY <1>2, <1>10, ChangeHolds DEF run_rule
<1>11. CASE run_sync(t)
  BY <1>2, <1>11, ChangeHolds DEF run_sync
<1> QED BY <1>5, <1>6, <1>7, <1>8, <1>9, <1>10, <1>11

\* The message is shown, or a click ends the run before the cache is cleared.
LEMMA MessageStep ==
  ASSUME IInv, NEW t \in Tabs, ShowMessage(t)
  PROVE  IInv'
<1> DEFINE k == tab[t]
           g == [k EXCEPT !.at = "go on"]
           s == [Rest(k) EXCEPT !.at = "start"]
<1>1. /\ k \in States /\ k = tab[t] /\ k.token # None /\ k.at = "message"
      /\ k.due <= ended /\ k.since <= data
      /\ UNCHANGED <<data, cache, ended>> /\ (Put(t, g) \/ Put(t, s))
  BY DEF ShowMessage, IInv, OfOneUser, Timely
<1> HIDE DEF k
<1>2. /\ g \in States /\ g.token = k.token /\ g.client = k.client /\ g.user = k.user
      /\ g.kept = k.kept /\ g.at = "go on" /\ g.due = k.due /\ g.since = k.since
  BY <1>1 DEF States, Places
<1>3. /\ s \in States /\ s.token = k.token /\ s.client = k.client /\ s.user = k.user
      /\ s.kept = k.kept /\ s.at = "start" /\ s.due = k.due
  BY <1>1 DEF Rest, States, Places
<1> HIDE DEF g, s
<1>4. OfOneUser(g) /\ OfOneUser(s)
  BY <1>1, <1>2, <1>3, SameUser
<1>5. /\ Timely(g, ended, data) /\ Storable(g, ended)
      /\ Timely(s, ended, data) /\ Storable(s, ended)
  BY <1>1, <1>2, <1>3, Zenon DEF Timely, Storable
<1> QED BY <1>1, <1>2, <1>3, <1>4, <1>5, OnlyTab
-----------------------------------------------------------------------------
\* The latest answered change moves up to that of the tab that clears the cache; figures
\* under way lose their place in it.
LEMMA ClearStep ==
  ASSUME IInv, NEW t \in Tabs, ClearCache(t)
  PROVE  IInv'
<1>1. /\ tab[t] \in States /\ tab[t].since \in Nat /\ tab[t].since <= data
      /\ ended \in Nat /\ data \in Nat /\ ended <= data /\ data' = data
      /\ tab[t].token # None /\ tab[t].due <= ended
  <2>1. Timely(tab[t], ended, data) /\ OfOneUser(tab[t]) /\ tab[t] \in States
    BY DEF IInv
  <2>2. tab[t].at \in {"clear", "go on"} /\ data' = data
    BY DEF ClearCache
  <2>3. tab[t].since \in Nat
    BY <2>1 DEF States
  <2>4. tab[t].since <= data /\ tab[t].due <= ended
    BY <2>1, <2>2, Zenon DEF Timely
  <2>5. tab[t].token # None
    BY <2>1, <2>2 DEF OfOneUser
  <2> QED BY <2>1, <2>2, <2>3, <2>4, <2>5 DEF IInv
<1>2. ended' \in Nat /\ ended' <= data /\ ended <= ended'
  <2>1. ended' = IF tab[t].since > ended THEN tab[t].since ELSE ended
    BY DEF ClearCache
  <2> DEFINE n == tab[t].since
  <2>2. n \in Nat /\ n <= data /\ ended' = IF n > ended THEN n ELSE ended
    BY <1>1, <2>1
  <2>3. ended \in Nat /\ data \in Nat /\ ended <= data
    BY <1>1
  <2> HIDE DEF n
  <2> QED BY <2>2, <2>3
<1>3. CacheIsCurrent'
  BY DEF ClearCache, Cleared, CacheIsCurrent
<1> DEFINE w == IF tab[t].at = "clear" THEN "start" ELSE "render"
           k == tab[t]
           r == [Rest(k) EXCEPT !.at = w]
           d(u) == [tab[u] EXCEPT !.dropped = (tab[u].at = "fetch")]
<1>4. /\ r \in States /\ OfOneUser(r) /\ Timely(r, ended', data) /\ Storable(r, ended')
  <2>1. k \in States /\ k = tab[t] /\ w \in {"start", "render"}
    BY <1>1
  <2> HIDE DEF k, w
  <2>2. /\ r \in States /\ r.token = k.token /\ r.client = k.client /\ r.user = k.user
        /\ r.kept = k.kept /\ r.at = w /\ r.due = k.due
    BY <2>1 DEF Rest, States, Places
  <2> HIDE DEF r
  <2>3. OfOneUser(r)
    BY <1>1, <2>1, <2>2, SameUser
  <2>4. r.due <= ended'
    <3>1. tab[t].due \in Nat
      BY <1>1 DEF States
    <3>2. tab[t].due <= ended'
      BY <1>1, <1>2, <3>1, Transitive, Zenon
    <3> QED BY <2>1, <2>2, <3>2, Zenon
  <2>5. r.at \notin {"rest", "fetch", "clear", "message", "go on"}
    BY <2>1, <2>2
  <2> QED BY <2>2, <2>3, <2>4, <2>5, Zenon DEF Timely, Storable
<1>5. ASSUME NEW u \in Tabs, u # t
      PROVE  /\ d(u) \in States /\ OfOneUser(d(u)) /\ Timely(d(u), ended', data)
             /\ Storable(d(u), ended')
  <2> DEFINE o == tab[u]
             q == [o EXCEPT !.dropped = (o.at = "fetch")]
  <2>1. o \in States /\ OfOneUser(o) /\ Timely(o, ended, data)
    BY DEF IInv
  <2>2. (o.at = "fetch") \in BOOLEAN /\ q = d(u)
    OBVIOUS
  <2> HIDE DEF o
  <2>3. /\ q \in States /\ q.token = o.token /\ q.client = o.client /\ q.user = o.user
        /\ q.kept = o.kept /\ q.at = o.at /\ q.shows = o.shows /\ q.since = o.since
        /\ q.figures = o.figures /\ q.due = o.due
    BY <2>1, <2>2 DEF States
  <2>4. o.at = "fetch" => q.dropped
    BY <2>1, Zenon DEF States
  <2> HIDE DEF q, d
  <2>5. OfOneUser(q)
    BY <2>1, <2>3 DEF OfOneUser
  <2>6. q.due <= ended'
    <3>1. o.due \in Nat
      BY <2>1 DEF States
    <3>2. o.due <= ended
      BY <2>1 DEF Timely
    <3>3. o.due <= ended'
      BY <1>1, <1>2, <3>1, <3>2, Transitive, Zenon
    <3> QED BY <2>3, <3>3, Zenon
  <2>7. Timely(q, ended', data)
    BY <2>1, <2>3, <2>6, Zenon DEF Timely
  <2>8. Storable(q, ended')
    BY <2>3, <2>4, Zenon DEF Storable
  <2> QED BY <2>2, <2>3, <2>5, <2>7, <2>8
<1>6. tab' = [u \in Tabs |-> IF u = t THEN r ELSE d(u)]
  BY DEF ClearCache
<1> HIDE DEF r, d
<1>7. tab' \in [Tabs -> States]
  BY <1>4, <1>5, <1>6
<1>8. ASSUME NEW u \in Tabs
      PROVE  OfOneUser(tab'[u]) /\ Timely(tab'[u], ended', data) /\ Storable(tab'[u], ended')
  BY <1>4, <1>5, <1>6
<1>9. data' \in Nat /\ ended' <= data' /\ data' = data
  BY <1>1, <1>2
<1> QED BY <1>2, <1>3, <1>7, <1>8, <1>9 DEF IInv

\* What happens beside the tabs.
LEMMA BesideStep ==
  ASSUME IInv, FiguresExpire \/ OtherClient \/ SessionEnds \/ UNCHANGED vars
  PROVE  IInv'
<1>1. CASE OtherClient
  <2>1. /\ data' = data + 1 /\ tab' = tab /\ cache' = cache /\ ended' = ended
        /\ data \in Nat /\ ended \in Nat /\ ended <= data
    BY <1>1 DEF OtherClient, IInv
  <2>2. data' \in Nat /\ data <= data' /\ ended <= data'
    BY <2>1
  <2>3. CacheIsCurrent'
    BY <2>1 DEF IInv, CacheIsCurrent
  <2>4. ASSUME NEW u \in Tabs
        PROVE  OfOneUser(tab[u]) /\ Timely(tab[u], ended, data') /\ Storable(tab[u], ended)
    <3>1. /\ OfOneUser(tab[u]) /\ Timely(tab[u], ended, data) /\ Storable(tab[u], ended)
          /\ tab[u] \in States
      BY DEF IInv
    <3>2. tab[u].since \in Nat
      BY <3>1 DEF States
    <3>3. tab[u].since <= data => tab[u].since <= data'
      BY <2>1, <2>2, <3>2, Transitive, Zenon
    <3> QED BY <3>1, <3>3, Zenon DEF Timely
  <2> QED BY <2>1, <2>2, <2>3, <2>4 DEF IInv
<1>2. CASE FiguresExpire
  <2>1. tab' = tab /\ data' = data /\ ended' = ended
    BY <1>2 DEF FiguresExpire
  <2>2. CacheIsCurrent'
    BY <1>2 DEF FiguresExpire, IInv, CacheIsCurrent
  <2> QED BY <2>1, <2>2 DEF IInv
<1>3. CASE SessionEnds
  BY <1>3 DEF SessionEnds, IInv, CacheIsCurrent
<1>4. CASE UNCHANGED vars
  BY <1>4 DEF vars, IInv, CacheIsCurrent
<1> QED BY <1>1, <1>2, <1>3, <1>4

\* The invariant is inductive.
LEMMA NextHolds == IInv /\ [Next]_vars => IInv'
<1> SUFFICES ASSUME IInv, [Next]_vars PROVE IInv'
  OBVIOUS
<1>1. ASSUME NEW t \in Tabs, Session(t) PROVE IInv'
  BY <1>1, SessionStep
<1>2. ASSUME NEW t \in Tabs, Page(t) PROVE IInv'
  BY <1>2, NavigationStep, RenderStep, LoadStep, ArriveStep, RememberStep DEF Page
<1>3. ASSUME NEW t \in Tabs, Changes(t) PROVE IInv'
  BY <1>3, ChangeStep, ClearStep, MessageStep DEF Changes
<1> QED BY <1>1, <1>2, <1>3, BesideStep DEF Next

\* A tab never mixes two users: neither its client, nor the user it names, nor anything in
\* its session state is of another login than its token (app/components/api_state.py).
THEOREM OneUserHolds == Spec => []OneUserPerTab
<1>1. IInv => OneUserPerTab
  BY DEF IInv, OfOneUser, OneUserPerTab
<1> QED BY InitHolds, NextHolds, <1>1, PTL DEF Spec

\* What a page shows of the dashboard and the integrations includes every change whose
\* answer had been handled, in any tab, when the run that shows it began
\* (st.cache_data and its clear()).
THEOREM FiguresHold == Spec => []FiguresFollowAnswers
<1>1. IInv => FiguresFollowAnswers
  <2> SUFFICES ASSUME IInv, NEW t \in Tabs, tab[t].at = "rest", tab[t].shows \in FigurePages
               PROVE  tab[t].figures >= tab[t].due
    BY DEF FiguresFollowAnswers
  <2>1. tab[t] \in States /\ tab[t].due <= tab[t].figures
    BY DEF IInv, Timely
  <2>2. tab[t].figures \in Nat /\ tab[t].due \in Nat
    BY <2>1 DEF States
  <2> QED BY <2>1, <2>2
<1> QED BY InitHolds, NextHolds, <1>1, PTL DEF Spec
-----------------------------------------------------------------------------
(* Deployment. *)

\* The names of rows, the kinds a seed goes through, and what its transaction may be.
Names == [by : Seeders \cup {"nobody", "api", "reset"}, after : Nat]
Parts == {"rule", "event", "alert", "alert_event", "case", "case_alert", "activity"}
Place == [rule |-> 1, event |-> 2, alert |-> 3, alert_event |-> 4, case |-> 5, case_alert |-> 6,
          activity |-> 7]
Transactions == [at : 0 .. 8, insert : BOOLEAN, holds : [Kinds -> Names], new : SUBSET Parts]

\* No reset to come gives a row this name.
Named(r) == /\ r.after <= resets + downs
            /\ r.by = "reset" => r.after < resets + downs

\* The link of kind k between the rows of h.
Tied(k, h) == <<k, [p \in Parents[k] |-> h[p]]>>

\* But for the rule, all demo data are there, the rows being those of h; or none, but a case of
\* the API and notes on it.
WholeWith(h) ==
  /\ h \in [Kinds -> Names]
  /\ \A k \in Kinds \ {"rule"} : row[k] = {h[k]}
  /\ Tied("alert_event", h) \in links
  /\ links \subseteq {Tied("alert_event", h), Tied("case_alert", h)}
  /\ acts # {} /\ \A a \in acts : a.case = h["case"]
  /\ \A a, b \in acts : a.by # "api" /\ b.by # "api" => a = b
Whole == \E h : WholeWith(h)
Bare ==
  /\ \A k \in Kinds \ {"rule", "case"} : row[k] = {}
  /\ row["case"] = {} \/ \E r \in Names : row["case"] = {r}
  /\ links = {}
  /\ \A a \in acts : a.by = "api" /\ a.case \in row["case"]

\* A seed that found no event has inserted all it has passed; but the rule, the case and a note
\* with the text of the activity may have been there.
Inserting(t) ==
  /\ Bare
  /\ \A k \in Parts : /\ k \in t.new => Place[k] < t.at
                      /\ Place[k] < t.at /\ k \notin {"rule", "case", "activity"} => k \in t.new
  /\ "case" \in t.new => row["case"] = {}
  /\ t.at > 5 /\ "case" \notin t.new => row["case"] = {t.holds["case"]}
  /\ t.at > 7 /\ "activity" \notin t.new => acts # {}

\* A seed that found the event inserts at most the rule and the link of the alert to the case;
\* what else it is about to insert belongs to a row that a reset has deleted.
Finding(t) ==
  /\ Whole
  /\ t.new \subseteq {"rule", "case_alert"}
  /\ "case_alert" \in t.new => t.at > 6 /\ \A p \in {"case", "alert"} : t.holds[p] \in row[p]
  /\ t.insert => \/ t.at = 4 /\ \E p \in {"alert", "event"} : t.holds[p] \notin row[p]
                 \/ t.at = 6
                 \/ t.at = 7 /\ t.holds["case"] \notin row["case"]

\* The look for the event decides which of the two a seed is.
Fitting(t) ==
  /\ t.at = 0 => t = Idle
  /\ t.at \in {0, 1, 2} => t.new \subseteq {"rule"}
  /\ t.insert => t.at \in 1 .. 7
  /\ "rule" \in t.new => row["rule"] = {}
  /\ t.at > 2 => IF "event" \in t.new THEN Inserting(t) ELSE Finding(t)

Counters == resets \in Nat /\ downs \in Nat
NamedRows == row \in [Kinds -> SUBSET Names] /\ \A k \in Kinds : \A r \in row[k] : Named(r)
RuleOnce == row["rule"] = {} \/ \E r \in Names : row["rule"] = {r}
Held(t) == t \in Transactions /\ \A k \in Kinds : Named(t.holds[k])
\* Two seeds do not insert at once, because the second waits for the row of the first.
Alone == \A k \in {"rule", "event"} : \A s, u \in Seeders :
           k \in tx[s].new /\ k \in tx[u].new => s = u

DemoInv == /\ Counters /\ NamedRows /\ RuleOnce
           /\ Bare \/ Whole
           /\ tx = [s \in Seeders |-> tx[s]]
           /\ \A s \in Seeders : Held(tx[s]) /\ Fitting(tx[s])
           /\ Alone
-----------------------------------------------------------------------------
\* The order of the seed.
LEMMA OrderIs ==
  /\ Len(Order) = 7
  /\ \A i \in 1 .. 7 : Order[i] \in Parts /\ Place[Order[i]] = i
  /\ \A k \in Parts : Place[k] \in 1 .. 7 /\ Order[Place[k]] = k
  /\ Kinds \subseteq Parts
<1>1. /\ Order[1] = "rule" /\ Order[2] = "event" /\ Order[3] = "alert" /\ Order[4] = "alert_event"
      /\ Order[5] = "case" /\ Order[6] = "case_alert" /\ Order[7] = "activity" /\ Len(Order) = 7
  BY DEF Order
<1>2. /\ Place["rule"] = 1 /\ Place["event"] = 2 /\ Place["alert"] = 3 /\ Place["alert_event"] = 4
      /\ Place["case"] = 5 /\ Place["case_alert"] = 6 /\ Place["activity"] = 7
  BY DEF Place
<1>3. \A i \in 1 .. 7 : i = 1 \/ i = 2 \/ i = 3 \/ i = 4 \/ i = 5 \/ i = 6 \/ i = 7
  OBVIOUS
<1> QED BY <1>1, <1>2, <1>3 DEF Parts, Kinds

\* The parents of a link.
LEMMA ParentsAre ==
  /\ Parents["alert_event"] = {"alert", "event"} /\ Parents["case_alert"] = {"case", "alert"}
  /\ Parents["activity"] = {"case"} /\ DOMAIN Parents = {"alert_event", "case_alert", "activity"}
BY DEF Parents

\* Links are the same if the rows they link are.
LEMMA TiedIs ==
  ASSUME NEW k \in {"alert_event", "case_alert"}, NEW g,
         NEW j \in {"alert_event", "case_alert"}, NEW h
  PROVE  /\ Tied(k, g) = Tied(j, h) <=> k = j /\ \A p \in Parents[k] : g[p] = h[p]
         /\ Tied(k, g)[1] = k /\ DOMAIN Tied(k, g)[2] = Parents[k]
         /\ \A p \in Parents[k] : Tied(k, g)[2][p] = g[p]
<1>1. /\ Tied(k, g)[1] = k /\ Tied(j, h)[1] = j
      /\ Tied(k, g)[2] = [p \in Parents[k] |-> g[p]] /\ Tied(j, h)[2] = [p \in Parents[j] |-> h[p]]
  BY DEF Tied
<1>2. /\ DOMAIN Tied(k, g)[2] = Parents[k]
      /\ \A p \in Parents[k] : Tied(k, g)[2][p] = g[p]
      /\ \A p \in Parents[j] : Tied(j, h)[2][p] = h[p]
  BY <1>1
<1>3. ASSUME Tied(k, g) = Tied(j, h)
      PROVE  k = j /\ \A p \in Parents[k] : g[p] = h[p]
  BY <1>1, <1>2, <1>3
<1>4. ASSUME k = j, \A p \in Parents[k] : g[p] = h[p]
      PROVE  Tied(k, g) = Tied(j, h)
  <2>1. [p \in Parents[k] |-> g[p]] = [p \in Parents[j] |-> h[p]]
    BY <1>4
  <2> QED BY <2>1, <1>4 DEF Tied
<1> QED BY <1>1, <1>2, <1>3, <1>4

\* A transaction that is not under way.
LEMMA IdleFits ==
  ASSUME Counters
  PROVE  Idle \in Transactions /\ Idle.at = 0 /\ Idle.new = {} /\ Held(Idle) /\ Fitting(Idle)
<1>1. NoRow \in Names /\ NoRow.after = 0 /\ NoRow.by = "nobody"
  BY DEF NoRow, Names
<1>2. [k \in Kinds |-> NoRow] \in [Kinds -> Names]
  BY <1>1
<1>3. Idle \in Transactions /\ Idle.at = 0 /\ Idle.new = {} /\ ~Idle.insert
      /\ Idle.holds = [k \in Kinds |-> NoRow]
  BY <1>2 DEF Idle, Transactions
<1>4. Held(Idle)
  BY <1>1, <1>3 DEF Held, Named, Counters
<1>5. Fitting(Idle)
  BY <1>3 DEF Fitting
<1> QED BY <1>3, <1>4, <1>5

\* Before the first command.
LEMMA DemoStarts == DeploymentInit => DemoInv
<1> SUFFICES ASSUME DeploymentInit PROVE DemoInv
  OBVIOUS
<1>1. Counters
  BY DEF DeploymentInit, Counters
<1>2. NamedRows /\ RuleOnce
  BY DEF DeploymentInit, NamedRows, RuleOnce, Kinds
<1>3. Bare
  BY DEF DeploymentInit, Bare, Kinds
<1>4. tx = [s \in Seeders |-> tx[s]] /\ \A s \in Seeders : tx[s] = Idle
  BY DEF DeploymentInit
<1>5. \A s \in Seeders : Held(tx[s]) /\ Fitting(tx[s]) /\ tx[s].new = {}
  BY <1>1, <1>4, IdleFits
<1>6. Alone
  BY <1>5 DEF Alone
<1> QED BY <1>1, <1>2, <1>3, <1>4, <1>5, <1>6 DEF DemoInv

\* What the invariant says only depends on the demo data, the seeds and the counters.
LEMMA Unmoved ==
  ASSUME DemoInv, UNCHANGED <<demo, tx, resets, downs>>
  PROVE  DemoInv'
<1>1. UNCHANGED <<row, links, acts, tx, resets, downs>>
  BY DEF demo
<1>2. Counters' /\ NamedRows' /\ RuleOnce'
  BY <1>1 DEF DemoInv, Counters, NamedRows, Named, RuleOnce
<1>3. (Bare <=> Bare') /\ (Whole <=> Whole')
  BY <1>1 DEF Bare, Whole, WholeWith
<1>4. ASSUME NEW s \in Seeders PROVE (Held(tx[s]) /\ Fitting(tx[s]))'
  <2>1. Held(tx[s]) /\ Fitting(tx[s])
    BY DEF DemoInv
  <2>2. Held(tx[s])'
    BY <1>1, <2>1 DEF Held, Named
  <2>3. (Inserting(tx[s]) => Inserting(tx[s])') /\ (Finding(tx[s]) => Finding(tx[s])')
    BY <1>1, <1>3 DEF Inserting, Finding
  <2> QED BY <1>1, <2>1, <2>2, <2>3 DEF Fitting
<1>5. Alone'
  BY <1>1 DEF DemoInv, Alone
<1> QED BY <1>1, <1>2, <1>3, <1>4, <1>5 DEF DemoInv

\* While the demo data are not there, no seed has found the event; while they are, none
\* has inserted it.
LEMMA OneOrOther ==
  ASSUME DemoInv
  PROVE  /\ ~(Bare /\ Whole)
         /\ \A s \in Seeders : "event" \in tx[s].new => Bare /\ tx[s].at > 2
         /\ \A s \in Seeders : ~(tx[s].at > 2) => tx[s].at \in 0 .. 2 /\ tx[s].new \subseteq {"rule"}
<1>1. ~(Bare /\ Whole)
  BY DEF Bare, Whole, WholeWith, Kinds
<1>2. ASSUME NEW s \in Seeders, ~(tx[s].at > 2)
      PROVE  tx[s].at \in 0 .. 2 /\ tx[s].new \subseteq {"rule"}
  <2>1. Held(tx[s]) /\ Fitting(tx[s])
    BY DEF DemoInv
  <2>2. tx[s].at \in 0 .. 8
    BY <2>1 DEF Held, Transactions
  <2>3. tx[s].at \in 0 .. 2 /\ tx[s].at \in {0, 1, 2}
    BY <1>2, <2>2
  <2> QED BY <2>1, <2>3 DEF Fitting
<1>3. ASSUME NEW s \in Seeders, "event" \in tx[s].new PROVE Bare /\ tx[s].at > 2
  <2>1. tx[s].at > 2
    BY <1>2, <1>3
  <2> QED BY <1>3, <2>1 DEF DemoInv, Fitting, Inserting
<1> QED BY <1>1, <1>2, <1>3

\* While a seed inserts the demo data, no other one is past its look for the event.
LEMMA OthersWait ==
  ASSUME DemoInv, NEW s \in Seeders, "event" \in tx[s].new, NEW u \in Seeders, u # s
  PROVE  tx[u].at \in 0 .. 2 /\ tx[u].new \subseteq {"rule"}
<1>1. Bare /\ "event" \notin tx[u].new
  BY OneOrOther DEF DemoInv, Alone
<1>2. Held(tx[u]) /\ Fitting(tx[u])
  BY DEF DemoInv
<1>3. ~(tx[u].at > 2)
  BY <1>1, <1>2, OneOrOther DEF Fitting, Finding
<1> QED BY <1>3, OneOrOther

\* A step of one seed that is not its commit.
LEMMA OneSeed ==
  ASSUME DemoInv, UNCHANGED <<demo, resets, downs>>, NEW s \in Seeders, NEW t,
         tx' = [tx EXCEPT ![s] = t], Held(t), Fitting(t),
         \A k \in {"rule", "event"} : k \in t.new => \A u \in Seeders \ {s} : k \notin tx[u].new
  PROVE  DemoInv'
<1>1. UNCHANGED <<row, links, acts, resets, downs>>
  BY DEF demo
<1>2. Counters' /\ NamedRows' /\ RuleOnce'
  BY <1>1 DEF DemoInv, Counters, NamedRows, Named, RuleOnce
<1>3. (Bare <=> Bare') /\ (Whole <=> Whole')
  BY <1>1 DEF Bare, Whole, WholeWith
<1>4. /\ tx' = [u \in Seeders |-> tx'[u]]
      /\ \A u \in Seeders : tx'[u] = IF u = s THEN t ELSE tx[u]
  BY DEF DemoInv
<1>5. ASSUME NEW r, Held(r), Fitting(r) PROVE Held(r)' /\ Fitting(r)'
  <2>1. Held(r)'
    BY <1>1, <1>5 DEF Held, Named
  <2>2. (Inserting(r) => Inserting(r)') /\ (Finding(r) => Finding(r)')
    BY <1>1, <1>3 DEF Inserting, Finding
  <2>3. Fitting(r)'
    BY <1>1, <1>5, <2>2 DEF Fitting
  <2> QED BY <2>1, <2>3
<1>6. ASSUME NEW u \in Seeders PROVE (Held(tx[u]) /\ Fitting(tx[u]))'
  <2>1. Held(tx[u]) /\ Fitting(tx[u])
    BY DEF DemoInv
  <2>2. PICK r : r = tx'[u]
    OBVIOUS
  <2>3. Held(r) /\ Fitting(r)
    BY <1>4, <2>1, <2>2
  <2>4. Held(r)' /\ Fitting(r)'
    BY <1>5, <2>3
  <2> QED BY <2>2, <2>4 DEF Held, Fitting, Named, Inserting, Finding
<1>7. Alone'
  <2> SUFFICES ASSUME NEW k \in {"rule", "event"}, NEW u \in Seeders, NEW v \in Seeders,
                      k \in tx'[u].new, k \in tx'[v].new
               PROVE  u = v
    BY DEF Alone
  <2> QED BY <1>4 DEF DemoInv, Alone
<1> QED BY <1>2, <1>3, <1>4, <1>6, <1>7 DEF DemoInv

\* A step to the next kind.
LEMMA StepIs ==
  ASSUME NEW t \in Transactions, t.at \in 1 .. 7
  PROVE  /\ Step(t) \in Transactions /\ Step(t).at = t.at + 1 /\ ~Step(t).insert
         /\ Step(t).new = t.new /\ Step(t).holds = t.holds
<1>1. PICK u : u = Step(t)
  OBVIOUS
<1>2. u = [[t EXCEPT !.at = t.at + 1] EXCEPT !.insert = FALSE]
  BY <1>1 DEF Step, Transactions
<1>3. t.at + 1 \in 0 .. 8 /\ t.at \in Nat
  OBVIOUS
<1>4. u \in Transactions /\ u.at = t.at + 1 /\ u.new = t.new /\ u.holds = t.holds
  BY <1>2, <1>3 DEF Transactions
<1>5. u.insert = FALSE
  BY <1>2 DEF Transactions
<1> QED BY <1>1, <1>4, <1>5

\* What has to be seen of a seed that is past its look for the event.
LEMMA GoesOn ==
  ASSUME NEW t, t.at \in Nat, t.at > 2, t.insert => t.at \in 1 .. 7,
         "rule" \in t.new => row["rule"] = {},
         "event" \in t.new => Inserting(t), "event" \notin t.new => Finding(t)
  PROVE  Fitting(t)
<1>1. t.at # 0 /\ t.at \notin {0, 1, 2}
  OBVIOUS
<1> QED BY <1>1, Zenon DEF Fitting

\* There is at most one row with each of the natural keys.
LEMMA OneRow ==
  ASSUME DemoInv, NEW k \in Kinds
  PROVE  /\ row[k] = {} \/ \E r \in Names : row[k] = {r}
         /\ row[k] = {} => Cardinality(row[k]) = 0
         /\ row[k] # {} => Cardinality(row[k]) = 1
<1>1. row[k] = {} \/ \E r \in Names : row[k] = {r}
  <2>1. Whole /\ k # "rule" => \E r \in Names : row[k] = {r}
    BY DEF Whole, WholeWith
  <2>2. Bare /\ k # "rule" => row[k] = {} \/ \E r \in Names : row[k] = {r}
    BY DEF Bare
  <2> QED BY <2>1, <2>2 DEF DemoInv, RuleOnce
<1> QED BY <1>1, FS_EmptySet, FS_Singleton

\* The step a seed is at, its own and that of the order.
LEMMA AtStep ==
  ASSUME DemoInv, NEW s \in Seeders, tx[s].at \in 1 .. Len(Order)
  PROVE  /\ tx[s].at \in 1 .. 7 /\ Kind(s) \in Parts /\ Place[Kind(s)] = tx[s].at
         /\ \A j \in Parts : Place[j] = tx[s].at => j = Kind(s)
         /\ tx[s] \in Transactions /\ \A j \in Kinds : Named(tx[s].holds[j])
<1>1. tx[s].at \in 1 .. 7
  BY OrderIs
<1>2. Held(tx[s])
  BY DEF DemoInv
<1> QED BY <1>1, <1>2, OrderIs DEF Kind, Held

\* A seed begins.
LEMMA StartHolds ==
  ASSUME DemoInv, NEW s \in Seeders, StartSeed(s)
  PROVE  DemoInv'
<1>1. tx[s] = Idle /\ UNCHANGED <<demo, resets, downs>>
  BY DEF StartSeed
<1> DEFINE t == [Idle EXCEPT !.at = 1]
<1>2. tx' = [tx EXCEPT ![s] = t]
  BY <1>1 DEF StartSeed
<1>3. Held(Idle) /\ Idle \in Transactions /\ Idle.new = {} /\ ~Idle.insert
  BY IdleFits DEF DemoInv, Idle
<1>4. t \in Transactions /\ t.at = 1 /\ t.new = {} /\ ~t.insert /\ t.holds = Idle.holds
  BY <1>3 DEF Transactions
<1>5. Held(t)
  BY <1>3, <1>4 DEF Held
<1>6. Fitting(t)
  BY <1>4 DEF Fitting
<1> HIDE DEF t
<1> QED BY <1>1, <1>2, <1>4, <1>5, <1>6, OneSeed

\* A seed is killed.
LEMMA CrashHolds ==
  ASSUME DemoInv, NEW s \in Seeders, CrashSeed(s)
  PROVE  DemoInv'
<1>1. tx' = [tx EXCEPT ![s] = Idle] /\ UNCHANGED <<demo, resets, downs>>
  BY DEF CrashSeed
<1>2. Held(Idle) /\ Fitting(Idle) /\ Idle.new = {}
  BY IdleFits DEF DemoInv
<1> QED BY <1>1, <1>2, OneSeed

\* A seed that finds a row of the demo data goes on with it.
LEMMA FoundFits ==
  ASSUME DemoInv, NEW s \in Seeders, tx[s].at \in 1 .. Len(Order), ~tx[s].insert,
         Kind(s) \in Kinds, NEW r \in row[Kind(s)],
         NEW t, t = [Step(tx[s]) EXCEPT !.holds[Kind(s)] = r]
  PROVE  Held(t) /\ Fitting(t) /\ t.new = tx[s].new
<1> DEFINE k == Kind(s)
           o == tx[s]
<1>1. /\ o.at \in 1 .. 7 /\ k \in Parts /\ Place[k] = o.at /\ o \in Transactions
      /\ \A j \in Parts : Place[j] = o.at => j = k
      /\ \A j \in Kinds : Named(o.holds[j])
  BY AtStep
<1>2. r \in Names /\ Named(r) /\ row[k] = {r}
  BY OneRow DEF DemoInv, NamedRows
<1>3. /\ t \in Transactions /\ t.at = o.at + 1 /\ ~t.insert /\ t.new = o.new
      /\ t.holds = [o.holds EXCEPT ![k] = r]
  <2> HIDE DEF k
  <2>1. Step(o) \in Transactions
    BY <1>1, StepIs
  <2>2. Step(o).at = o.at + 1 /\ ~Step(o).insert /\ Step(o).new = o.new /\ Step(o).holds = o.holds
    BY <1>1, StepIs
  <2>3. t = [Step(o) EXCEPT !.holds[k] = r]
    BY DEF k
  <2> HIDE DEF o
  <2>4. [o.holds EXCEPT ![k] = r] \in [Kinds -> Names]
    BY <1>1, <1>2 DEF Transactions
  <2>5. t = [Step(o) EXCEPT !.holds = [o.holds EXCEPT ![k] = r]]
    BY <2>2, <2>3
  <2> QED BY <2>1, <2>2, <2>4, <2>5 DEF Transactions
<1>4. \A j \in Kinds : t.holds[j] = IF j = k THEN r ELSE o.holds[j]
  BY <1>1, <1>3 DEF Transactions
<1>5. Held(t)
  BY <1>1, <1>2, <1>3, <1>4 DEF Held
<1>6. Fitting(o)
  BY DEF DemoInv
<1>7. /\ o.at \in {1, 2, 3, 5} /\ (k = "case" <=> o.at = 5) /\ (k = "rule" <=> o.at = 1)
      /\ (k = "event" <=> o.at = 2)
  BY <1>1 DEF Kinds, Place
<1>8. Place["case"] = 5
  BY DEF Place
<1> HIDE DEF k, o
<1>9. t.at \in Nat /\ (o.at # 1 => t.at > 2) /\ (t.at > 2 => o.at > 1) /\ (o.at > 2 => t.at > 2)
  BY <1>1, <1>3
<1>10. "rule" \in o.new => row["rule"] = {}
  BY <1>6 DEF Fitting
<1>11. CASE o.at = 1
  <2>1. t.at = 2 /\ t.new \subseteq {"rule"}
    BY <1>3, <1>6, <1>11 DEF Fitting
  <2> QED BY <1>3, <1>5, <1>10, <2>1 DEF Fitting, o
<1>12. CASE o.at = 2
  <2>1. o.new \subseteq {"rule"} /\ ~Bare
    BY <1>2, <1>6, <1>7, <1>12 DEF Fitting, Bare, Kinds
  <2>2. Finding(t)
    BY <1>3, <2>1 DEF Finding, DemoInv
  <2>3. t.at > 2 /\ "event" \notin t.new
    BY <1>3, <1>9, <1>12, <2>1
  <2>4. Fitting(t)
    BY <1>3, <1>9, <1>10, <2>2, <2>3, GoesOn
  <2> QED BY <1>3, <1>5, <2>4 DEF o
<1>13. CASE o.at > 2 /\ "event" \in o.new
  <2>1. Inserting(o)
    BY <1>6, <1>13 DEF Fitting
  <2>2. k = "case"
    BY <1>2, <1>7, <1>13, <2>1 DEF Inserting, Bare, k
  <2>3. \A j \in Parts : Place[j] \in Nat
    BY OrderIs
  <2>4. Inserting(t)
    <3>1. \A j \in Parts : j \in t.new => Place[j] < t.at
      BY <1>1, <1>3, <2>1, <2>3 DEF Inserting
    <3>2. \A j \in Parts : Place[j] < t.at /\ j \notin {"rule", "case", "activity"} => j \in t.new
      BY <1>1, <1>3, <2>1, <2>2, <2>3 DEF Inserting
    <3>3. "case" \notin t.new /\ t.at = 6
      BY <1>1, <1>3, <1>7, <1>8, <2>1, <2>2 DEF Inserting, Parts
    <3>4. row["case"] = {t.holds["case"]}
      BY <1>2, <1>4, <2>2 DEF Kinds
    <3> QED BY <2>1, <3>1, <3>2, <3>3, <3>4 DEF Inserting
  <2> QED BY <1>3, <1>5, <1>9, <1>10, <1>13, <2>4, GoesOn DEF o
<1>14. CASE o.at > 2 /\ "event" \notin o.new
  <2>1. Finding(o)
    BY <1>1, <1>6, <1>14 DEF Fitting
  <2>2. Whole /\ o.new \subseteq {"rule"}
    BY <1>1, <1>7, <2>1 DEF Finding
  <2>3. Finding(t)
    BY <1>3, <2>2 DEF Finding
  <2> QED BY <1>3, <1>5, <1>9, <1>10, <1>14, <2>3, GoesOn DEF o
<1> QED BY <1>1, <1>11, <1>12, <1>13, <1>14

\* What a seed sees of each kind.
LEMMA SeesIs ==
  ASSUME NEW s \in Seeders, NEW k
  PROVE  /\ k \in Kinds => (Sees(s, k) <=> row[k] # {})
         /\ k \in {"alert_event", "case_alert"} => (Sees(s, k) <=> Tied(k, tx[s].holds) \in links)
         /\ k = "activity" => (Sees(s, k) <=> \E a \in acts : a.case = tx[s].holds["case"])
BY DEF Sees, Link, Tied, Kinds

\* A seed that sees a link or the activity passes it.
LEMMA SeenFits ==
  ASSUME DemoInv, NEW s \in Seeders, tx[s].at \in 1 .. Len(Order), ~tx[s].insert,
         Kind(s) \notin Kinds, Sees(s, Kind(s)), NEW t, t = Step(tx[s])
  PROVE  Held(t) /\ Fitting(t) /\ t.new = tx[s].new
<1> DEFINE k == Kind(s)
           o == tx[s]
<1>1. /\ o.at \in 1 .. 7 /\ k \in Parts /\ Place[k] = o.at /\ o \in Transactions
      /\ \A j \in Kinds : Named(o.holds[j])
  BY AtStep
<1>2. t \in Transactions /\ t.at = o.at + 1 /\ ~t.insert /\ t.new = o.new /\ t.holds = o.holds
  BY <1>1, StepIs
<1>3. Held(t)
  BY <1>1, <1>2 DEF Held
<1>4. k \in {"alert_event", "case_alert", "activity"}
  BY <1>1 DEF Parts, Kinds
<1>5. o.at \in {4, 6, 7} /\ (k = "activity" <=> o.at = 7)
  BY <1>1, <1>4 DEF Place
<1>6. Fitting(o) /\ (k # "activity" => links # {}) /\ (k = "activity" => acts # {})
  <2>1. Sees(s, k)
    OBVIOUS
  <2> HIDE DEF k
  <2> QED BY <1>4, <2>1, SeesIs DEF DemoInv, o
<1> HIDE DEF k, o
<1>7. t.at \in Nat /\ t.at > 2 /\ o.at > 2
  BY <1>1, <1>2, <1>5
<1>8. "rule" \in o.new => row["rule"] = {}
  BY <1>6 DEF Fitting
<1>9. CASE "event" \in o.new
  <2>1. Inserting(o)
    BY <1>6, <1>7, <1>9 DEF Fitting
  <2>2. k = "activity" /\ o.at = 7 /\ t.at = 8
    BY <1>2, <1>5, <1>6, <2>1 DEF Inserting, Bare
  <2>3. \A j \in Parts : /\ Place[j] \in 1 .. 7
                         /\ Place[j] < t.at /\ j # "activity" => Place[j] < o.at
    <3>1. Place["activity"] = 7 /\ \A j \in Parts : Place[j] = 7 => j = "activity"
      BY DEF Place, Parts
    <3> QED BY <2>2, <3>1, OrderIs
  <2>4. Inserting(t)
    BY <1>2, <1>6, <2>1, <2>2, <2>3 DEF Inserting
  <2> QED BY <1>2, <1>3, <1>7, <1>8, <1>9, <2>4, GoesOn DEF o
<1>10. CASE "event" \notin o.new
  <2>1. Finding(o)
    BY <1>6, <1>7, <1>10 DEF Fitting
  <2>2. Finding(t)
    BY <1>1, <1>2, <2>1 DEF Finding
  <2> QED BY <1>2, <1>3, <1>7, <1>8, <1>10, <2>2, GoesOn DEF o
<1> QED BY <1>9, <1>10

\* A seed that does not find what it looks for is going to insert it.  While the demo
\* data are there, it fails to find only what belongs to a row that was deleted.
LEMMA NotFoundFits ==
  ASSUME DemoInv, NEW s \in Seeders, tx[s].at \in 1 .. Len(Order),
         ~Sees(s, Kind(s)), NEW t, t = [tx[s] EXCEPT !.insert = TRUE]
  PROVE  Held(t) /\ Fitting(t) /\ t.new = tx[s].new
<1> DEFINE k == Kind(s)
           o == tx[s]
<1>1. /\ o.at \in 1 .. 7 /\ k \in Parts /\ Place[k] = o.at /\ o \in Transactions
      /\ \A j \in Kinds : Named(o.holds[j])
  BY AtStep
<1>2. t \in Transactions /\ t.at = o.at /\ t.insert /\ t.new = o.new /\ t.holds = o.holds
  BY <1>1 DEF Transactions
<1>3. Held(t)
  BY <1>1, <1>2 DEF Held
<1>4. Fitting(o)
  BY DEF DemoInv
<1>5. CASE o.at \in {1, 2}
  <2>1. t.at \in {1, 2} /\ t.new \subseteq {"rule"} /\ ("rule" \in t.new => row["rule"] = {})
    BY <1>2, <1>4, <1>5 DEF Fitting
  <2> QED BY <1>2, <1>3, <2>1 DEF Fitting
<1>6. CASE o.at \notin {1, 2}
  <2>1. t.at \in Nat /\ t.at > 2 /\ t.at \in 1 .. 7 /\ ("rule" \in t.new => row["rule"] = {})
    BY <1>1, <1>2, <1>4, <1>6 DEF Fitting
  <2>2. ASSUME "event" \in t.new PROVE Inserting(t)
    <3>1. Inserting(o)
      BY <1>2, <1>4, <2>1, <2>2 DEF Fitting
    <3> QED BY <1>2, <3>1 DEF Inserting
  <2>3. ASSUME "event" \notin t.new PROVE Finding(t)
    <3>1. Finding(o)
      BY <1>2, <1>4, <2>1, <2>3 DEF Fitting
    <3>2. PICK h : WholeWith(h)
      BY <3>1 DEF Finding, Whole
    <3>3. k \notin Kinds
      <4>1. k # "rule"
        BY <1>1, <1>2, <2>1 DEF Place
      <4> QED BY <3>2, <4>1, SeesIs DEF WholeWith
    <3>4. CASE k = "alert_event"
      <4>1. t.at = 4
        BY <1>1, <1>2, <3>4 DEF Place
      <4>2. Tied(k, h) \in links /\ Tied(k, o.holds) \notin links
        BY <3>2, <3>4, SeesIs DEF WholeWith
      <4>3. PICK p \in Parents["alert_event"] : h[p] # o.holds[p]
        <5> HIDE DEF o
        <5>1. Tied("alert_event", h) # Tied("alert_event", o.holds)
          BY <3>4, <4>2
        <5> QED BY <5>1, TiedIs
      <4>4. p \in {"alert", "event"} /\ row[p] = {h[p]}
        BY <3>2, <3>4, <4>3, ParentsAre DEF WholeWith, Kinds
      <4> QED BY <1>2, <3>1, <4>1, <4>3, <4>4 DEF Finding
    <3>5. CASE k = "case_alert"
      <4>1. t.at = 6
        BY <1>1, <1>2, <3>5 DEF Place
      <4> QED BY <1>2, <3>1, <4>1 DEF Finding
    <3>6. CASE k = "activity"
      <4>1. t.at = 7
        BY <1>1, <1>2, <3>6 DEF Place
      <4>2. \A a \in acts : a.case # o.holds["case"]
        BY <3>6, SeesIs
      <4>3. o.holds["case"] \notin row["case"]
        BY <3>2, <4>2 DEF WholeWith, Kinds
      <4> QED BY <1>2, <3>1, <4>1, <4>3 DEF Finding
    <3> QED BY <1>1, <3>3, <3>4, <3>5, <3>6 DEF Parts, Kinds
  <2> HIDE DEF o
  <2>4. Fitting(t)
    BY <2>1, <2>2, <2>3, GoesOn
  <2> QED BY <1>2, <1>3, <2>4 DEF o
<1> QED BY <1>5, <1>6

\* A look at one kind.
LEMMA LookupHolds ==
  ASSUME DemoInv, NEW s \in Seeders, tx[s].at \in 1 .. Len(Order), Lookup(s)
  PROVE  DemoInv'
<1>1. UNCHANGED <<demo, resets, downs>> /\ ~tx[s].insert
  BY DEF Lookup
<1> DEFINE k == Kind(s)
           o == tx[s]
           fails == Tables[k] \notin Served[rev] \/ Repeated(s, k)
           r == CHOOSE x \in row[k] : TRUE
           t == IF fails THEN Idle
                ELSE IF ~Sees(s, k) THEN [o EXCEPT !.insert = TRUE]
                ELSE IF k \in Kinds THEN [Step(o) EXCEPT !.holds[k] = r]
                ELSE Step(o)
<1>2. tx' = [tx EXCEPT ![s] = t]
  BY DEF Lookup
<1>3. \A j \in {"rule", "event"} : j \in o.new => \A u \in Seeders \ {s} : j \notin tx[u].new
  BY DEF DemoInv, Alone
<1>4. k \in Kinds => (Sees(s, k) <=> row[k] # {})
  BY SeesIs
<1>5. CASE fails
  <2>1. t = Idle
    BY <1>5
  <2>2. Held(t) /\ Fitting(t) /\ t.new = {}
    BY <2>1, IdleFits DEF DemoInv
  <2> HIDE DEF t
  <2> QED BY <1>1, <1>2, <2>2, OneSeed
<1>6. CASE ~fails /\ k \in Kinds /\ row[k] # {}
  <2>1. r \in row[k]
    BY <1>6
  <2>2. t = [Step(o) EXCEPT !.holds[k] = r]
    BY <1>4, <1>6
  <2> HIDE DEF t, r
  <2>3. Held(t) /\ Fitting(t) /\ t.new = o.new
    BY <1>1, <1>6, <2>1, <2>2, FoundFits
  <2> QED BY <1>1, <1>2, <1>3, <2>3, OneSeed
<1>7. CASE ~fails /\ k \notin Kinds /\ Sees(s, k)
  <2>1. t = Step(o)
    BY <1>7
  <2> HIDE DEF t
  <2>2. Held(t) /\ Fitting(t) /\ t.new = o.new
    BY <1>1, <1>7, <2>1, SeenFits
  <2> QED BY <1>1, <1>2, <1>3, <2>2, OneSeed
<1>8. CASE ~fails /\ ~Sees(s, k)
  <2>1. t = [o EXCEPT !.insert = TRUE]
    BY <1>4, <1>8
  <2> HIDE DEF t
  <2>2. Held(t) /\ Fitting(t) /\ t.new = o.new
    BY <1>8, <2>1, NotFoundFits
  <2> QED BY <1>1, <1>2, <1>3, <2>2, OneSeed
<1> QED BY <1>4, <1>5, <1>6, <1>7, <1>8

\* A row a seed inserts is named after it, and no reset names a row so.
LEMMA RowIs ==
  ASSUME Counters, NEW s \in Seeders \cup {"api"}
  PROVE  Row(s) \in Names /\ Named(Row(s))
<1>1. "reset" \notin Seeders
  BY SeederAssumption
<1>2. Row(s).by = s /\ Row(s).after = resets + downs
  BY DEF Row
<1>3. Row(s) \in Names
  BY DEF Row, Names, Counters
<1> QED BY <1>1, <1>2, <1>3 DEF Named, Counters

\* A row that is flushed: by a seed that inserts all, or the link of the alert to the case.
LEMMA FlushedFits ==
  ASSUME DemoInv, NEW s \in Seeders, tx[s].at \in 1 .. Len(Order), tx[s].insert,
         ~Taken(s, Kind(s)),
         \A p \in ParentsOf(Kind(s)) : p \in tx[s].new \/ tx[s].holds[p] \in row[p],
         NEW t,
         t = [Step(tx[s]) EXCEPT
               !.new = @ \cup {Kind(s)},
               !.holds = IF Kind(s) \in Kinds THEN [@ EXCEPT ![Kind(s)] = Row(s)] ELSE @]
  PROVE  /\ Held(t) /\ Fitting(t) /\ t.new = tx[s].new \cup {Kind(s)}
<1> DEFINE k == Kind(s)
           o == tx[s]
           holds == IF k \in Kinds THEN [o.holds EXCEPT ![k] = Row(s)] ELSE o.holds
<1>1. /\ o.at \in 1 .. 7 /\ k \in Parts /\ Place[k] = o.at /\ o \in Transactions
      /\ \A j \in Parts : Place[j] = o.at => j = k
      /\ \A j \in Kinds : Named(o.holds[j])
  BY AtStep
<1>2. Row(s) \in Names /\ Named(Row(s))
  BY RowIs DEF DemoInv
<1>3. /\ Step(o) \in Transactions /\ Step(o).at = o.at + 1 /\ ~Step(o).insert
      /\ Step(o).new = o.new /\ Step(o).holds = o.holds
  BY <1>1, StepIs
<1>4. t = [[Step(o) EXCEPT !.new = Step(o).new \cup {k}] EXCEPT !.holds = holds]
  BY <1>3 DEF Transactions
<1>5. holds \in [Kinds -> Names] /\ \A j \in Kinds : holds[j] = IF j = k THEN Row(s) ELSE o.holds[j]
  <2>1. o.holds \in [Kinds -> Names]
    BY <1>1 DEF Transactions
  <2> QED BY <1>2, <2>1
<1>6. Fitting(o) /\ o.insert /\ ~Taken(s, k)
  BY DEF DemoInv
<1>7. \A p \in ParentsOf(k) : p \in o.new \/ o.holds[p] \in row[p]
  OBVIOUS
<1> HIDE DEF holds, o, k
<1>8. t \in Transactions /\ t.at = o.at + 1 /\ ~t.insert /\ t.new = o.new \cup {k} /\ t.holds = holds
  <2>1. o.new \cup {k} \in SUBSET Parts
    BY <1>1 DEF Transactions
  <2> QED BY <1>3, <1>4, <1>5, <2>1 DEF Transactions
<1>9. Held(t)
  BY <1>1, <1>2, <1>5, <1>8 DEF Held
<1>10. /\ Place["rule"] = 1 /\ Place["event"] = 2 /\ Place["case"] = 5 /\ Place["activity"] = 7
       /\ \A j \in Parts : Place[j] \in 1 .. 7
       /\ o.at = 1 <=> k = "rule"
       /\ o.at = 2 <=> k = "event"
       /\ \A j \in Parts : Place[j] < t.at <=> Place[j] < o.at \/ j = k
  <2>1. /\ Place["rule"] = 1 /\ Place["event"] = 2 /\ Place["case"] = 5 /\ Place["activity"] = 7
        /\ \A j \in Parts : Place[j] \in 1 .. 7
    BY OrderIs DEF Place
  <2>2. (o.at = 1 <=> k = "rule") /\ (o.at = 2 <=> k = "event")
    BY <1>1, <2>1 DEF Parts
  <2>3. \A j \in Parts : Place[j] < t.at <=> Place[j] < o.at \/ Place[j] = o.at
    BY <1>1, <1>8, <2>1
  <2> QED BY <1>1, <2>1, <2>2, <2>3
<1>11. t.at \in Nat /\ (o.at # 1 => t.at > 2)
  BY <1>1, <1>8
<1>12. /\ k \in Kinds => row[k] = {}
       /\ "rule" \in t.new => row["rule"] = {}
  <2>1. k \in Kinds => row[k] = {}
    BY <1>6, SeesIs DEF Taken, Keyed, Kinds
  <2>2. "rule" \in o.new => row["rule"] = {}
    BY <1>6 DEF Fitting
  <2> QED BY <1>8, <2>1, <2>2 DEF Kinds
<1>13. CASE o.at = 1
  <2>1. t.at = 2 /\ t.new \subseteq {"rule"}
    BY <1>6, <1>8, <1>10, <1>13 DEF Fitting
  <2> QED BY <1>8, <1>9, <1>12, <2>1 DEF Fitting, k, o
<1>14. CASE o.at = 2
  <2>1. k = "event" /\ o.new \subseteq {"rule"} /\ t.at = 3 /\ t.new \subseteq {"rule", "event"}
        /\ "event" \in t.new
    BY <1>6, <1>8, <1>10, <1>14 DEF Fitting
  <2>2. Bare
    BY <1>12, <2>1 DEF DemoInv, Whole, WholeWith, Kinds
  <2>3. \A j \in Parts : Place[j] < t.at => j \in {"rule", "event"}
    BY <1>1, <1>10, <2>1 DEF Parts, Place
  <2>4. Inserting(t)
    BY <1>10, <2>1, <2>2, <2>3 DEF Inserting
  <2>5. t.at > 2 /\ "event" \in t.new
    BY <2>1
  <2>6. Fitting(t)
    BY <1>8, <1>11, <1>12, <2>4, <2>5, GoesOn
  <2> QED BY <1>8, <1>9, <2>6 DEF k, o
<1>15. CASE o.at > 2 /\ "event" \in o.new
  <2>1. o.at > 2
    BY <1>15
  <2>2. Inserting(o)
    BY <1>6, <1>15 DEF Fitting
  <2>3. \A j \in Parts : /\ j \in t.new => Place[j] < t.at
                         /\ Place[j] < t.at /\ j \notin {"rule", "case", "activity"} => j \in t.new
    BY <1>8, <1>10, <2>2 DEF Inserting
  <2>4. "case" \in t.new => row["case"] = {}
    BY <1>8, <1>12, <2>2 DEF Inserting, Kinds
  <2>5. ASSUME t.at > 5, "case" \notin t.new PROVE row["case"] = {t.holds["case"]}
    <3>1. o.at > 5
      BY <1>1, <1>8, <1>10, <2>5 DEF Parts
    <3>2. "case" \notin o.new /\ "case" # k
      BY <1>8, <2>5
    <3>3. t.holds["case"] = o.holds["case"]
      BY <1>5, <1>8, <3>2 DEF Kinds
    <3> QED BY <2>2, <3>1, <3>2, <3>3 DEF Inserting
  <2>6. ~(t.at > 7 /\ "activity" \notin t.new)
    BY <1>1, <1>8, <1>10 DEF Parts
  <2>7. Inserting(t)
    BY <2>2, <2>3, <2>4, <2>5, <2>6 DEF Inserting
  <2>8. t.at > 2 /\ "event" \in t.new
    BY <1>8, <1>11, <1>15
  <2>9. Fitting(t)
    BY <1>8, <1>11, <1>12, <2>7, <2>8, GoesOn
  <2> QED BY <1>8, <1>9, <2>9 DEF k, o
<1>16. CASE o.at > 2 /\ "event" \notin o.new
  <2>1. o.at > 2
    BY <1>16
  <2>2. Finding(o)
    BY <1>6, <1>16, <2>1 DEF Fitting
  <2>3. ASSUME o.at = 4 PROVE k = "alert_event"
    BY <1>1, <2>3 DEF Parts, Place
  <2>4. ASSUME o.at = 7 PROVE k = "activity"
    BY <1>1, <2>4 DEF Parts, Place
  <2>5. o.at # 4
    <3> SUFFICES ASSUME o.at = 4 PROVE FALSE
      OBVIOUS
    <3>1. PICK p \in {"alert", "event"} : o.holds[p] \notin row[p]
      BY <1>6, <2>2 DEF Finding
    <3>2. p \in ParentsOf(k) /\ p \notin o.new
      BY <2>2, <2>3, ParentsAre DEF ParentsOf, Finding
    <3> QED BY <1>7, <3>1, <3>2
  <2>6. o.at # 7
    <3> SUFFICES ASSUME o.at = 7 PROVE FALSE
      OBVIOUS
    <3>1. o.holds["case"] \notin row["case"]
      BY <1>6, <2>2 DEF Finding
    <3>2. "case" \in ParentsOf(k) /\ "case" \notin o.new
      BY <2>2, <2>4, ParentsAre DEF ParentsOf, Finding
    <3> QED BY <1>7, <3>1, <3>2
  <2>7. o.at = 6 /\ k = "case_alert"
    <3>1. o.at = 6
      BY <1>6, <2>2, <2>5, <2>6 DEF Finding
    <3> QED BY <1>1, <3>1 DEF Parts, Place
  <2>8. ParentsOf(k) = {"case", "alert"} /\ k \notin Kinds
    BY <2>7, ParentsAre DEF ParentsOf, Kinds
  <2>9. \A p \in {"case", "alert"} : o.holds[p] \in row[p]
    BY <1>7, <2>2, <2>8 DEF Finding
  <2>10. t.holds = o.holds /\ t.new \subseteq {"rule", "case_alert"} /\ t.at = 7
    BY <1>5, <1>8, <2>2, <2>7, <2>8 DEF Finding, holds
  <2>11. Finding(t)
    <3>1. \A p \in {"case", "alert"} : t.holds[p] \in row[p]
      BY <2>9, <2>10, Zenon
    <3>2. Whole
      BY <2>2 DEF Finding
    <3>3. t.at > 6
      BY <2>10
    <3> QED BY <1>8, <2>10, <3>1, <3>2, <3>3, Zenon DEF Finding
  <2>12. t.at > 2 /\ "event" \notin t.new
    BY <2>10
  <2>13. Fitting(t)
    BY <1>8, <1>11, <1>12, <2>11, <2>12, GoesOn
  <2> QED BY <1>8, <1>9, <2>13 DEF k, o
<1> QED BY <1>1, <1>13, <1>14, <1>15, <1>16

\* A row is inserted, or refused.
LEMMA InsertHolds ==
  ASSUME DemoInv, NEW s \in Seeders, tx[s].at \in 1 .. Len(Order), Insert(s)
  PROVE  DemoInv'
<1> DEFINE k == Kind(s)
           o == tx[s]
           orphan == \E p \in ParentsOf(k) : p \notin o.new /\ o.holds[p] \notin row[p]
           next == IF Taken(s, k) \/ orphan THEN Idle
                   ELSE [Step(o) EXCEPT
                          !.new = @ \cup {k},
                          !.holds = IF k \in Kinds THEN [@ EXCEPT ![k] = Row(s)] ELSE @]
<1>1. UNCHANGED <<demo, resets, downs>> /\ o.insert /\ ~Pending(s, k)
  BY DEF Insert
<1>2. tx' = [tx EXCEPT ![s] = next]
  BY DEF Insert
<1>3. CASE Taken(s, k) \/ orphan
  <2>1. next = Idle
    BY <1>3
  <2>2. Held(next) /\ Fitting(next) /\ next.new = {}
    BY <2>1, IdleFits DEF DemoInv
  <2> HIDE DEF next
  <2> QED BY <1>1, <1>2, <2>2, OneSeed
<1>4. CASE ~Taken(s, k) /\ ~orphan
  <2>1. next = [Step(o) EXCEPT
                 !.new = @ \cup {k},
                 !.holds = IF k \in Kinds THEN [@ EXCEPT ![k] = Row(s)] ELSE @]
    BY <1>4
  <2> HIDE DEF next
  <2>2. Held(next) /\ Fitting(next) /\ next.new = o.new \cup {k}
    BY <1>1, <1>4, <2>1, FlushedFits
  <2>3. \A j \in {"rule", "event"} : j \in o.new => \A u \in Seeders \ {s} : j \notin tx[u].new
    BY DEF DemoInv, Alone
  <2>4. k \in {"rule", "event"} => \A u \in Seeders \ {s} : k \notin tx[u].new
    BY <1>1 DEF Pending, Keyed
  <2> HIDE DEF k, o
  <2> QED BY <1>1, <1>2, <2>2, <2>3, <2>4, OneSeed
<1> QED BY <1>3, <1>4

\* Time goes on: a name that no reset to come uses stays one.
LEMMA NamesLast ==
  ASSUME Counters, Counters', resets <= resets', downs <= downs', NEW r \in Names, Named(r)
  PROVE  Named(r)'
BY DEF Counters, Named, Names

\* The rule or the links change, or a transaction ends, while the demo data are there.
LEMMA LinksHold ==
  ASSUME DemoInv, Whole, Whole', NamedRows', RuleOnce', UNCHANGED <<resets, downs>>,
         \A k \in Kinds \ {"rule"} : row'[k] = row[k],
         tx' = [u \in Seeders |-> tx'[u]], \A u \in Seeders : tx'[u] \in {tx[u], Idle},
         \A u \in Seeders : "rule" \in tx'[u].new => row'["rule"] = {}
  PROVE  DemoInv'
<1>1. Counters'
  BY DEF DemoInv, Counters
<1>2. ASSUME NEW r, Held(r), Fitting(r), "event" \notin r.new, "rule" \in r.new => row'["rule"] = {}
      PROVE  Held(r)' /\ Fitting(r)'
  <2>1. Held(r)'
    BY <1>2 DEF Held, Named
  <2>2. Finding(r) => Finding(r)'
    BY DEF Finding, Kinds
  <2>3. Fitting(r)'
    BY <1>2, <2>2 DEF Fitting
  <2> QED BY <2>1, <2>3
<1>3. ASSUME NEW u \in Seeders
      PROVE  (Held(tx[u]) /\ Fitting(tx[u]))' /\ tx'[u].new \subseteq tx[u].new
  <2>1. PICK r : r = tx'[u]
    OBVIOUS
  <2>2. /\ Held(tx[u]) /\ Fitting(tx[u]) /\ "event" \notin tx[u].new
        /\ Held(Idle) /\ Fitting(Idle) /\ Idle.new = {}
    BY OneOrOther, IdleFits DEF DemoInv
  <2>3. Held(r) /\ Fitting(r) /\ "event" \notin r.new /\ ("rule" \in r.new => row'["rule"] = {})
        /\ r.new \subseteq tx[u].new
    BY <2>1, <2>2
  <2>4. Held(r)' /\ Fitting(r)'
    BY <1>2, <2>3
  <2> QED BY <2>1, <2>3, <2>4 DEF Held, Fitting
<1>4. Alone'
  BY <1>3 DEF DemoInv, Alone
<1> QED BY <1>1, <1>3, <1>4 DEF DemoInv

\* Seeds that have not yet looked for the event do not care what is there.
LEMMA EarlyHolds ==
  ASSUME Counters', NamedRows', RuleOnce', Bare' \/ Whole', Alone',
         tx' = [u \in Seeders |-> tx'[u]],
         \A u \in Seeders :
           \/ tx'[u] = Idle
           \/ /\ tx'[u].at \in {1, 2} /\ tx'[u].new \subseteq {"rule"} /\ Held(tx[u])'
              /\ "rule" \in tx'[u].new => row'["rule"] = {}
  PROVE  DemoInv'
<1>1. ASSUME NEW u \in Seeders PROVE (Held(tx[u]) /\ Fitting(tx[u]))'
  <2>1. PICK r : r = tx'[u]
    OBVIOUS
  <2>2. Held(Idle)' /\ Idle.new = {} /\ Idle.at = 0 /\ ~Idle.insert
    <3>1. NoRow \in Names /\ NoRow.after = 0 /\ NoRow.by = "nobody"
      BY DEF NoRow, Names
    <3>2. Idle.at = 0 /\ Idle.new = {} /\ ~Idle.insert /\ Idle.holds = [k \in Kinds |-> NoRow]
          /\ Idle \in Transactions
      BY <3>1 DEF Idle, Transactions
    <3> QED BY <3>1, <3>2 DEF Held, Named, Counters
  <2>3. CASE r = Idle
    <3>1. Fitting(r)'
      BY <2>2, <2>3 DEF Fitting
    <3> QED BY <2>1, <2>2, <2>3, <3>1 DEF Held, Fitting
  <2>4. CASE r # Idle
    <3>1. r.at \in {1, 2} /\ r.new \subseteq {"rule"} /\ Held(r)' /\ ("rule" \in r.new => row'["rule"] = {})
      BY <2>1, <2>4 DEF Held
    <3>2. Fitting(r)'
      BY <3>1 DEF Fitting
    <3> QED BY <2>1, <3>1, <3>2 DEF Held, Fitting
  <2> QED BY <2>3, <2>4
<1> QED BY <1>1 DEF DemoInv

\* The commit of a seed publishes the demo data, or at most the rule and the link of the alert.
LEMMA CommitHolds ==
  ASSUME DemoInv, NEW s \in Seeders, CommitSeed(s)
  PROVE  DemoInv'
<1> DEFINE o == tx[s]
<1>1. /\ Publish(s, o.new) /\ UNCHANGED <<resets, downs>>
      /\ tx' = [u \in Seeders |-> tx'[u]]
      /\ \A u \in Seeders : tx'[u] = IF u = s THEN Idle ELSE tx[u]
  BY DEF CommitSeed, DemoInv
<1>2. Held(o) /\ Fitting(o) /\ o.at = 8
  <2>1. Held(o) /\ Fitting(o)
    BY DEF DemoInv
  <2>2. o.at \in 0 .. 8 /\ o.at > 7
    BY <2>1, OrderIs DEF CommitSeed, Held, Transactions
  <2> QED BY <2>1, <2>2
<1>3. /\ \A k \in Kinds : row'[k] = IF k \in o.new THEN row[k] \cup {o.holds[k]} ELSE row[k]
      /\ row' = [k \in Kinds |-> row'[k]]
      /\ links' = links \cup {Tied(k, o.holds) : k \in o.new \cap {"alert_event", "case_alert"}}
      /\ "activity" \notin o.new => acts' = acts
      /\ "activity" \in o.new =>
           acts' = acts \cup {[case |-> o.holds["case"], by |-> s, after |-> resets + downs]}
  BY <1>1 DEF Publish, Link, Tied
<1>4. NamedRows' /\ RuleOnce'
  <2>1. \A k \in Kinds : o.holds[k] \in Names /\ Named(o.holds[k])
    BY <1>2 DEF Held, Transactions
  <2>2. row' \in [Kinds -> SUBSET Names] /\ \A k \in Kinds : \A r \in row'[k] : Named(r)
    <3>1. \A k \in Kinds : row'[k] \in SUBSET Names /\ \A r \in row'[k] : Named(r)
      <4> HIDE DEF o
      <4> QED BY <1>3, <2>1 DEF DemoInv, NamedRows
    <3> QED BY <1>3, <3>1
  <2>3. \A r : Named(r) => Named(r)'
    BY <1>1 DEF Named
  <2>4. "rule" \in o.new => row["rule"] = {}
    BY <1>2 DEF Fitting
  <2>5. RuleOnce'
    <3> HIDE DEF o
    <3>1. "rule" \in Kinds
      BY DEF Kinds
    <3> QED BY <1>3, <2>1, <2>4, <3>1 DEF DemoInv, RuleOnce
  <2> QED BY <2>2, <2>3, <2>5 DEF NamedRows
<1>5. ASSUME NEW u \in Seeders, "rule" \in tx'[u].new PROVE row'["rule"] = {}
  <2>1. u # s /\ tx'[u] = tx[u] /\ "rule" \in tx[u].new
    BY <1>1, <1>5, IdleFits DEF DemoInv
  <2>2. row["rule"] = {} /\ "rule" \notin o.new
    BY <2>1 DEF DemoInv, Fitting, Alone
  <2> QED BY <1>3, <2>2 DEF Kinds
<1>6. Alone' /\ \A u \in Seeders : tx'[u] \in {tx[u], Idle}
  <2>1. Idle.new = {}
    BY IdleFits DEF DemoInv
  <2> QED BY <1>1, <2>1 DEF DemoInv, Alone
<1>7. CASE "event" \in o.new
  <2>1. Inserting(o)
    BY <1>2, <1>7 DEF Fitting
  <2>2. \A k \in Parts \ {"rule", "case", "activity"} : k \in o.new
    <3>1. \A k \in Parts : Place[k] < o.at
      BY <1>2, OrderIs
    <3> QED BY <2>1, <3>1 DEF Inserting
  <2>3. PICK h : h = o.holds
    OBVIOUS
  <2>4. \A k \in Kinds \ {"rule"} : row'[k] = {h[k]}
    <3>1. \A k \in Kinds \ {"rule", "case"} : k \in o.new /\ row[k] = {}
      BY <2>1, <2>2, OrderIs DEF Inserting, Bare, Kinds
    <3>2. CASE "case" \in o.new
      BY <1>3, <2>3, <2>1, <3>1, <3>2 DEF Inserting
    <3>3. CASE "case" \notin o.new
      <4>1. row["case"] = {h["case"]}
        BY <1>2, <2>3, <2>1, <3>3 DEF Inserting
      <4> QED BY <1>3, <2>3, <3>1, <3>3, <4>1
    <3> QED BY <3>2, <3>3
  <2>5. links' = {Tied("alert_event", h), Tied("case_alert", h)}
    <3>1. o.new \cap {"alert_event", "case_alert"} = {"alert_event", "case_alert"}
      BY <2>2 DEF Parts
    <3>2. links = {}
      BY <2>1 DEF Inserting, Bare
    <3> HIDE DEF o
    <3> QED BY <1>3, <2>3, <3>1, <3>2
  <2>6. \A a \in acts : a.by = "api" /\ a.case = h["case"]
    <3>1. \A a \in acts : a.by = "api" /\ a.case \in row["case"]
      BY <2>1 DEF Inserting, Bare
    <3>2. row["case"] \in {{}, {h["case"]}}
      BY <1>2, <2>1, <2>3 DEF Inserting
    <3> QED BY <3>1, <3>2
  <2>7. /\ acts' # {} /\ \A a \in acts' : a.case = h["case"]
        /\ \A a, b \in acts' : a.by # "api" /\ b.by # "api" => a = b
    <3>1. CASE "activity" \in o.new
      <4>1. PICK a : a = [case |-> o.holds["case"], by |-> s, after |-> resets + downs]
        OBVIOUS
      <4>2. acts' = acts \cup {a} /\ a.case = h["case"]
        BY <1>3, <2>3, <3>1, <4>1
      <4> QED BY <2>6, <4>2
    <3>2. CASE "activity" \notin o.new
      <4>1. acts # {} /\ acts' = acts
        BY <1>2, <1>3, <2>1, <3>2 DEF Inserting
      <4> QED BY <2>6, <4>1
    <3> QED BY <3>1, <3>2
  <2>8. h \in [Kinds -> Names]
    BY <1>2, <2>3 DEF Held, Transactions
  <2>9. Whole'
    <3>1. WholeWith(h)'
      BY <2>4, <2>5, <2>7, <2>8 DEF WholeWith
    <3> QED BY <3>1 DEF Whole
  <2>10. Counters'
    BY <1>1 DEF DemoInv, Counters
  <2>11. ASSUME NEW u \in Seeders
         PROVE  \/ tx'[u] = Idle
                \/ /\ tx'[u].at \in {1, 2} /\ tx'[u].new \subseteq {"rule"} /\ Held(tx[u])'
                   /\ "rule" \in tx'[u].new => row'["rule"] = {}
    <3>1. CASE u = s
      BY <1>1, <3>1
    <3>2. CASE u # s
      <4>1. tx[u].at \in 0 .. 2 /\ tx[u].new \subseteq {"rule"} /\ Held(tx[u]) /\ Fitting(tx[u])
        BY <1>7, <3>2, OthersWait DEF DemoInv
      <4>2. tx'[u] = tx[u]
        BY <1>1, <3>2
      <4>3. Held(tx[u])'
        BY <1>1, <4>1, <4>2 DEF Held, Named
      <4>4. tx[u].at = 0 => tx[u] = Idle
        BY <4>1 DEF Fitting
      <4>5. tx[u].at = 0 \/ tx[u].at \in {1, 2}
        BY <4>1
      <4> QED BY <1>5, <4>1, <4>2, <4>3, <4>4, <4>5
    <3> QED BY <3>1, <3>2
  <2> HIDE DEF o
  <2> QED BY <1>1, <1>4, <1>6, <2>9, <2>10, <2>11, EarlyHolds
<1>8. CASE "event" \notin o.new
  <2>1. Finding(o)
    BY <1>2, <1>8 DEF Fitting
  <2>2. PICK h : WholeWith(h)
    BY <2>1 DEF Finding, Whole
  <2>3. \A k \in Kinds \ {"rule"} : k \notin o.new
    BY <2>1 DEF Finding, Kinds
  <2>4. \A k \in Kinds \ {"rule"} : row'[k] = row[k]
    BY <1>3, <2>3
  <2>5. acts' = acts
    BY <1>3, <2>1 DEF Finding
  <2>6. "case_alert" \in o.new => Tied("case_alert", o.holds) = Tied("case_alert", h)
    <3> SUFFICES ASSUME "case_alert" \in o.new
                 PROVE  Tied("case_alert", o.holds) = Tied("case_alert", h)
      OBVIOUS
    <3>1. \A p \in {"case", "alert"} : o.holds[p] \in row[p]
      BY <2>1 DEF Finding
    <3>2. \A p \in {"case", "alert"} : o.holds[p] = h[p]
      BY <2>2, <3>1 DEF WholeWith, Kinds
    <3>3. \A p \in Parents["case_alert"] : o.holds[p] = h[p]
      BY <3>2, ParentsAre
    <3> HIDE DEF o
    <3> QED BY <3>3, TiedIs
  <2>7. links \subseteq links' /\ links' \subseteq links \cup {Tied("case_alert", h)}
    BY <1>3, <2>1, <2>6 DEF Finding
  <2>8. WholeWith(h)'
    BY <2>2, <2>4, <2>5, <2>7 DEF WholeWith
  <2>9. Whole /\ Whole'
    BY <2>2, <2>8 DEF Whole
  <2> HIDE DEF o
  <2> QED BY <1>1, <1>4, <1>5, <1>6, <2>4, <2>9, LinksHold
<1> QED BY <1>7, <1>8

\* An analyst unlinks the alert from a case.
LEMMA UnlinkHolds ==
  ASSUME DemoInv, Unlink
  PROVE  DemoInv'
<1>1. PICK l \in links : l[1] = "case_alert" /\ links' = links \ {l}
  BY DEF Unlink
<1>2. UNCHANGED <<row, acts, tx, resets, downs>>
  BY DEF Unlink, tools
<1>3. Whole /\ NamedRows' /\ RuleOnce'
  BY <1>1, <1>2 DEF DemoInv, Bare, NamedRows, Named, RuleOnce
<1>4. PICK h : WholeWith(h)
  BY <1>3 DEF Whole
<1>5. Tied("alert_event", h)[1] # "case_alert"
  BY TiedIs
<1>6. WholeWith(h)'
  BY <1>1, <1>2, <1>4, <1>5 DEF WholeWith
<1>7. Whole'
  BY <1>6 DEF Whole
<1>8. /\ tx' = [u \in Seeders |-> tx'[u]]
      /\ \A u \in Seeders : "rule" \in tx'[u].new => row'["rule"] = {}
  BY <1>2 DEF DemoInv, Fitting
<1> QED BY <1>2, <1>3, <1>7, <1>8, LinksHold

\* An editor gives the demo rule another name, or its name to another rule.
LEMMA RuleHolds ==
  ASSUME DemoInv, NEW S \in {{}, {Row("api")}}, row' = [row EXCEPT !["rule"] = S],
         S # {} => \A s \in Seeders : "rule" \notin tx[s].new,
         UNCHANGED <<links, acts, tx, resets, downs>>
  PROVE  DemoInv'
<1>1. Row("api") \in Names /\ Named(Row("api"))
  BY RowIs DEF DemoInv
<1>2. row \in [Kinds -> SUBSET Names] /\ "rule" \in Kinds
  BY DEF DemoInv, NamedRows, Kinds
<1>3. \A k \in Kinds : row'[k] = IF k = "rule" THEN S ELSE row[k]
  BY <1>2
<1>4. Counters' /\ NamedRows' /\ RuleOnce'
  <2>1. Counters' /\ RuleOnce'
    BY <1>1, <1>2, <1>3 DEF DemoInv, Counters, RuleOnce
  <2>2. row' \in [Kinds -> SUBSET Names]
    BY <1>1, <1>2
  <2>3. \A r : Named(r) => Named(r)'
    BY DEF Named
  <2>4. \A k \in Kinds : \A r \in row'[k] : Named(r)
    BY <1>1, <1>3 DEF DemoInv, NamedRows
  <2> QED BY <2>1, <2>2, <2>3, <2>4 DEF NamedRows
<1>5. (Bare => Bare') /\ (Whole => Whole')
  BY <1>3 DEF Bare, Whole, WholeWith, Kinds
<1>6. ASSUME NEW r, Held(r), Fitting(r), "rule" \in r.new => S = {} PROVE Held(r)' /\ Fitting(r)'
  <2>1. Held(r)'
    BY <1>6 DEF Held, Named
  <2>2. (Inserting(r) => Inserting(r)') /\ (Finding(r) => Finding(r)')
    BY <1>3, <1>5 DEF Inserting, Finding, Kinds
  <2>3. Fitting(r)'
    BY <1>2, <1>3, <1>6, <2>2 DEF Fitting
  <2> QED BY <2>1, <2>3
<1>7. ASSUME NEW u \in Seeders PROVE (Held(tx[u]) /\ Fitting(tx[u]))'
  <2>1. PICK r : r = tx[u]
    OBVIOUS
  <2>2. Held(r) /\ Fitting(r) /\ ("rule" \in r.new => S = {})
    BY <2>1 DEF DemoInv
  <2>3. Held(r)' /\ Fitting(r)'
    BY <1>6, <2>2
  <2>4. tx'[u] = r
    BY <2>1
  <2> QED BY <2>3, <2>4 DEF Held, Fitting
<1>8. Alone' /\ tx' = [u \in Seeders |-> tx'[u]]
  BY DEF DemoInv, Alone
<1> QED BY <1>4, <1>5, <1>7, <1>8 DEF DemoInv

\* A note on the demo case that repeats the text of the activity.
LEMMA NoteHolds ==
  ASSUME DemoInv, PostActivity
  PROVE  DemoInv'
<1>1. /\ UNCHANGED <<row, links, tx, resets, downs>>
      /\ \E a : acts' = acts \cup {a} /\ a.by = "api" /\ a.case \in row["case"]
  <2>1. PICK c \in row["case"] :
          acts' = acts \cup {[case |-> c, by |-> "api", after |-> resets + downs]}
    BY DEF PostActivity
  <2>2. PICK a : a = [case |-> c, by |-> "api", after |-> resets + downs]
    OBVIOUS
  <2>3. a.by = "api" /\ a.case = c
    BY <2>2
  <2> QED BY <2>1, <2>2, <2>3 DEF PostActivity, tools
<1>2. PICK a : acts' = acts \cup {a} /\ a.by = "api" /\ a.case \in row["case"]
  BY <1>1
<1>3. Counters' /\ NamedRows' /\ RuleOnce'
  BY <1>1 DEF DemoInv, Counters, NamedRows, Named, RuleOnce
<1>4. (Bare => Bare') /\ (Whole => Whole')
  <2>1. Bare => Bare'
    BY <1>1, <1>2 DEF Bare
  <2>2. ASSUME NEW h, WholeWith(h) PROVE WholeWith(h)'
    <3>1. a.case = h["case"]
      BY <1>2, <2>2 DEF WholeWith, Kinds
    <3> QED BY <1>1, <1>2, <2>2, <3>1 DEF WholeWith
  <2> QED BY <2>1, <2>2 DEF Whole
<1>5. ASSUME NEW r, Held(r), Fitting(r) PROVE Held(r)' /\ Fitting(r)'
  <2>1. Held(r)'
    BY <1>1, <1>5 DEF Held, Named
  <2>2. (Inserting(r) => Inserting(r)') /\ (Finding(r) => Finding(r)')
    BY <1>1, <1>2, <1>4 DEF Inserting, Finding
  <2>3. Fitting(r)'
    BY <1>1, <1>5, <2>2 DEF Fitting
  <2> QED BY <2>1, <2>3
<1>6. ASSUME NEW u \in Seeders PROVE (Held(tx[u]) /\ Fitting(tx[u]))'
  <2>1. PICK r : r = tx[u]
    OBVIOUS
  <2>2. Held(r)' /\ Fitting(r)' /\ tx'[u] = r
    BY <1>1, <1>5, <2>1 DEF DemoInv
  <2> QED BY <2>2 DEF Held, Fitting
<1>7. Alone' /\ tx' = [u \in Seeders |-> tx'[u]]
  BY <1>1 DEF DemoInv, Alone
<1> QED BY <1>3, <1>4, <1>6, <1>7 DEF DemoInv

\* An analyst opens a case under the number of the first demo case.
LEMMA CaseHolds ==
  ASSUME DemoInv, CreateCase
  PROVE  DemoInv'
<1>1. /\ row["case"] = {} /\ row' = [row EXCEPT !["case"] = {Row("api")}]
      /\ UNCHANGED <<links, acts, tx, resets, downs>> /\ \A s \in Seeders : "case" \notin tx[s].new
  BY DEF CreateCase, tools
<1>2. ~Whole /\ Bare
  <2>1. ~Whole
    BY <1>1 DEF Whole, WholeWith, Kinds
  <2> QED BY <2>1 DEF DemoInv
<1>3. Row("api") \in Names /\ Named(Row("api"))
  BY RowIs DEF DemoInv
<1>4. row \in [Kinds -> SUBSET Names] /\ "case" \in Kinds
  BY DEF DemoInv, NamedRows, Kinds
<1>5. \A k \in Kinds : row'[k] = IF k = "case" THEN {Row("api")} ELSE row[k]
  BY <1>1, <1>4
<1>6. Counters' /\ NamedRows' /\ RuleOnce'
  <2>1. Counters' /\ RuleOnce'
    BY <1>1, <1>4, <1>5 DEF DemoInv, Counters, RuleOnce, Kinds
  <2>2. row' \in [Kinds -> SUBSET Names]
    BY <1>1, <1>3, <1>4
  <2>3. ASSUME NEW r, Named(r) PROVE Named(r)'
    BY <1>1, <2>3 DEF Named
  <2>4. \A k \in Kinds : \A r \in row'[k] : Named(r)
    BY <1>3, <1>5 DEF DemoInv, NamedRows
  <2> QED BY <2>1, <2>2, <2>3, <2>4 DEF NamedRows
<1>7. Bare'
  BY <1>1, <1>2, <1>3, <1>5 DEF Bare, Kinds
<1>8. ASSUME NEW r, Held(r), Fitting(r), "case" \notin r.new PROVE Held(r)' /\ Fitting(r)'
  <2>1. Held(r)'
    BY <1>1, <1>8 DEF Held, Named
  <2>2. ~Finding(r)
    BY <1>2 DEF Finding
  <2>3. Inserting(r) => Inserting(r)'
    BY <1>1, <1>7, <1>8 DEF Inserting
  <2>4. Fitting(r)'
    BY <1>5, <1>8, <2>2, <2>3 DEF Fitting, Kinds
  <2> QED BY <2>1, <2>4
<1>9. ASSUME NEW u \in Seeders PROVE (Held(tx[u]) /\ Fitting(tx[u]))'
  <2>1. PICK r : r = tx[u]
    OBVIOUS
  <2>2. Held(r) /\ Fitting(r) /\ "case" \notin r.new
    BY <1>1, <2>1 DEF DemoInv
  <2>3. Held(r)' /\ Fitting(r)'
    BY <1>8, <2>2
  <2>4. tx'[u] = r
    BY <1>1, <2>1
  <2> QED BY <2>3, <2>4 DEF Held, Fitting
<1>10. Alone' /\ tx' = [u \in Seeders |-> tx'[u]]
  BY <1>1 DEF DemoInv, Alone
<1> QED BY <1>6, <1>7, <1>9, <1>10 DEF DemoInv

\* A downgrade waits for the seeds, and takes all or nothing of the demo data.
LEMMA DowngradeHolds ==
  ASSUME DemoInv, NEW to, Downgrade(to)
  PROVE  DemoInv'
<1>1. /\ \A u \in Seeders : tx[u].at = 0
      /\ downs' = downs + 1 /\ resets' = resets /\ tx' = tx
      /\ row' = IF to < 1 THEN [k \in Kinds |-> {}] ELSE row
      /\ links' = IF to < 1 THEN {} ELSE links
      /\ acts' = IF to < 1 THEN {} ELSE acts
  BY DEF Downgrade, Quiet
<1>2. Counters' /\ Counters /\ resets <= resets' /\ downs <= downs'
  BY <1>1 DEF DemoInv, Counters
<1>3. NamedRows' /\ RuleOnce'
  <2>1. CASE to < 1
    BY <1>1, <2>1 DEF NamedRows, RuleOnce, Kinds
  <2>2. CASE ~(to < 1)
    <3>1. /\ row' \in [Kinds -> SUBSET Names]
          /\ \A k \in Kinds : \A r \in row'[k] : r \in Names /\ Named(r)
      BY <1>1, <2>2 DEF DemoInv, NamedRows
    <3>2. \A k \in Kinds : \A r \in row'[k] : Named(r)'
      BY <1>2, <3>1, NamesLast
    <3>3. RuleOnce'
      BY <1>1, <2>2 DEF DemoInv, RuleOnce
    <3> QED BY <3>1, <3>2, <3>3 DEF NamedRows
  <2> QED BY <2>1, <2>2
<1>4. Bare' \/ Whole'
  <2>1. CASE to < 1
    BY <1>1, <2>1 DEF Bare, Kinds
  <2>2. CASE ~(to < 1)
    <3>1. UNCHANGED <<row, links, acts>>
      BY <1>1, <2>2
    <3>2. (Bare => Bare') /\ (Whole => Whole')
      BY <3>1 DEF Bare, Whole, WholeWith
    <3> QED BY <3>2 DEF DemoInv
  <2> QED BY <2>1, <2>2
<1>5. tx' = [u \in Seeders |-> tx'[u]] /\ (\A u \in Seeders : tx'[u] = Idle) /\ Alone'
  <2>1. \A u \in Seeders : tx[u] = Idle
    BY <1>1 DEF DemoInv, Fitting
  <2> QED BY <1>1, <2>1 DEF DemoInv, Alone
<1> QED BY <1>2, <1>3, <1>4, <1>5, EarlyHolds

\* A reset replaces all rows.  Nothing a seed has found has the name of one of the new ones.
LEMMA ResetHolds ==
  ASSUME DemoInv, Reset
  PROVE  DemoInv'
<1>1. PICK r : r = [by |-> "reset", after |-> resets + downs]
  OBVIOUS
<1>2. /\ \A s \in Seeders : tx[s].new = {}
      /\ row' = [k \in Kinds |-> {r}]
      /\ links' = {<<k, [p \in Parents[k] |-> r]>> : k \in {"alert_event", "case_alert"}}
      /\ acts' = {[case |-> r, by |-> "reset", after |-> resets + downs]}
      /\ resets' = resets + 1 /\ downs' = downs /\ tx' = tx
  BY <1>1 DEF Reset
<1>3. Counters' /\ Counters /\ resets <= resets' /\ downs <= downs'
  BY <1>2 DEF DemoInv, Counters
<1>4. r \in Names /\ r.by = "reset" /\ r.after = resets + downs
  BY <1>1, <1>3 DEF Names, Counters
<1>5. Named(r)' /\ \A x \in Names : Named(x) => x # r
  BY <1>2, <1>3, <1>4 DEF Named, Counters
<1>6. NamedRows' /\ RuleOnce'
  BY <1>2, <1>4, <1>5 DEF NamedRows, RuleOnce, Kinds
<1>7. Whole'
  <2>1. PICK h : h = [k \in Kinds |-> r]
    OBVIOUS
  <2>2. h \in [Kinds -> Names] /\ \A k \in Kinds : h[k] = r
    BY <1>4, <2>1
  <2>3. \A k \in {"alert_event", "case_alert"} : Tied(k, h) = <<k, [p \in Parents[k] |-> r]>>
    <3>1. \A k \in {"alert_event", "case_alert"} : \A p \in Parents[k] : h[p] = r
      BY <2>2, ParentsAre DEF Kinds
    <3> QED BY <3>1 DEF Tied
  <2>4. links' = {Tied("alert_event", h), Tied("case_alert", h)}
    BY <1>2, <2>3
  <2>5. \A k \in Kinds : row'[k] = {h[k]}
    BY <1>2, <2>2
  <2>6. /\ acts' # {} /\ \A a \in acts' : a.case = h["case"]
        /\ \A a, b \in acts' : a.by # "api" /\ b.by # "api" => a = b
    <3>1. h["case"] = r
      BY <2>2 DEF Kinds
    <3>2. PICK a : a = [case |-> r, by |-> "reset", after |-> resets + downs]
      OBVIOUS
    <3>3. acts' = {a} /\ a.case = r
      BY <1>2, <3>2
    <3> QED BY <3>1, <3>3
  <2>7. WholeWith(h)'
    BY <2>2, <2>4, <2>5, <2>6 DEF WholeWith
  <2> QED BY <2>7 DEF Whole
<1>8. ASSUME NEW u \in Seeders PROVE (Held(tx[u]) /\ Fitting(tx[u]))'
  <2>1. PICK t : t = tx[u]
    OBVIOUS
  <2>2. Held(t) /\ Fitting(t) /\ t.new = {} /\ tx'[u] = t
    BY <1>2, <2>1 DEF DemoInv
  <2>3. \A k \in Kinds : t.holds[k] \in Names /\ Named(t.holds[k])
    BY <2>2 DEF Held, Transactions
  <2>4. Held(t)'
    <3>1. \A k \in Kinds : Named(t.holds[k])'
      BY <1>3, <2>3, NamesLast
    <3> QED BY <2>2, <3>1 DEF Held
  <2>5. \A k \in Kinds : t.holds[k] \notin row'[k]
    BY <1>2, <1>5, <2>3
  <2>6. Finding(t) => Finding(t)'
    <3> SUFFICES ASSUME Finding(t) PROVE Finding(t)'
      OBVIOUS
    <3>1. t.insert => \/ t.at = 4 /\ \E p \in {"alert", "event"} : t.holds[p] \notin row'[p]
                      \/ t.at = 6
                      \/ t.at = 7 /\ t.holds["case"] \notin row'["case"]
      BY <2>5 DEF Finding, Kinds
    <3> QED BY <1>7, <2>2, <3>1 DEF Finding
  <2>7. Fitting(t)'
    BY <2>2, <2>6 DEF Fitting
  <2> QED BY <2>2, <2>4, <2>7 DEF Held, Fitting
<1>9. Alone' /\ tx' = [u \in Seeders |-> tx'[u]]
  BY <1>2 DEF DemoInv, Alone
<1> QED BY <1>3, <1>6, <1>7, <1>8, <1>9 DEF DemoInv

\* Every command and every call keeps it so.
LEMMA DemoStep == DemoInv /\ [DeploymentNext]_deploymentVars => DemoInv'
<1> SUFFICES ASSUME DemoInv, [DeploymentNext]_deploymentVars PROVE DemoInv'
  OBVIOUS
<1>1. CASE UNCHANGED deploymentVars
  BY <1>1, Unmoved DEF deploymentVars, tools
<1>2. ASSUME NEW to \in Stops, Upgrade(to) PROVE DemoInv'
  BY <1>2, Unmoved DEF Upgrade
<1>3. ASSUME NEW to \in Stops, Downgrade(to) PROVE DemoInv'
  BY <1>3, DowngradeHolds
<1>4. ASSUME NEW s \in Seeders, Seed(s) PROVE DemoInv'
  <2>1. ASSUME NEW kinds, GetOrCreate(s, kinds) PROVE DemoInv'
    BY <2>1, LookupHolds, InsertHolds DEF GetOrCreate
  <2> QED BY <1>4, <2>1, StartHolds, CommitHolds, CrashHolds
          DEF Seed, SeedDetectionRules, SeedEvents, SeedAlerts, SeedCases
<1>5. CASE Reset
  BY <1>5, ResetHolds
<1>6. ASSUME NEW role \in Granted, Bootstrap(role) PROVE DemoInv'
  BY <1>6, Unmoved DEF Bootstrap, tools
<1>7. CASE EditRule \/ CreateRule \/ NameRule
  <2>1. CASE EditRule
    <3>1. /\ UNCHANGED <<links, acts, tx, resets, downs>>
          /\ row' = row \/ row' = [row EXCEPT !["rule"] = {}]
      BY <2>1 DEF EditRule, tools
    <3> QED BY <3>1, Unmoved, RuleHolds DEF demo
  <2>2. CASE CreateRule
    BY <2>2, Unmoved DEF CreateRule, tools
  <2>3. CASE NameRule
    BY <2>3, RuleHolds DEF NameRule, tools
  <2> QED BY <1>7, <2>1, <2>2, <2>3
<1>8. CASE CreateCase
  BY <1>8, CaseHolds
<1>9. CASE Unlink \/ PostActivity
  BY <1>9, UnlinkHolds, NoteHolds
<1>10. CASE PipelineLogin \/ PipelineSync \/ PipelineExecute
  BY <1>10, Unmoved DEF PipelineLogin, PipelineSync, PipelineExecute, tools
<1>11. CASE \/ CheckDatabase \/ CheckMigrations \/ CheckSeedData \/ CheckApi
            \/ CheckAuthenticatedRead \/ EndSmoke
  <2>1. UNCHANGED <<demo, tx, resets, downs>>
    BY <1>11 DEF CheckDatabase, CheckMigrations, CheckSeedData, CheckApi, CheckAuthenticatedRead,
                 EndSmoke, Smoke
  <2> QED BY <2>1, Unmoved
<1> QED BY <1>1, <1>2, <1>3, <1>4, <1>5, <1>6, <1>7, <1>8, <1>9, <1>10, <1>11 DEF DeploymentNext

\* But for the name of the rule, the link of the alert to the case and repeated notes, which are
\* the API's, the demo data are there whole or not at all, and nothing of it twice, whatever
\* the number of seeds that overlap, are killed or meet a reset, a migration or the API.
THEOREM DemoDataAreOnce == DeploymentSpec => []DemoDataOnce
<1>1. DemoInv => DemoDataOnce
  <2> SUFFICES ASSUME DemoInv PROVE DemoDataOnce
    OBVIOUS
  <2> DEFINE rest == {k \in Kinds \ {"rule"} : row[k] # {}}
             tied == {l \in links : l[1] = "alert_event"}
             seeded == {a \in acts : a.by # "api"}
  <2>1. \A k \in Kinds : Cardinality(row[k]) <= 1
    BY OneRow
  <2>2. CASE Bare
    <3>1. rest \in {{}, {"case"}} /\ "event" \notin rest
      BY <2>2 DEF Bare, Kinds
    <3>2. Cardinality(seeded) = 0 /\ Cardinality(tied) = 0
      <4>1. seeded = {} /\ tied = {}
        BY <2>2 DEF Bare
      <4> QED BY <4>1, FS_EmptySet
    <3>3. links = {} /\ \A a \in acts : a.case \in row["case"]
      BY <2>2 DEF Bare
    <3>4. Cardinality(seeded) <= 0
      BY <3>2
    <3> QED BY <2>1, <3>1, <3>2, <3>3, <3>4 DEF DemoDataOnce
  <2>3. CASE Whole
    <3>1. PICK h : WholeWith(h)
      BY <2>3 DEF Whole
    <3>2. rest = Kinds \ {"rule"} /\ "event" \in rest
      BY <3>1 DEF WholeWith, Kinds
    <3>3. acts # {} /\ Cardinality(seeded) <= 1 /\ \A a \in acts : a.case \in row["case"]
      <4>1. acts # {} /\ \A a \in acts : a.case \in row["case"]
        BY <3>1 DEF WholeWith, Kinds
      <4>2. seeded = {} \/ \E a : seeded = {a}
        BY <3>1 DEF WholeWith
      <4>3. Cardinality(seeded) \in {0, 1}
        BY <4>2, FS_EmptySet, FS_Singleton
      <4> QED BY <4>1, <4>3
    <3>4. Cardinality(tied) = 1
      <4>1. Tied("alert_event", h)[1] = "alert_event" /\ Tied("case_alert", h)[1] = "case_alert"
        BY TiedIs
      <4>2. tied = {Tied("alert_event", h)}
        BY <3>1, <4>1 DEF WholeWith
      <4> QED BY <4>2, FS_Singleton
    <3>5. ASSUME NEW l \in links, NEW p \in DOMAIN l[2] PROVE l[2][p] \in row[p]
      <4>1. PICK k \in {"alert_event", "case_alert"} : l = Tied(k, h)
        BY <3>1 DEF WholeWith
      <4>2. p \in Parents[k] /\ l[2][p] = h[p]
        <5>1. DOMAIN Tied(k, h)[2] = Parents[k] /\ \A q \in Parents[k] : Tied(k, h)[2][q] = h[q]
          BY TiedIs
        <5> QED BY <3>5, <4>1, <5>1
      <4>3. p \in Kinds \ {"rule"}
        BY <4>1, <4>2, ParentsAre DEF Kinds
      <4> QED BY <3>1, <4>2, <4>3 DEF WholeWith
    <3> QED BY <2>1, <3>2, <3>3, <3>4, <3>5 DEF DemoDataOnce
  <2> QED BY <2>2, <2>3 DEF DemoInv
<1> QED BY <1>1, DemoStarts, DemoStep, PTL DEF DeploymentSpec
-----------------------------------------------------------------------------
\* What the smoke check has seen so far is so still.
SmokeInv ==
  /\ smoke = [at |-> smoke.at, ok |-> smoke.ok] /\ smoke.ok \in BOOLEAN
  /\ smoke.at \in {"seed_data", "api", "read", "end"} /\ smoke.ok = TRUE => rev = Latest
  /\ smoke.at \in {"api", "read", "end"} /\ smoke.ok = TRUE => row["alert"] # {} /\ Rules
  /\ smoke.at = "end" /\ smoke.ok = TRUE => account # "none" /\ audited = TRUE

\* A step that takes nothing away that the smoke check has seen.
LEMMA SmokeUndisturbed ==
  ASSUME SmokeInv, UNCHANGED <<rev, smoke>>, row["alert"] # {} => row'["alert"] # {},
         Rules => Rules', account # "none" => account' # "none", audited = TRUE => audited' = TRUE
  PROVE  SmokeInv'
BY DEF SmokeInv

\* Seeds only add.
LEMMA SeedAdds ==
  ASSUME NEW s \in Seeders, Seed(s)
  PROVE  /\ UNCHANGED <<rev, smoke, account, audited>>
         /\ row["alert"] # {} => row'["alert"] # {}
         /\ Rules => Rules'
<1>1. UNCHANGED <<rev, smoke, others, account, audited>>
  BY DEF Seed, StartSeed, SeedDetectionRules, SeedEvents, SeedAlerts, SeedCases, GetOrCreate,
         Lookup, Insert, CommitSeed, CrashSeed, work
<1>2. CASE CommitSeed(s)
  BY <1>1, <1>2 DEF CommitSeed, Publish, Kinds, Rules
<1>3. CASE ~CommitSeed(s)
  <2>1. row' = row
    BY <1>3 DEF Seed, StartSeed, SeedDetectionRules, SeedEvents, SeedAlerts, SeedCases, GetOrCreate,
                Lookup, Insert, CrashSeed, demo
  <2> QED BY <1>1, <2>1 DEF Rules
<1> QED BY <1>2, <1>3

\* One check.
LEMMA CheckIs ==
  ASSUME SmokeInv, NEW from, NEW ok, NEW to, Smoke(from, ok, to)
  PROVE  /\ smoke.at = from /\ smoke' = [at |-> smoke'.at, ok |-> smoke'.ok] /\ smoke'.at = to
         /\ smoke'.ok \in BOOLEAN /\ (smoke'.ok = TRUE => smoke.ok = TRUE /\ ok)
         /\ UNCHANGED <<rev, row, account>> /\ (Rules <=> Rules')
<1>1. smoke.at = from /\ smoke' = [smoke EXCEPT !.at = to, !.ok = smoke.ok /\ ok]
  BY DEF Smoke
<1>2. UNCHANGED <<rev, row, account>> /\ (Rules <=> Rules')
  BY DEF Smoke, demo, Rules
<1>3. PICK b \in BOOLEAN : b = (smoke.ok /\ ok)
  OBVIOUS
<1>4. smoke' = [smoke EXCEPT !.at = to, !.ok = b]
  BY <1>1, <1>3
<1>5. smoke' = [at |-> to, ok |-> b]
  BY <1>4 DEF SmokeInv
<1>6. smoke'.ok = b /\ smoke'.at = to
  BY <1>5
<1>7. b = TRUE => smoke.ok = TRUE /\ ok
  BY <1>3 DEF SmokeInv
<1> QED BY <1>1, <1>2, <1>5, <1>6, <1>7

\* Every step of the check, of the operator and of the API.
LEMMA SmokeStep == SmokeInv /\ NamedRows /\ [DeploymentNext]_deploymentVars => SmokeInv'
<1> SUFFICES ASSUME SmokeInv, NamedRows, [DeploymentNext]_deploymentVars PROVE SmokeInv'
  OBVIOUS
<1>1. ASSUME NEW a \in {"idle", "migrations"}, smoke' = [at |-> a, ok |-> TRUE] PROVE SmokeInv'
  BY <1>1 DEF SmokeInv
<1>2. CASE UNCHANGED deploymentVars
  BY <1>2, SmokeUndisturbed DEF deploymentVars, demo, work, tools, Rules
<1>3. ASSUME NEW to \in Stops, Upgrade(to) \/ Downgrade(to) PROVE SmokeInv'
  BY <1>1, <1>3 DEF Upgrade, Downgrade, Disturb
<1>4. CASE Reset
  BY <1>1, <1>4 DEF Reset, Disturb
<1>5. ASSUME NEW s \in Seeders, Seed(s) PROVE SmokeInv'
  BY <1>5, SeedAdds, SmokeUndisturbed
<1>6. ASSUME NEW role \in Granted, Bootstrap(role) PROVE SmokeInv'
  <2>1. role # "none"
    BY GrantAssumption
  <2> QED BY <1>6, <2>1, SmokeUndisturbed DEF Bootstrap, demo, tools, Rules
<1>7. CASE \/ CreateRule \/ Unlink \/ PostActivity
           \/ PipelineLogin \/ PipelineSync \/ PipelineExecute
  <2>1. UNCHANGED <<rev, smoke, row, account>> /\ others' \in {others, "some"}
    BY <1>7 DEF CreateRule, Unlink, PostActivity, PipelineLogin, PipelineSync, PipelineExecute, demo,
                tools
  <2>2. audited = TRUE => audited' = TRUE
    BY <1>7, Zenon
       DEF CreateRule, Unlink, PostActivity, PipelineLogin, PipelineSync, PipelineExecute, Login
  <2> QED BY <2>1, <2>2, SmokeUndisturbed DEF Rules
<1>8. CASE EditRule \/ NameRule \/ CreateCase
  <2>1. /\ UNCHANGED <<rev, smoke, account>> /\ audited' = TRUE
        /\ \/ UNCHANGED <<row, others>>
           \/ row' = [row EXCEPT !["rule"] = {}] /\ others' = "some"
           \/ row' = [row EXCEPT !["rule"] = {Row("api")}]
           \/ row' = [row EXCEPT !["case"] = {Row("api")}] /\ others' = others
    BY <1>8 DEF EditRule, NameRule, CreateCase, tools
  <2>2. PICK r : r = Row("api")
    OBVIOUS
  <2>3. row'["alert"] = row["alert"] /\ (Rules => Rules')
    <3>1. row \in [Kinds -> SUBSET Names] /\ {"rule", "alert", "case"} \subseteq Kinds
      BY DEF NamedRows, Kinds
    <3>2. CASE UNCHANGED <<row, others>>
      BY <3>2 DEF Rules
    <3>3. CASE row' = [row EXCEPT !["rule"] = {}] /\ others' = "some"
      BY <3>1, <3>3 DEF Rules
    <3>4. CASE row' = [row EXCEPT !["rule"] = {r}]
      BY <3>1, <3>4 DEF Rules
    <3>5. CASE row' = [row EXCEPT !["case"] = {r}] /\ others' = others
      BY <3>1, <3>5 DEF Rules
    <3> QED BY <2>1, <2>2, <3>2, <3>3, <3>4, <3>5
  <2> QED BY <2>1, <2>3, SmokeUndisturbed
<1>9. CASE CheckDatabase \/ EndSmoke
  BY <1>1, <1>9 DEF CheckDatabase, EndSmoke
<1>10. CASE CheckMigrations
  <2>1. /\ Smoke("migrations", AtHead, IF AtHead THEN "seed_data" ELSE "api")
        /\ audited' = audited
    BY <1>10 DEF CheckMigrations
  <2>2. PICK b \in BOOLEAN : b = AtHead
    BY DEF AtHead
  <2>3. PICK to \in {"seed_data", "api"} : to = IF AtHead THEN "seed_data" ELSE "api"
    OBVIOUS
  <2>4. Smoke("migrations", b, to)
    BY <2>1, <2>2, <2>3
  <2>5. smoke'.at = to /\ (smoke'.ok = TRUE => AtHead)
    BY <2>2, <2>4, CheckIs
  <2> QED BY <2>1, <2>3, <2>4, <2>5, CheckIs DEF SmokeInv, AtHead
<1>11. CASE CheckSeedData
  <2>1. /\ Smoke("seed_data", row["alert"] # {} /\ Rules, "api")
        /\ audited' = audited
    BY <1>11 DEF CheckSeedData
  <2>2. /\ smoke.at = "seed_data" /\ smoke'.at = "api"
        /\ smoke'.ok = TRUE => row["alert"] # {} /\ Rules
    BY <2>1, CheckIs
  <2> QED BY <2>1, <2>2, CheckIs DEF SmokeInv
<1>12. CASE CheckApi
  <2>1. PICK b \in BOOLEAN : Smoke("api", b, "read") \/ Smoke("api", FALSE, "end")
    BY <1>12 DEF CheckApi
  <2>2. audited' = audited
    BY <1>12 DEF CheckApi
  <2>3. CASE Smoke("api", b, "read")
    <3>1. smoke.at = "api" /\ smoke'.at = "read"
      BY <2>3, CheckIs
    <3> QED BY <2>2, <2>3, <3>1, CheckIs DEF SmokeInv
  <2>4. CASE Smoke("api", FALSE, "end")
    <3>1. PICK c \in BOOLEAN : c = FALSE
      OBVIOUS
    <3>2. Smoke("api", c, "end")
      BY <2>4, <3>1
    <3>3. smoke'.at = "end" /\ smoke'.ok # TRUE
      BY <3>1, <3>2, CheckIs
    <3> QED BY <2>2, <3>2, <3>3, CheckIs DEF SmokeInv
  <2> QED BY <2>1, <2>3, <2>4
<1>13. CASE CheckAuthenticatedRead
  <2>1. Smoke("read", Can({"alerts"}, Viewer), "end") /\ Login
    BY <1>13 DEF CheckAuthenticatedRead
  <2>2. PICK b \in BOOLEAN : b = Can({"alerts"}, Viewer)
    BY DEF Can
  <2>3. Smoke("read", b, "end")
    BY <2>1, <2>2
  <2>4. smoke.at = "read" /\ smoke'.at = "end" /\ (smoke'.ok = TRUE => Can({"alerts"}, Viewer))
    BY <2>2, <2>3, CheckIs
  <2>5. Can({"alerts"}, Viewer) => account # "none" /\ audited' = TRUE
    <3>1. "none" \notin Viewer
      BY DEF Viewer, Analyst, Editor
    <3>2. Can({"alerts"}, Viewer) => Audited
      BY DEF Can, Audited
    <3> QED BY <2>1, <3>1, <3>2 DEF Can, Login
  <2> QED BY <2>3, <2>4, <2>5, CheckIs DEF SmokeInv
<1> QED BY <1>2, <1>3, <1>4, <1>5, <1>6, <1>7, <1>8, <1>9, <1>10, <1>11, <1>12, <1>13
    DEF DeploymentNext

\* When the smoke check says that all is well, the database is at head with the demo data and
\* an account in it, whatever else went on meanwhile.  That the schema at head is the one of
\* the models is the premise, which has no variable in it: it is evaluated.
THEOREM SmokeSaysTrue ==
  ASSUME SchemaAt[Latest] = Metadata
  PROVE  DeploymentSpec => []SmokeSaysWhatIs
<1>1. DeploymentInit => SmokeInv
  BY DEF DeploymentInit, SmokeInv
<1>2. SmokeInv /\ DemoDataOnce => SmokeSaysWhatIs
  BY DEF SmokeInv, SmokeSaysWhatIs
<1>3. DemoInv => NamedRows
  BY DEF DemoInv
<1> QED BY <1>1, <1>2, <1>3, SmokeStep, DemoStarts, DemoStep, DemoDataAreOnce, PTL DEF DeploymentSpec
=============================================================================
