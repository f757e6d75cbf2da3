------------------------------ MODULE Workspace ------------------------------
(***************************************************************************)
(* The Streamlit pages (app/) over the API client: browser tabs, each with *)
(* a session state and a script of its own, in one process with one cache  *)
(* of figures (st.cache_data).                                             *)
(*                                                                         *)
(* Every interaction runs the script again.  A run asks the API who the    *)
(* user is, handles the click, and renders the page that is selected.      *)
(* Between two calls to the API, and between the answer to a change and    *)
(* the clearing of the cache, other tabs and clients go on.  A call may    *)
(* fail to reach the API, and the answer to a change may be lost.          *)
(*                                                                         *)
(* Every change of the data that any figure depends on counts as one       *)
(* version.  A user whose role changes loses every session (Access), so    *)
(* that a login has one role.                                              *)
(***************************************************************************)
EXTENDS Naturals

CONSTANTS
  Tabs, Logins,
  Role,         \* login -> the role of its user
  Visits,       \* bound: tab -> pages that are selected in it
  MaxChanges,   \* bound: committed changes
  None

Roles == {"viewer", "analyst", "detection_engineer", "admin"}
Pages == {"Dashboard", "Investigations", "Cases", "Detection Rules", "Reports", "Integrations"}

ASSUME LoginAssumption == None \notin Logins /\ Role \in [Logins -> Roles]
ASSUME VisitAssumption == Visits \in [Tabs -> SUBSET Pages]
ASSUME ChangeAssumption == MaxChanges \in Nat

VARIABLES
  live,    \* login -> its session in the API: none, live or dead
  data,    \* how many changes have been committed
  cache,   \* page -> the version its cached figures show, or None
  tab,     \* tab -> its session state, its script and what it shows
  ended    \* history: the latest change whose answer has been handled to the end

vars == <<live, data, cache, tab, ended>>

FigurePages == {"Dashboard", "Integrations"}

\* The session state: token, client, cached identity, selected page, opened alert and
\* case, and the logins under which the rest of it was stored.  The script: where it is,
\* the change it made or the version at which it began to load figures, and whether the
\* cache has been cleared since.  The screen: page, figures, and the changes that they
\* are to include.
Fresh == [token |-> None, client |-> None, user |-> None, page |-> "Dashboard", open |-> {},
          kept |-> {},
          at |-> "rest", since |-> 0, dropped |-> FALSE,
          shows |-> "login", figures |-> 0, due |-> 0]

Init == /\ live = [l \in Logins |-> "none"]
        /\ data = 0
        /\ cache = [p \in FigurePages |-> None]
        /\ tab = [t \in Tabs |-> Fresh]
        /\ ended = 0
-----------------------------------------------------------------------------
(* backend/security/rbac.py, as the pages use it. *)

ROLE_PERMISSIONS(role) ==
  {"read_soc"} \cup
  CASE role = "analyst" -> {"mutate_investigations", "request_ai"}
    [] role = "detection_engineer" -> {"manage_detections"}
    [] role = "admin" -> {"mutate_investigations", "request_ai", "manage_detections",
                          "operate_integrations"}
    [] OTHER -> {}

has_permission(r, p) == r.user # None /\ p \in ROLE_PERMISSIONS(Role[r.user])

Permission(page) == IF page = "Integrations" THEN "operate_integrations" ELSE "read_soc"
-----------------------------------------------------------------------------
(* The session state of a tab (app/components/api_state.py). *)

Put(t, r) == tab' = [tab EXCEPT ![t] = r]

\* Mutant: only the credentials are dropped.
CredentialsDropped(t) == [tab[t] EXCEPT !.token = None, !.user = None, !.at = "rest",
                                        !.shows = "login", !.figures = 0, !.due = 0]
clear_authenticated_session(t) == Fresh

establish_authenticated_session(t, l) ==
  [clear_authenticated_session(t) EXCEPT !.token = l, !.user = l, !.at = "start"]

\* The client is built with the first call and carries its token from then on.
get_client(t) == IF tab[t].client = None THEN tab[t].token ELSE tab[t].client

Kept(t) == tab[t].kept \cup {tab[t].token}

\* A call of a page is answered 401: the tab starts anew, with the login form.
render_error_401(t) ==
  /\ tab[t].at = "render" /\ live[get_client(t)] # "live"
  /\ Put(t, [clear_authenticated_session(t) EXCEPT !.at = "start"])
  /\ UNCHANGED <<live, data, cache, ended>>

\* The login form; its run found no token, or could not reach the API to ask about it.
render_login(t) ==
  /\ tab[t].at = "rest" /\ tab[t].shows = "login"
  /\ \E l \in Logins : /\ live[l] = "none"
                       /\ live' = [live EXCEPT ![l] = "live"]
                       /\ Put(t, establish_authenticated_session(t, l))
  /\ UNCHANGED <<data, cache, ended>>

\* A run begins, with the identity refreshed: what follows in it starts from Known(t).
Runs(t) == tab[t].at \in {"rest", "start"} /\ tab[t].token # None
Validated(t) == Runs(t) /\ live[get_client(t)] = "live"
Known(t) == [tab[t] EXCEPT !.client = get_client(t), !.user = get_client(t), !.due = ended]

\* Or the login form is shown: without a token, when the token is refused, and, with the
\* session state left alone, when the API does not answer.
validate_authenticated_session(t) ==
  /\ \/ /\ tab[t].at = "start" /\ tab[t].token = None
        /\ Put(t, [tab[t] EXCEPT !.at = "rest"])
     \/ /\ Runs(t) /\ live[get_client(t)] # "live"
        /\ Put(t, clear_authenticated_session(t))
     \/ /\ Runs(t)
        /\ Put(t, [tab[t] EXCEPT !.client = get_client(t), !.at = "rest", !.shows = "login",
                                 !.figures = 0, !.due = 0])
  /\ UNCHANGED <<live, data, cache, ended>>

\* The session is revoked if the API can be reached; the tab forgets it in any case.
logout(t) ==
  /\ Validated(t) /\ tab[t].at = "rest" /\ tab[t].shows # "login"
  /\ live' \in {live, [live EXCEPT ![get_client(t)] = "dead"]}
  /\ Put(t, [clear_authenticated_session(t) EXCEPT !.at = "start"])
  /\ UNCHANGED <<data, cache, ended>>

\* The browser reloads the page, or closes it: a new session state.
Reload(t) == /\ tab[t].at = "rest" /\ tab[t].token # None
             /\ Put(t, Fresh)
             /\ UNCHANGED <<live, data, cache, ended>>
-----------------------------------------------------------------------------
(* Rendering the selected page (app/main.py). *)

\* A button of the sidebar may have been clicked; without permission the page falls back
\* to the dashboard.
render_sidebar_navigation(t) ==
  /\ Validated(t)
  /\ \E p \in Visits[t] \cup {tab[t].page} :
       LET page == IF has_permission(Known(t), Permission(p)) THEN p ELSE "Dashboard" IN
       /\ tab[t].at = "start" \/ tab[t].shows = "login" => p = tab[t].page
       /\ Put(t, [Known(t) EXCEPT !.page = page, !.kept = Kept(t), !.at = "render",
                                  !.shows = page, !.figures = 0])
  /\ UNCHANGED <<live, data, cache, ended>>

Rest(r) == [r EXCEPT !.at = "rest", !.since = 0, !.dropped = FALSE]

\* A page without figures is complete.
render_page(t) ==
  /\ tab[t].at = "render" /\ tab[t].page \notin FigurePages
  /\ live[get_client(t)] = "live"
  /\ Put(t, Rest([tab[t] EXCEPT !.due = 0]))
  /\ UNCHANGED <<live, data, cache, ended>>

\* A call of the page fails without a 401, and what it was for is left out.
render_error(t) ==
  /\ tab[t].at \in {"render", "fetch"}
  /\ Put(t, Rest([tab[t] EXCEPT !.due = 0, !.shows = "error", !.figures = 0]))
  /\ UNCHANGED <<live, data, cache, ended>>
-----------------------------------------------------------------------------
(* Figures (app/views/dashboard.py and integrations.py). *)

Shown(t, v) == Rest([tab[t] EXCEPT !.figures = v])

\* A loader finds its figures in the cache, or asks the API.
LoadFigures(t) ==
  LET p == tab[t].page IN
  /\ tab[t].at = "render" /\ p \in FigurePages
  /\ \/ cache[p] # None /\ Put(t, Shown(t, cache[p]))
     \/ cache[p] = None /\ live[get_client(t)] = "live"
        /\ Put(t, [tab[t] EXCEPT !.at = "fetch", !.since = data])
  /\ UNCHANGED <<live, data, cache, ended>>

\* Mutant: figures are stored although the cache has been cleared since they were asked for.
StoreAnyway(t) == TRUE
\* clear() leaves those that are under way without a place to be stored.
MayStore(t) == ~tab[t].dropped

\* The API answers with figures that were counted one after the other.
FiguresArrive(t) ==
  /\ tab[t].at = "fetch"
  /\ \E v \in tab[t].since .. data :
       /\ Put(t, Shown(t, v))
       /\ cache' = IF MayStore(t) THEN [cache EXCEPT ![tab[t].page] = v] ELSE cache
  /\ UNCHANGED <<live, data, ended>>

\* ttl of st.cache_data
FiguresExpire == /\ \E p \in FigurePages : /\ cache[p] # None
                                           /\ cache' = [cache EXCEPT ![p] = None]
                 /\ UNCHANGED <<live, data, tab, ended>>
-----------------------------------------------------------------------------
(* The buttons of the pages. *)

\* A button is shown to those who have the permission; the run it starts comes to it.
Clicked(t, page, permission) ==
  /\ Validated(t) /\ tab[t].at = "rest" /\ tab[t].shows = page
  /\ has_permission(Known(t), permission)

At(t, where) == [Known(t) EXCEPT !.at = where, !.kept = Kept(t), !.due = 0]

\* A button that changes data.  Without an answer, or with a refusal, the tab shows an
\* error, whether the change was made or not; with an answer, it becomes r.
Change(t, page, permission, r) ==
  /\ Clicked(t, page, permission)
  /\ \/ /\ Put(t, At(t, "rest")) /\ UNCHANGED data
     \/ /\ data < MaxChanges /\ data' = data + 1
        /\ \/ Put(t, At(t, "rest"))
           \/ Put(t, [r EXCEPT !.since = data + 1])
  /\ UNCHANGED <<live, cache, ended>>

create_case(t) == /\ "case" \notin tab[t].open
                  /\ Change(t, "Cases", "mutate_investigations",
                            [At(t, "clear") EXCEPT !.open = @ \cup {"case"}])
\* The status and priority, the links and the notes of the case that is open.
change_case(t) == /\ "case" \in tab[t].open
                  /\ Change(t, "Cases", "mutate_investigations", At(t, "clear"))

update_status(t) == /\ "alert" \in tab[t].open
                    /\ Change(t, "Investigations", "mutate_investigations", At(t, "clear"))
\* The new case is opened in place of the alert.
escalate(t) == /\ "alert" \in tab[t].open
               /\ Change(t, "Investigations", "mutate_investigations",
                         [At(t, "clear") EXCEPT !.open = (@ \ {"alert"}) \cup {"case"},
                                                !.page = "Cases"])

\* A rule is created, edited, enabled or disabled.
change_rule(t) == Change(t, "Detection Rules", "manage_detections", At(t, "clear"))
\* The message about a run is written before the cache is cleared.
run_rule(t) == Change(t, "Detection Rules", "manage_detections", At(t, "message"))

run_sync(t) == Change(t, "Integrations", "operate_integrations", At(t, "go on"))

\* Mutant: the figures stay in the cache.
NotCleared == cache
Cleared == [p \in FigurePages |-> None]

\* st.cache_data.clear(), and the page is run again, or goes on.
ClearCache(t) ==
  /\ tab[t].at \in {"clear", "go on"}
  /\ cache' = Cleared
  /\ ended' = IF tab[t].since > ended THEN tab[t].since ELSE ended
  /\ tab' = [u \in Tabs |->
       IF u = t THEN [Rest(tab[t]) EXCEPT !.at = IF tab[t].at = "clear" THEN "start" ELSE "render"]
       ELSE [tab[u] EXCEPT !.dropped = (tab[u].at = "fetch")]]
  /\ UNCHANGED <<live, data>>

\* Writing a message is where a click that has come meanwhile ends the run.
ShowMessage(t) ==
  /\ tab[t].at = "message"
  /\ \/ Put(t, [tab[t] EXCEPT !.at = "go on"])
     \/ Put(t, [Rest(tab[t]) EXCEPT !.at = "start"])
  /\ UNCHANGED <<live, data, cache, ended>>

\* A button that only the session state remembers.
Remember(t, page, permission, r) ==
  /\ Clicked(t, page, permission)
  /\ Put(t, r)
  /\ UNCHANGED <<live, data, cache, ended>>

open_alert(t) == /\ "alert" \notin tab[t].open
                 /\ Remember(t, "Investigations", "read_soc",
                             [At(t, "rest") EXCEPT !.open = @ \cup {"alert"}])
open_case(t) == /\ "case" \notin tab[t].open
                /\ Remember(t, "Cases", "read_soc",
                            [At(t, "rest") EXCEPT !.open = @ \cup {"case"}])
\* "Back" returns to the list.
go_back(t, what, page) ==
  /\ what \in tab[t].open
  /\ Remember(t, page, "read_soc", [At(t, "start") EXCEPT !.open = @ \ {what}])

\* The advice a request is answered with is kept; no figure counts it.
request_triage(t) == /\ "alert" \in tab[t].open
                     /\ Remember(t, "Investigations", "request_ai", At(t, "start"))
draft_report(t) == Remember(t, "Reports", "request_ai", At(t, "rest"))
-----------------------------------------------------------------------------
(* What happens beside the pages. *)

\* Another client of the API, the pipeline or a seed changes data.
OtherClient == /\ data < MaxChanges /\ data' = data + 1
               /\ UNCHANGED <<live, cache, tab, ended>>

\* A session expires, or an Admin revokes it.
SessionEnds == /\ \E l \in Logins : live[l] = "live" /\ live' = [live EXCEPT ![l] = "dead"]
               /\ UNCHANGED <<data, cache, tab, ended>>

Session(t) == \/ render_login(t) \/ validate_authenticated_session(t) \/ logout(t) \/ Reload(t)
              \/ render_error_401(t)

Page(t) == \/ render_sidebar_navigation(t) \/ render_page(t) \/ render_error(t)
           \/ LoadFigures(t) \/ FiguresArrive(t) \/ open_alert(t) \/ open_case(t)
           \/ go_back(t, "case", "Cases") \/ go_back(t, "alert", "Investigations")
           \/ request_triage(t) \/ draft_report(t)

Changes(t) == \/ create_case(t) \/ change_case(t) \/ update_status(t) \/ escalate(t)
              \/ change_rule(t) \/ run_rule(t) \/ run_sync(t)
              \/ ClearCache(t) \/ ShowMessage(t)

Next == \/ \E t \in Tabs : Session(t) \/ Page(t) \/ Changes(t)
        \/ FiguresExpire \/ OtherClient \/ SessionEnds

Spec == Init /\ [][Next]_vars
-----------------------------------------------------------------------------
\* A tab never mixes two users: its client carries the token of the user it names, and
\* nothing in its session state was put there under another login, whoever signs in
\* after a logout, an expiration, a revocation, or on the form that is shown while the
\* API cannot be reached and the former login is still remembered.
OneUserPerTab ==
  \A t \in Tabs : /\ tab[t].client \in {None, tab[t].token}
                  /\ tab[t].user \in {None, tab[t].token}
                  /\ tab[t].kept \subseteq {tab[t].token}
                  /\ tab[t].token = None => tab[t].shows = "login"

\* Figures that are shown include every change that a tab had been answered, and had
\* handled to the end, before the run that shows them began, whichever tab it was and
\* whoever loaded them.  (A run of a rule whose message is interrupted is not.)
FiguresFollowAnswers ==
  \A t \in Tabs :
    tab[t].at = "rest" /\ tab[t].shows \in FigurePages => tab[t].figures >= tab[t].due
=============================================================================
