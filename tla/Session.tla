------------------------------- MODULE Session -------------------------------
(***************************************************************************)
(* The session of a user: the server's rows                                *)
(* (src/backend/app/services/auth.py, user.py and core/auth.py) and one    *)
(* tab of the browser (src/frontend/src/App.tsx, LoginPage.tsx, HomePage   *)
(* and api/client.ts).  A login reads the account and inserts the session  *)
(* in two statements with no lock between them; an administrator disables  *)
(* the account in a transaction of its own.  In the tab every request can  *)
(* be answered 401, also long after the user logged in again.              *)
(***************************************************************************)
EXTENDS Naturals, FiniteSets

CONSTANTS
    NoCookie,         \* the browser holds no csm_session
    LastSession,      \* bound: sessions created
    MaxStatusChanges, \* bound: times the account is disabled or enabled
    MaxTabCalls       \* bound: requests of the tab in flight

ASSUME SessionAssumption ==
    /\ LastSession \in Nat \ {0} /\ NoCookie \notin 1 .. LastSession
    /\ MaxStatusChanges \in Nat /\ MaxTabCalls \in Nat \ {0}

VARIABLES
    status,         \* users.status
    statusChanges,  \* how often it was changed
    sessions,       \* the account's rows of user_sessions that have not expired
    lastSession,    \* the session created last
    cookie,         \* the tab's csm_session
    tab,            \* phase: boot-loading, boot-error, login, authenticated
    tabCalls        \* requests in flight

sessionVars == <<status, statusChanges, sessions, lastSession, cookie, tab, tabCalls>>
serverSession == <<status, statusChanges, sessions, lastSession>>

------------------------------------------------------------------------------
(* here: the effect that sent it was not cleaned up, or the page that sent *)
(* it is still mounted.                                                    *)
TabCall(kind) ==
    [kind |-> kind, cookie |-> cookie, state |-> "sent", result |-> "none", here |-> TRUE]
Sends(c) == Cardinality(tabCalls) < MaxTabCalls /\ tabCalls' = tabCalls \union {c}
Waiting(kind) == \E c \in tabCalls : c.kind = kind /\ c.here

(* Which page is mounted in which phase; the boot effect is the shell's. *)
MountedIn(kind) ==
    IF kind = "login" THEN {"login"}
    ELSE IF kind = "me" THEN {"boot-loading", "boot-error", "login", "authenticated"}
    ELSE {"authenticated"}
Left(calls, next) == {[c EXCEPT !.here = @ /\ next \in MountedIn(c.kind)] : c \in calls}

SessionInit ==
    /\ status = "ACTIVE" /\ statusChanges = 0
    /\ sessions \in {{}, {1}} /\ lastSession = 1
    /\ cookie \in {NoCookie, 1}
    /\ tab = "boot-loading"
    /\ tabCalls = {TabCall("me")}

------------------------------------------------------------------------------
(* The server. *)

(* resolve_operator *)
Operator(c) == c.cookie \in sessions /\ status = "ACTIVE"

Answer(c, results) ==
    \E r \in results :
        tabCalls' = (tabCalls \ {c}) \union {[c EXCEPT !.state = "answered", !.result = r]}

(* authenticate: the row is read, then the password is verified. *)
Authenticate(c) ==
    /\ c.kind = "login" /\ c.state = "sent"
    /\ \/ /\ status = "ACTIVE"
          /\ tabCalls' = (tabCalls \ {c}) \union {[c EXCEPT !.state = "authenticated"]}
       \/ Answer(c, {"unauthorized"})
    /\ UNCHANGED <<serverSession, cookie, tab>>

(* create_session *)
CreateSession(c) ==
    /\ c.kind = "login" /\ c.state = "authenticated" /\ lastSession < LastSession
    /\ lastSession' = lastSession + 1
    /\ sessions' = sessions \union {lastSession'}
    /\ \E r \in {"ok", "lost"} :
          tabCalls' = (tabCalls \ {c})
              \union {[c EXCEPT !.state = "answered", !.result = r, !.cookie = lastSession']}
    /\ UNCHANGED <<status, statusChanges, cookie, tab>>

(* GET /auth/me, or any request of a page. *)
ServerAuthorizes(c) ==
    /\ c.kind \in {"me", "page"} /\ c.state = "sent"
    /\ Answer(c, IF Operator(c) THEN {"ok", "lost"} ELSE {"unauthorized", "lost"})
    /\ UNCHANGED <<serverSession, cookie, tab>>

(* logout, with delete_session *)
ServerLogsOut(c) ==
    /\ c.kind = "logout" /\ c.state = "sent"
    /\ IF Operator(c)
       THEN sessions' = sessions \ {c.cookie} /\ Answer(c, {"ok", "lost"})
       ELSE UNCHANGED sessions /\ Answer(c, {"unauthorized", "lost"})
    /\ UNCHANGED <<status, statusChanges, lastSession, cookie, tab>>

(* Refused for another reason, or not answered at all. *)
ServerFails(c) ==
    /\ c.state \in {"sent", "authenticated"}
    /\ Answer(c, {"lost"})
    /\ UNCHANGED <<serverSession, cookie, tab>>

(* The sessions go in the transaction that disables the account. *)
SessionsAfter(s) == IF s = "DISABLED" THEN {} ELSE sessions

(* update_user.  (The version it names is the subject of ListPage.) *)
UpdateStatus(s) ==
    /\ s # status /\ statusChanges < MaxStatusChanges
    /\ status' = s /\ statusChanges' = statusChanges + 1
    /\ sessions' = SessionsAfter(s)
    /\ UNCHANGED <<lastSession, cookie, tab, tabCalls>>

Expire(i) ==
    /\ i \in sessions
    /\ sessions' = sessions \ {i}
    /\ UNCHANGED <<status, statusChanges, lastSession, cookie, tab, tabCalls>>

------------------------------------------------------------------------------
(* The tab. *)

(* The button of the error; a new attempt cancels the one before. *)
RetryBoot ==
    /\ tab = "boot-error"
    /\ Cardinality(tabCalls) < MaxTabCalls
    /\ tabCalls' = {[c EXCEPT !.here = @ /\ c.kind # "me"] : c \in tabCalls} \union {TabCall("me")}
    /\ UNCHANGED <<serverSession, cookie, tab>>

(* handleSubmit of the login page *)
SubmitLogin ==
    /\ tab = "login" /\ ~Waiting("login")
    /\ Sends(TabCall("login"))
    /\ UNCHANGED <<serverSession, cookie, tab>>

(* handleLogout *)
Logout ==
    /\ tab = "authenticated" /\ ~Waiting("logout")
    /\ Sends(TabCall("logout"))
    /\ UNCHANGED <<serverSession, cookie, tab>>

PageRequest ==
    /\ tab = "authenticated"
    /\ Sends(TabCall("page"))
    /\ UNCHANGED <<serverSession, cookie, tab>>

(* handleResponse calls the handler of 401 before anything else; an answer *)
(* that was cancelled calls it too.                                        *)
NextPhase(c) ==
    IF c.result = "unauthorized" THEN "login"
    ELSE IF c.kind = "me" /\ c.here THEN (IF c.result = "ok" THEN "authenticated" ELSE "boot-error")
    ELSE IF c.result = "ok" /\ c.kind = "login" THEN "authenticated"
    ELSE IF c.result = "ok" /\ c.kind = "logout" THEN "login"
    ELSE tab

(* The cookie comes and goes with the answer. *)
NextCookie(c) ==
    IF c.result # "ok" THEN cookie
    ELSE IF c.kind = "login" THEN c.cookie
    ELSE IF c.kind = "logout" THEN NoCookie
    ELSE cookie

TabAnswer(c) ==
    /\ c.state = "answered"
    /\ tab' = NextPhase(c) /\ cookie' = NextCookie(c)
    /\ tabCalls' = Left(tabCalls \ {c}, tab')
    /\ UNCHANGED serverSession

ServerHandles(c) ==
    Authenticate(c) \/ CreateSession(c) \/ ServerAuthorizes(c) \/ ServerLogsOut(c) \/ ServerFails(c)

SessionNext ==
    \/ \E c \in tabCalls : ServerHandles(c) \/ TabAnswer(c)
    \/ \E s \in {"ACTIVE", "DISABLED"} : UpdateStatus(s)
    \/ \E i \in sessions : Expire(i)
    \/ RetryBoot \/ SubmitLogin \/ Logout \/ PageRequest

SessionSpec == SessionInit /\ [][SessionNext]_sessionVars

(* Requests of a kind are handled or given up by the browser, however many *)
(* of another kind there are.                                              *)
Progress(kind) == \E c \in tabCalls : c.kind = kind /\ (ServerHandles(c) \/ TabAnswer(c))
SessionFairness ==
    /\ WF_sessionVars(Progress("me")) /\ WF_sessionVars(Progress("login"))
    /\ WF_sessionVars(Progress("logout")) /\ WF_sessionVars(Progress("page"))

------------------------------------------------------------------------------
(* The types of the session's state. *)
SessionTypeOK ==
    /\ status \in {"ACTIVE", "DISABLED"}
    /\ sessions \subseteq 1 .. lastSession /\ lastSession \in 1 .. LastSession
    /\ cookie \in 1 .. lastSession \union {NoCookie}
    /\ tab \in {"boot-loading", "boot-error", "login", "authenticated"}
    /\ \A c \in tabCalls :
          /\ c.kind \in {"me", "login", "logout", "page"}
          /\ c.state \in {"sent", "authenticated", "answered"}

(* Disabling an account deletes its sessions in the same transaction: a    *)
(* DISABLED account has none.                                              *)
DisabledHasNoSessions == status = "DISABLED" => sessions = {}

(* The shell does not boot forever, a login is answered and so is a logout. *)
SessionSettles ==
    /\ tab = "boot-loading" ~> tab # "boot-loading"
    /\ Waiting("login") ~> ~Waiting("login")
    /\ Waiting("logout") ~> ~Waiting("logout")
=============================================================================
