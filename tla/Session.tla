------------------------------ MODULE Session -------------------------------
(***************************************************************************)
(* The session of one browser tab: AuthService, TokenStorageService, the   *)
(* HTTP interceptor that refreshes an expired access token once for all    *)
(* the requests that trip over it (auth.interceptor.ts), the sign-in form, *)
(* and the guards that decide which page the router shows.                 *)
(*                                                                         *)
(* JavaScript runs one callback at a time, so an action is one callback    *)
(* with everything it calls; what interleaves are the answers of the API,  *)
(* which arrive in any order.  No component unsubscribes from a request.   *)
(***************************************************************************)
EXTENDS Naturals, FiniteSets

CONSTANTS
    Requests,          \* requests that can be under way at the same time
    NoTokens, Nobody,
    Admins,            \* accounts with the role ADMIN
    MaxSessions        \* model bound: times somebody signs in

VARIABLES
    storage,           \* the session whose pair of tokens is in localStorage
    user,              \* AuthService._user
    isRefreshing,      \* the interceptor's flag
    refreshed,         \* the value of refreshedToken$
    requests,          \* the requests of the tab
    phase,             \* "restoring" the session, or "running"
    page,              \* the page in the URL
    redirect,          \* where the sign-in form leads to
    form,              \* the request that keeps the sign-in form busy, or Nobody
    sessions,          \* times somebody signed in
    stranded,          \* history: requests that were queued when a refresh failed
    overtaken,         \* history: requests that began before the session in storage did
    stayed             \* history: a form that was left signed in to the page on screen

vars == <<storage, user, isRefreshing, refreshed, requests, phase, page, redirect, form,
          sessions, stranded, overtaken, stayed>>

router == <<page, redirect, form, stayed>>
history == <<stranded, overtaken>>

(* Everything but the requests.                                            *)
session == <<storage, user, isRefreshing, refreshed, phase, router>>

(* A pair of tokens is told by the sign-in it descends from, and so is the *)
(* account that signed in.  How long an access token is good for is known  *)
(* to the API alone, which may refuse any of them at any time.             *)
Accounts == 1 .. MaxSessions

(* Of a request, `pc` is "idle"; "sent" for the first time; "refreshing",   *)
(* leading a refresh; "queued" behind one; sent again by the leader,       *)
(* "retried", or from the queue, "resumed".  `kind` tells GET /auth/me at  *)
(* start, POST /auth/login and POST /auth/logout from the rest; `by` is    *)
(* the session whose token it was first sent with, `with` the one whose    *)
(* token it carries now.                                                   *)
Idle == [pc |-> "idle", kind |-> "data", by |-> Nobody, with |-> NoTokens]

ASSUME SessionAssumption ==
    /\ MaxSessions \in Nat
    /\ Admins \subseteq Accounts
    /\ NoTokens \notin Accounts
    /\ Nobody \notin Accounts \cup Requests

In(stage) == {r \in Requests : requests[r].pc = stage}

Sent(kind) ==
    [pc |-> "sent", kind |-> kind, with |-> storage,
     by |-> IF storage = NoTokens THEN Nobody ELSE storage]

Finish(r) == requests' = [requests EXCEPT ![r] = Idle]

(* What carries a token now was sent before the session changed.           *)
Overtake == overtaken' = {q \in Requests : requests'[q].with # NoTokens}

-----------------------------------------------------------------------------

(* A page of the application, one for administrators, and the sign-in form; *)
(* the registration form is one that leads to the dashboard.               *)
Pages == {"dashboard", "users", "login"}

(* authGuard and roleGuard: where a navigation to page p ends.             *)
Guarded(p, u) ==
    IF p # "login" /\ u = Nobody THEN "login"
    ELSE IF p = "users" /\ u \notin Admins THEN "dashboard"
    ELSE p

(* The router goes to page p for user u.  authGuard has the form lead to   *)
(* where they wanted to go; the form's own address may say `to`.           *)
Show(p, u, to) ==
    /\ page' = Guarded(p, u)
    /\ redirect' = IF p = "login" THEN to ELSE IF page' = "login" THEN p ELSE "dashboard"
    /\ stayed' = FALSE

(* Asked for the page it is on, the router does nothing, and runs no guard. *)
Stay(p) == p = page /\ p # "login"

(* The router is asked for page p, and goes there unless it is there.      *)
Go(p, u, to) ==
    \/ Stay(p) /\ UNCHANGED <<page, redirect, stayed>>
    \/ ~ Stay(p) /\ Show(p, u, to)

(* The form a user stays on is the one they were on, or the other of the   *)
(* two; a form that is left is gone.                                       *)
LeaveForm == form' \in IF page = "login" /\ page' = "login" THEN {form, Nobody} ELSE {Nobody}

-----------------------------------------------------------------------------

(* The page stays where it is.                                             *)
SignOut_StaysOnPage(r) ==
    /\ storage' = NoTokens
    /\ user' = Nobody
    /\ requests' = [requests EXCEPT ![r] =
          IF storage = NoTokens THEN Idle ELSE Sent("logout")]
    /\ UNCHANGED router

(* AuthService.logout, called in request r or from a free slot: the local  *)
(* session is over, r turns into POST /auth/logout, sent with the token    *)
(* that was there when it was subscribed to, and the router shows the form. *)
SignOut(r) ==
    /\ storage' = NoTokens
    /\ user' = Nobody
    /\ requests' = [requests EXCEPT ![r] =
          IF storage = NoTokens THEN Idle ELSE Sent("logout")]
    /\ Show("login", Nobody, "dashboard")
    /\ LeaveForm

LogOut(r) ==
    /\ requests[r].pc = "idle"
    /\ phase = "running"
    /\ page # "login"
    /\ SignOut(r)
    /\ UNCHANGED <<isRefreshing, refreshed, phase, sessions, history>>

(* The form is submitted, once at a time: POST /auth/login or /register,   *)
(* which goes out without a token.                                         *)
Submit(r) ==
    /\ requests[r].pc = "idle"
    /\ phase = "running"
    /\ page = "login"
    /\ form = Nobody
    /\ form' = r
    /\ requests' = [requests EXCEPT ![r] = [Idle EXCEPT !.pc = "sent", !.kind = "login"]]
    /\ UNCHANGED <<storage, user, isRefreshing, refreshed, phase, page, redirect,
                   stayed, sessions, history>>

(* applySession, and the form leads on, even one that was left meanwhile:  *)
(* to the page that is on screen, perhaps, whose guards then do not run.   *)
SignIn(r) ==
    /\ requests[r].pc = "sent" /\ requests[r].kind = "login"
    /\ sessions < MaxSessions
    /\ sessions' = sessions + 1
    /\ storage' = sessions'
    /\ user' = sessions'
    /\ \E p \in IF form = r THEN {redirect} ELSE Pages \ {"login"} :
          \/ Stay(p) /\ stayed' = TRUE /\ UNCHANGED <<page, redirect>>
          \/ ~ Stay(p) /\ Show(p, user', p)
    /\ LeaveForm
    /\ Finish(r)
    /\ Overtake
    /\ UNCHANGED <<isRefreshing, refreshed, phase, stranded>>

(* An error re-enables the form that sent the request, if it is still there. *)
SignInFails_StillBusy(r) ==
    /\ requests[r].pc = "sent" /\ requests[r].kind = "login"
    /\ Finish(r)
    /\ UNCHANGED <<session, sessions, history>>

SignInFails(r) ==
    /\ requests[r].pc = "sent" /\ requests[r].kind = "login"
    /\ form' = IF form = r THEN Nobody ELSE form
    /\ Finish(r)
    /\ UNCHANGED <<storage, user, isRefreshing, refreshed, phase, page, redirect,
                   stayed, sessions, history>>

(* A link, or the buttons of the browser.                                  *)
Navigate(p, to) ==
    /\ phase = "running"
    /\ Go(p, user, to)
    /\ LeaveForm
    /\ UNCHANGED <<storage, user, isRefreshing, refreshed, requests, phase,
                   sessions, history>>

(* The page is loaded (again): memory is lost, localStorage is not, and    *)
(* restoreSession asks the API who the tokens belong to, before the router *)
(* goes to the page of the URL.                                            *)
Load(r, p) ==
    /\ user' = Nobody
    /\ isRefreshing' = FALSE
    /\ refreshed' = NoTokens
    /\ requests' = [q \in Requests |->
          IF q = r /\ storage # NoTokens THEN Sent("me") ELSE Idle]
    /\ stranded' = {}
    /\ overtaken' = {}
    /\ IF storage = NoTokens
       THEN phase' = "running" /\ Show(p, Nobody, redirect)
       ELSE phase' = "restoring" /\ page' = p /\ stayed' = FALSE /\ UNCHANGED redirect
    /\ form' = Nobody
    /\ UNCHANGED <<storage, sessions>>

(* A component of the signed-in application makes a request.               *)
Send(r) ==
    /\ requests[r].pc = "idle"
    /\ phase = "running"
    /\ page # "login"
    /\ requests' = [requests EXCEPT ![r] = Sent("data")]
    /\ UNCHANGED <<session, sessions, history>>

-----------------------------------------------------------------------------

(* What a caller does with a success: only restoreSession touches the      *)
(* session.  And with an error: the initializer carries on without a user. *)
Succeed(r) ==
    IF requests[r].kind = "me"
    THEN /\ user' = requests[r].with
         /\ phase' = "running"
         /\ Show(page, user', redirect)
         /\ UNCHANGED form
    ELSE UNCHANGED <<user, phase, router>>

Carry(r) == phase' = IF requests[r].kind = "me" THEN "running" ELSE phase

Ok(r) ==
    /\ requests[r].pc \in {"sent", "retried", "resumed"}
    /\ requests[r].kind # "login"
    /\ Succeed(r)
    /\ Finish(r)
    /\ overtaken' = overtaken \ {r}
    /\ UNCHANGED <<storage, isRefreshing, refreshed, sessions, stranded>>

(* An error goes to the caller: any answer but 401, no answer at all, a    *)
(* 401 with no tokens to refresh, and whatever happens to a resumed request. *)
Error(r) ==
    /\ requests[r].pc \in {"sent", "resumed"}
    /\ requests[r].kind # "login"
    /\ Carry(r)
    /\ IF requests[r].kind = "me"
       THEN Show(page, Nobody, redirect)
       ELSE UNCHANGED <<page, redirect, stayed>>
    /\ UNCHANGED form
    /\ Finish(r)
    /\ overtaken' = overtaken \ {r}
    /\ UNCHANGED <<storage, user, isRefreshing, refreshed, sessions, stranded>>

(* A 401 to a first attempt, whichever token it carried, while there are   *)
(* tokens to refresh; a refused sign-in is not of this kind.               *)
Unauthorized(r) ==
    /\ requests[r].pc = "sent"
    /\ requests[r].kind # "login"
    /\ storage # NoTokens

(* While a refresh is under way the request subscribes to the subject,     *)
(* which hands it at once what it holds, if that is not null.              *)
Queue(r) ==
    /\ Unauthorized(r)
    /\ isRefreshing
    /\ requests' = [requests EXCEPT
          ![r].pc = IF refreshed = NoTokens THEN "queued" ELSE "resumed",
          ![r].with = IF refreshed = NoTokens THEN @ ELSE refreshed]
    /\ UNCHANGED <<session, sessions, history>>

(* The flag is not looked at: every 401 refreshes.                         *)
Lead_Always(r) ==
    /\ Unauthorized(r)
    /\ isRefreshing' = TRUE
    /\ refreshed' = NoTokens
    /\ requests' = [requests EXCEPT ![r].pc = "refreshing", ![r].with = storage]
    /\ UNCHANGED <<storage, user, phase, router, sessions, history>>

(* The token of the previous refresh is left in the subject.               *)
Lead_OldToken(r) ==
    /\ Unauthorized(r)
    /\ ~ isRefreshing
    /\ isRefreshing' = TRUE
    /\ requests' = [requests EXCEPT ![r].pc = "refreshing", ![r].with = storage]
    /\ UNCHANGED <<storage, user, refreshed, phase, router, sessions, history>>

(* The first 401: this request refreshes for all.                          *)
Lead(r) ==
    /\ Unauthorized(r)
    /\ ~ isRefreshing
    /\ isRefreshing' = TRUE
    /\ refreshed' = NoTokens
    /\ requests' = [requests EXCEPT ![r].pc = "refreshing", ![r].with = storage]
    /\ UNCHANGED <<storage, user, phase, router, sessions, history>>

(* The leader forgets the queue.                                           *)
Resumed_LeaderOnly(r) ==
    [q \in Requests |->
        IF q = r THEN [requests[q] EXCEPT !.pc = "retried"] ELSE requests[q]]

(* The subject emits: the queue and then the leader go out again, with a   *)
(* token of the session the leader refreshed.                              *)
Resumed(r) ==
    [q \in Requests |->
        IF q = r THEN [requests[q] EXCEPT !.pc = "retried"]
        ELSE IF requests[q].pc = "queued"
        THEN [requests[q] EXCEPT !.pc = "resumed", !.with = requests[r].with]
        ELSE requests[q]]

(* The refresh succeeds.  refreshTokens stores the new pair, whatever has  *)
(* become of the session since it was sent.                                *)
Refreshed(r) ==
    /\ requests[r].pc = "refreshing"
    /\ storage' = requests[r].with
    /\ refreshed' = requests[r].with
    /\ requests' = Resumed(r)
    /\ isRefreshing' = FALSE
    /\ stranded' = {}
    /\ IF r \in overtaken THEN Overtake ELSE UNCHANGED overtaken
    /\ UNCHANGED <<user, phase, router, sessions>>

(* The refresh fails, or else the retry of the request that led it does,   *)
(* for whatever reason: one catchError serves both.                        *)
RefreshFails(r) ==
    /\ requests[r].pc = "refreshing"
    /\ isRefreshing' = FALSE
    /\ SignOut(r)
    /\ Carry(r)
    /\ stranded' = stranded \cup In("queued")
    /\ overtaken' = overtaken \ {r}
    /\ UNCHANGED <<refreshed, sessions>>

RetryFails(r) ==
    /\ requests[r].pc = "retried"
    /\ isRefreshing' = FALSE
    /\ SignOut(r)
    /\ Carry(r)
    /\ overtaken' = overtaken \ {r}
    /\ UNCHANGED <<refreshed, sessions, stranded>>

-----------------------------------------------------------------------------

Init ==
    /\ storage = NoTokens
    /\ user = Nobody
    /\ isRefreshing = FALSE
    /\ refreshed = NoTokens
    /\ requests = [r \in Requests |-> Idle]
    /\ phase = "running"
    /\ page = "login"
    /\ redirect = "dashboard"
    /\ form = Nobody
    /\ sessions = 0
    /\ stranded = {}
    /\ overtaken = {}
    /\ stayed = FALSE

(* What happens to a request that is under way.                            *)
Answer(r) ==
    \/ SignIn(r)
    \/ SignInFails(r)
    \/ Ok(r)
    \/ Error(r)
    \/ Queue(r)
    \/ Lead(r)
    \/ Refreshed(r)
    \/ RefreshFails(r)
    \/ RetryFails(r)

Next ==
    \/ \E r \in Requests :
          LogOut(r) \/ Submit(r) \/ Send(r) \/ Answer(r) \/ \E p \in Pages : Load(r, p)
    \/ \E p \in Pages, to \in Pages \ {"login"} : Navigate(p, to)

Spec == Init /\ [][Next]_vars

(* The browser answers every request in the end, if only with an error.    *)
FairSpec == Spec /\ \A r \in Requests : WF_vars(Answer(r))

-----------------------------------------------------------------------------

(* A request is sent again with a token of the session it began in, though *)
(* the flag and the subject are shared by all and outlive the session:     *)
(* unless somebody signed in while it was under way, or a refresh that     *)
(* this had happened to put the earlier session back into storage.         *)
ResentInItsSession ==
    \A r \in Requests \ overtaken :
        requests[r].pc \in {"refreshing", "retried", "resumed"} =>
            requests[r].with = requests[r].by

(* No page is shown to somebody whom its guards would keep away, although  *)
(* they look only when the router moves, and sessions end at other times:  *)
(* unless a form that was left signed somebody in and asked for the page   *)
(* that is on screen, which the router takes for no navigation at all.     *)
PageIsAllowed ==
    phase = "running" =>
        /\ page # "login" => user # Nobody
        /\ page = "users" => user \in Admins \/ stayed

(* A form that is busy waits for an answer that can still come: it is      *)
(* never left disabled behind an error, a reload or a change of page.      *)
SubmitEnds ==
    form # Nobody =>
        /\ page = "login"
        /\ requests[form].pc = "sent" /\ requests[form].kind = "login"

(* "Concurrent 401s trigger a single refresh call": no session ever has    *)
(* two refreshes under way, whatever became of the ones before it.         *)
OneRefreshAtATime ==
    \A q, r \in In("refreshing") :
        requests[q].with = requests[r].with => q = r

(* "Queue until the in-flight refresh completes, then retry": every queued *)
(* request is sent again.                                                  *)
QueueResolves ==
    \A r \in Requests : requests[r].pc = "queued" ~> requests[r].pc # "queued"

(* The same, of a request that was not queued when a refresh failed.       *)
QueueResolvesUnlessStranded ==
    \A r \in Requests :
        requests[r].pc = "queued" ~> requests[r].pc # "queued" \/ r \in stranded
=============================================================================
