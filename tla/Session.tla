------------------------------ MODULE Session ------------------------------
(***************************************************************************)
(* The session of one tab of the web UI: the store that keeps the token,   *)
(* its copy in localStorage that other tabs write too, the requests in     *)
(* flight with the token they were sent with, the guards of the router,    *)
(* the log-in pages, and the retries of the query client.                  *)
(***************************************************************************)
EXTENDS Naturals, FiniteSets

CONSTANTS
    Jwts,       \* the tokens that log-ins return, each one once
    Keys,       \* project API keys a user may enter
    StaffJwts,  \* the tokens whose platform_role is staff or above
    NoToken,
    Reqs,       \* names for requests in flight
    NoReq,
    MaxRetries, \* retries of a query that failed: 2
    MaxFaults,  \* bound: answers that are lost or 5xx
    MaxLoads    \* bound: times the page is loaded again

ASSUME TokensAssumption == NoToken \notin Jwts \cup Keys /\ StaffJwts \subseteq Jwts
ASSUME ReqsAssumption == NoReq \notin Reqs
ASSUME RetriesAssumption == MaxRetries \in Nat /\ MaxFaults \in Nat /\ MaxLoads \in Nat

VARIABLES
    session,    \* token, mode and platform role
    stored,     \* the same in localStorage, as the last tab wrote it
    issued,     \* JWTs that the server has handed out
    expired,    \* tokens that the server no longer accepts
    reqs,       \* requests in flight
    path,       \* the route
    from,       \* the state RequireAuth gives to the log-in page, or "none"
    submitting, \* the log-in request of the page that is shown
    faults, loads

vars == <<session, stored, issued, expired, reqs, path, from, submitting, faults, loads>>

Tokens == Jwts \cup Keys
\* The page of the projects stands for every page of the app that has no guard of its own, the start
\* of the app for every index route, and the root for every address that the router does not know.
AppPaths == {"app", "projects", "admin"}
Paths == AppPaths \cup {"root", "login", "register"}
Roles == {"none", "user", "staff"}

(* setSession decodes a JWT; an API key has no role, whatever it is. *)
SessionOf(t, mode) ==
    [token |-> t, mode |-> mode,
     role |-> IF mode = "api_key" \/ t \notin Jwts THEN "none"
              ELSE IF t \in StaffJwts THEN "staff" ELSE "user"]
Cleared == [token |-> NoToken, mode |-> "jwt", role |-> "none"]

SessionType == [token : Tokens \cup {NoToken}, mode : {"jwt", "api_key"}, role : Roles]
(* A query is retried while a component observes it.  Mutations, log-ins and the queries with
   retry: false are watched by none. *)
ReqType == [state : {"free", "sent", "waiting"}, kind : {"typed", "raw", "login"},
            token : Tokens \cup {NoToken}, tries : 0 .. MaxRetries, dest : Paths, outlived : BOOLEAN,
            watch : {"observed", "left", "none"}]
FreeReq == [state |-> "free", kind |-> "typed", token |-> NoToken, tries |-> 0,
            dest |-> "app", outlived |-> FALSE, watch |-> "none"]

TypeOK ==
    /\ session \in SessionType /\ stored \in SessionType
    /\ issued \subseteq Jwts /\ expired \subseteq Tokens
    /\ reqs \in [Reqs -> ReqType]
    /\ path \in Paths /\ from \in AppPaths \cup {"none"}
    /\ submitting \in Reqs \cup {NoReq}
    /\ submitting # NoReq => reqs[submitting].state = "sent" /\ reqs[submitting].kind = "login"
    /\ faults \in 0 .. MaxFaults /\ loads \in 0 .. MaxLoads

Valid(t) == t # NoToken /\ t \notin expired

-----------------------------------------------------------------------------
(* The guards and the index routes: where the element of path p navigates to, p if it stays. *)
RequireAuth(p, s) == IF s.token = NoToken THEN "login" ELSE p
RequirePlatformRole(p, s) == IF s.role = "staff" THEN p ELSE "app"
\* Mutant: a session is sent from one log-in page to the other.
RedirectIfAuthedToOther(p, s) ==
    IF s.token = NoToken THEN p ELSE IF p = "login" THEN "register" ELSE "login"
RedirectIfAuthed(p, s) == IF s.token # NoToken THEN "app" ELSE p
RedirectOf(p, s) ==
    CASE p = "root" -> "app"
      [] p \in {"login", "register"} -> RedirectIfAuthed(p, s)
      [] p \in AppPaths ->
            IF RequireAuth(p, s) # p THEN RequireAuth(p, s)
            ELSE CASE p = "app" -> "projects"
                   [] p = "admin" -> RequirePlatformRole(p, s)
                   [] OTHER -> p
Shown(p) == path = p /\ RedirectOf(path, session) = path

\* Every change of the store is written to localStorage, and the requests in flight outlive it.
SetSession(s) ==
    /\ session' = s
    /\ stored' = s
Outlived(rs) == [r \in Reqs |-> [rs[r] EXCEPT !.outlived = rs[r].state # "free"]]
\* The queries in flight when page p is rendered: those of the layout and of the page are observed,
\* also when they were left and never ended, the others no longer.  A log-in page observes none.
Rendered(p, rs) ==
    {[r \in Reqs |-> IF rs[r].watch = "none" THEN rs[r]
                     ELSE [rs[r] EXCEPT !.watch = IF r \in kept THEN "observed" ELSE "left"]] :
        kept \in IF p \in AppPaths THEN SUBSET Reqs ELSE {{}}}

-----------------------------------------------------------------------------
Init ==
    /\ session = Cleared /\ stored = Cleared
    /\ issued = {} /\ expired = {}
    /\ reqs = [r \in Reqs |-> FreeReq]
    /\ path = "root" /\ from = "none" /\ submitting = NoReq /\ faults = 0 /\ loads = 0

(* A guard or an index route renders Navigate. *)
Redirect ==
    /\ RedirectOf(path, session) # path
    /\ path' = RedirectOf(path, session)
    /\ from' = IF path \in AppPaths /\ session.token = NoToken THEN path ELSE "none"
    /\ submitting' = NoReq
    /\ reqs' \in Rendered(path', reqs)
    /\ UNCHANGED <<session, stored, issued, expired, faults, loads>>

(* Links of the sidebar, the search and the project pages, and those between the log-in pages.
   Many pages have no guard. *)
FollowLink(p) ==
    /\ Shown(path) /\ (p # path \/ p = "projects")
    /\ p \in (IF path \in AppPaths THEN AppPaths ELSE {"login", "register"})
    /\ path' = p
    /\ reqs' \in Rendered(p, reqs)
    /\ from' = "none" /\ submitting' = NoReq
    /\ UNCHANGED <<session, stored, issued, expired, faults, loads>>

(* onSubmit of LoginPage or RegisterPage; the button is disabled while it is submitting. *)
Submit(r) ==
    /\ Shown("login") \/ Shown("register")
    /\ submitting = NoReq /\ reqs[r].state = "free"
    /\ reqs' = [reqs EXCEPT ![r] = [FreeReq EXCEPT
           !.state = "sent", !.kind = "login",
           !.dest = IF path = "login" /\ from # "none" THEN from ELSE "app"]]
    /\ submitting' = r
    /\ UNCHANGED <<session, stored, issued, expired, path, from, faults, loads>>

(* The log-in is answered: setSession and navigate run whether or not the page is still there,
   and RedirectIfAuthed may navigate too. *)
LoginSucceeds(r, t) ==
    /\ reqs[r].state = "sent" /\ reqs[r].kind = "login" /\ t \in Jwts \ issued
    /\ issued' = issued \cup {t}
    /\ SetSession(SessionOf(t, "jwt"))
    /\ path' \in {reqs[r].dest, "app"}
    /\ reqs' \in Rendered(path', Outlived([reqs EXCEPT ![r] = FreeReq]))
    /\ from' = "none" /\ submitting' = NoReq
    /\ UNCHANGED <<expired, faults, loads>>

\* The page of the request is no longer submitting, whatever came of it.
\* Mutant: only success ends it.
UnsubmittedBySuccess(r) == submitting
Unsubmitted(r) == IF submitting = r THEN NoReq ELSE submitting

\* onResponse of the typed client: a 401 clears whatever session there is.
\* Mutant: a request without rights ends the session too.
EndsSessionAlways(r, status) ==
    reqs[r].kind # "raw" /\ status # 200 /\ session.token # NoToken
EndsSession(r, status) ==
    reqs[r].kind # "raw" /\ status = 401 /\ session.token # NoToken
OnAnswer(r, status) ==
    /\ IF EndsSession(r, status)
       THEN SetSession(Cleared) /\ reqs' = Outlived([reqs EXCEPT ![r] = FreeReq])
       ELSE UNCHANGED <<session, stored>> /\ reqs' = [reqs EXCEPT ![r] = FreeReq]
    /\ submitting' = Unsubmitted(r)
    /\ UNCHANGED <<issued, expired, path, from, faults, loads>>

(* The server looks at the token first; a log-in without a token may be refused. *)
Rejected(r) ==
    /\ reqs[r].state = "sent"
    /\ reqs[r].kind = "login" \/ ~Valid(reqs[r].token)
    /\ OnAnswer(r, 401)
Answered(r, status) ==
    /\ reqs[r].state = "sent" /\ status \in {200, 403}
    /\ reqs[r].kind # "login" /\ Valid(reqs[r].token)
    /\ OnAnswer(r, status)

(* No answer, or a 5xx: a query that is still observed is tried again. *)
\* Mutant: one retry less.
ShouldRetryLess(r) == reqs[r].watch = "observed" /\ reqs[r].tries + 1 < MaxRetries
ShouldRetry(r) == reqs[r].watch = "observed" /\ reqs[r].tries < MaxRetries
Fails(r) ==
    /\ reqs[r].state = "sent" /\ faults < MaxFaults
    /\ faults' = faults + 1
    /\ reqs' = [reqs EXCEPT ![r] =
           IF ShouldRetry(r) THEN [@ EXCEPT !.state = "waiting", !.tries = reqs[r].tries + 1]
           ELSE FreeReq]
    /\ submitting' = Unsubmitted(r)
    /\ UNCHANGED <<session, stored, issued, expired, path, from, loads>>

(* The back-off ends.  The retry takes the token of the session as it is now; a query that
   nothing observes any more ends. *)
Retry(r) ==
    /\ reqs[r].state = "waiting"
    /\ reqs' = [reqs EXCEPT ![r] =
           IF reqs[r].watch = "observed"
           THEN [@ EXCEPT !.state = "sent", !.token = session.token, !.outlived = FALSE]
           ELSE FreeReq]
    /\ UNCHANGED <<session, stored, issued, expired, path, from, submitting, faults, loads>>

(* A page or the layout of the app sends a request, through the typed client or with rawFetch. *)
Send(r, kind, watch) ==
    /\ path \in AppPaths /\ Shown(path) /\ kind \in {"typed", "raw"}
    /\ reqs[r].state = "free"
    /\ reqs' = [reqs EXCEPT ![r] = [FreeReq EXCEPT !.state = "sent", !.kind = kind,
                                                  !.token = session.token, !.watch = watch]]
    /\ UNCHANGED <<session, stored, issued, expired, path, from, submitting, faults, loads>>
Query(r, kind) == Send(r, kind, "observed")
Mutate(r, kind) == Send(r, kind, "none")

(* useApiKey of LoginPage; a log-in may be in flight. *)
UseApiKey(k) ==
    /\ Shown("login")
    /\ SetSession(SessionOf(k, "api_key"))
    /\ path' = "app"
    /\ reqs' \in Rendered(path', Outlived(reqs))
    /\ from' = "none" /\ submitting' = NoReq
    /\ UNCHANGED <<issued, expired, faults, loads>>

(* The menu of the top bar clears and navigates, and RequireAuth may navigate too. *)
Logout ==
    /\ path \in AppPaths /\ Shown(path)
    /\ SetSession(Cleared)
    /\ path' = "login"
    /\ reqs' \in Rendered(path', Outlived(reqs))
    /\ from' \in {"none", path}
    /\ submitting' = NoReq
    /\ UNCHANGED <<issued, expired, faults, loads>>

(* The page is loaded again, or another address is typed: the store starts from localStorage. *)
Reload(p) ==
    /\ loads < MaxLoads
    /\ loads' = loads + 1
    /\ session' = stored
    /\ reqs' = [r \in Reqs |-> FreeReq]
    /\ path' = p
    /\ from' = "none" /\ submitting' = NoReq
    /\ UNCHANGED <<stored, issued, expired, faults>>

(* Another tab logs in or out: this one does not listen. *)
OtherTab ==
    /\ \/ stored' = Cleared /\ UNCHANGED issued
       \/ \E t \in Jwts \ issued : stored' = SessionOf(t, "jwt") /\ issued' = issued \cup {t}
    /\ UNCHANGED <<session, expired, reqs, path, from, submitting, faults, loads>>

(* A token runs out, or its key is revoked (external). *)
Expire(t) ==
    /\ t \in (issued \cup Keys) \ expired
    /\ expired' = expired \cup {t}
    /\ UNCHANGED <<session, stored, issued, reqs, path, from, submitting, faults, loads>>

Respond(r) ==
    \/ Rejected(r) \/ \E status \in {200, 403} : Answered(r, status)
    \/ \E t \in Jwts : LoginSucceeds(r, t)

Next ==
    \/ Redirect \/ Logout \/ OtherTab
    \/ \E p \in Paths : FollowLink(p) \/ Reload(p)
    \/ \E r \in Reqs : \/ Submit(r) \/ Respond(r) \/ Fails(r) \/ Retry(r)
                       \/ \E kind \in {"typed", "raw"} : Query(r, kind) \/ Mutate(r, kind)
    \/ \E t \in Tokens : Expire(t)
    \/ \E k \in Keys : UseApiKey(k)

Spec == Init /\ [][Next]_vars

(* Redirects are rendered, the server answers, back-offs end: a tab in the background, or
   without a network, comes back. *)
FairSpec ==
    /\ Spec /\ WF_vars(Redirect)
    /\ \A r \in Reqs : WF_vars(Respond(r)) /\ WF_vars(Retry(r))

-----------------------------------------------------------------------------
(* A session whose token the server accepts ends or is replaced only by logging out, by loading the page again,
   or by the answer to a request that was sent before this session began: the late 401 of another
   token, of no token, or of a log-in attempt. *)
ValidSessionsEndForAReason ==
    [][ (Valid(session.token) /\ session' # session) =>
            \/ Logout
            \/ \E p \in Paths : Reload(p)
            \/ \E r \in Reqs : reqs[r].state = "sent" /\ reqs[r].outlived /\ reqs'[r].state = "free" ]_vars

(* A session whose token has expired ends once a query of the typed client is in flight with it,
   although as many answers may be lost as there are retries, unless the page that observes the
   query is left, or loaded again, before it is answered. *)
ExpiredSessionsEnd ==
    \A r \in Reqs, n \in 0 .. MaxLoads :
        (/\ session.token \in expired /\ loads = n
         /\ reqs[r].state = "sent" /\ reqs[r].kind = "typed" /\ reqs[r].token = session.token
         /\ reqs[r].watch = "observed" /\ reqs[r].tries = 0)
            ~> (session.token \notin expired \/ reqs[r].watch = "left" \/ loads # n)

(* The guards and index routes never send a session round in circles. *)
RedirectsEnd == []<>(RedirectOf(path, session) = path)
=============================================================================
