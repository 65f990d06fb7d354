---------------------------- MODULE SessionProofs ----------------------------
(***************************************************************************)
(* Theorems about Session, for all tokens, any number of requests and all  *)
(* bounds.                                                                 *)
(***************************************************************************)
EXTENDS Session, TLAPS

\* A request is known to be sent in this session, by its token or by being a log-in, or has outlived its own.
\* A log-in is not retried.
SentInSession(q, s) ==
    /\ q.state = "sent" => \/ q.outlived
                           \/ IF q.kind = "login" THEN s.token = NoToken ELSE q.token = s.token
    /\ q.kind = "login" => q.watch = "none" /\ q.state # "waiting"
Watches == {"observed", "left", "none"}
Records == [state : {"free", "sent", "waiting"}, kind : {"typed", "raw", "login"}, token : Tokens \cup {NoToken},
            tries : Nat, dest : Paths, outlived : BOOLEAN, watch : Watches]
RequestsInv ==
    /\ session.token \in Tokens \cup {NoToken} /\ stored.token \in Tokens \cup {NoToken}
    /\ reqs \in [Reqs -> Records]
    /\ from \in AppPaths \cup {"none"}
    /\ \A r \in Reqs : SentInSession(reqs[r], session)

LEMMA FreeReqTyped == FreeReq \in Records /\ FreeReq.state = "free" /\ FreeReq.kind # "login"
BY DEF FreeReq, Records, Paths, AppPaths, Watches

\* Whatever page is rendered, requests differ at most in who observes them.
LEMMA RenderedRequests ==
    ASSUME NEW p, NEW S, S \in {Records, ReqType}, NEW rs \in [Reqs -> S], NEW rs2 \in Rendered(p, rs)
    PROVE  /\ rs2 \in [Reqs -> S]
           /\ \A r \in Reqs : /\ rs2[r].state = rs[r].state /\ rs2[r].kind = rs[r].kind
                              /\ rs2[r].token = rs[r].token /\ rs2[r].outlived = rs[r].outlived
                              /\ rs[r].watch = "none" => rs2[r].watch = "none"
<1>1. PICK kept \in SUBSET Reqs :
        rs2 = [r \in Reqs |-> IF rs[r].watch = "none" THEN rs[r]
                     ELSE [rs[r] EXCEPT !.watch = IF r \in kept THEN "observed" ELSE "left"]]
  BY DEF Rendered
<1>2. ASSUME NEW r \in Reqs, NEW w \in Watches
      PROVE  LET q == [rs[r] EXCEPT !.watch = w]
             IN  /\ q \in S /\ q.state = rs[r].state /\ q.kind = rs[r].kind
                 /\ q.token = rs[r].token /\ q.outlived = rs[r].outlived
  <2>1. rs[r] \in S
    OBVIOUS
  <2>2. CASE S = Records
    BY <2>1, <2>2 DEF Records
  <2>3. CASE S = ReqType
    BY <2>1, <2>3 DEF ReqType, Watches
  <2> QED
    BY <2>2, <2>3
<1>3. ASSUME NEW r \in Reqs
      PROVE  /\ rs2[r] \in S /\ rs2[r].state = rs[r].state /\ rs2[r].kind = rs[r].kind
             /\ rs2[r].token = rs[r].token /\ rs2[r].outlived = rs[r].outlived
             /\ rs[r].watch = "none" => rs2[r].watch = "none"
  <2> DEFINE w == IF r \in kept THEN "observed" ELSE "left"
  <2>1. w \in Watches
    BY DEF Watches
  <2>2. rs2[r] = IF rs[r].watch = "none" THEN rs[r] ELSE [rs[r] EXCEPT !.watch = w]
    BY <1>1
  <2> HIDE DEF w
  <2> QED
    BY <1>2, <2>1, <2>2
<1> QED
  BY <1>1, <1>3

\* A page is shown to those it is for: the log-in pages without a session, the others with one.
LEMMA ShownPages ==
    /\ Shown("login") \/ Shown("register") => session.token = NoToken
    /\ path \in AppPaths /\ Shown(path) => session.token # NoToken
<1>1. path \in {"login", "register"} /\ session.token # NoToken => RedirectOf(path, session) # path
  <2> SUFFICES ASSUME path \in {"login", "register"}, session.token # NoToken PROVE RedirectOf(path, session) # path
    OBVIOUS
  <2>1. path # "root" /\ path # "app" /\ path \notin AppPaths
    BY DEF AppPaths
  <2>2. RedirectIfAuthed(path, session) = "app"
    BY DEF RedirectIfAuthed
  <2>3. RedirectOf(path, session) = "app"
    BY <2>1, <2>2 DEF RedirectOf
  <2> QED
    BY <2>1, <2>3
<1>2. path \in AppPaths /\ session.token = NoToken => RedirectOf(path, session) # path
  <2> SUFFICES ASSUME path \in AppPaths, session.token = NoToken PROVE RedirectOf(path, session) # path
    OBVIOUS
  <2>1. path # "root" /\ path # "login" /\ path # "register"
    BY DEF AppPaths
  <2>2. RequireAuth(path, session) = "login"
    BY DEF RequireAuth
  <2>3. RedirectOf(path, session) = "login"
    BY <2>1, <2>2 DEF RedirectOf
  <2> QED
    BY <2>1, <2>3
<1> QED
  BY <1>1, <1>2 DEF Shown

\* Whatever session begins, the requests in flight have outlived the one before it.
LEMMA OutlivedAll ==
    ASSUME NEW rs \in [Reqs -> Records], NEW s0, \A r \in Reqs : SentInSession(rs[r], s0)
    PROVE  /\ Outlived(rs) \in [Reqs -> Records]
           /\ \A r \in Reqs : \A s : SentInSession(Outlived(rs)[r], s)
           /\ \A r \in Reqs : Outlived(rs)[r].state = rs[r].state
<1>1. ASSUME NEW r \in Reqs
      PROVE  LET q == [rs[r] EXCEPT !.outlived = rs[r].state # "free"]
             IN  /\ q \in Records /\ q.state = rs[r].state /\ q.kind = rs[r].kind
                 /\ q.watch = rs[r].watch
                 /\ q.state = "sent" => q.outlived
  BY DEF Records
<1> QED
  BY <1>1 DEF Outlived, SentInSession

\* One request changes, and the session does not.
LEMMA OneRequest ==
    ASSUME RequestsInv, NEW r \in Reqs, NEW q \in Records, SentInSession(q, session),
           reqs' = [reqs EXCEPT ![r] = q], UNCHANGED session,
           stored'.token \in Tokens \cup {NoToken}, from' \in AppPaths \cup {"none"}
    PROVE  RequestsInv'
<1>1. reqs' \in [Reqs -> Records] /\ \A p \in Reqs : reqs'[p] = IF p = r THEN q ELSE reqs[p]
  BY DEF RequestsInv
<1>2. \A p \in Reqs : SentInSession(reqs'[p], session)
  BY <1>1 DEF RequestsInv
<1> QED
  BY <1>1, <1>2 DEF RequestsInv, SentInSession

\* Requests rendered anew are in the session they were in.
LEMMA RenderedInSession ==
    ASSUME NEW p, NEW rs \in [Reqs -> Records], NEW rs2 \in Rendered(p, rs), NEW s, NEW r \in Reqs,
           SentInSession(rs[r], s)
    PROVE  SentInSession(rs2[r], s)
  BY RenderedRequests DEF SentInSession

\* A session begins, and it may be none.
LEMMA SessionBegins ==
    ASSUME RequestsInv, NEW rs \in [Reqs -> Records], NEW p,
           reqs' = Outlived(rs) \/ reqs' \in Rendered(p, Outlived(rs)),
           \A r \in Reqs : SentInSession(rs[r], session),
           session'.token \in Tokens \cup {NoToken}, stored'.token \in Tokens \cup {NoToken},
           from' \in AppPaths \cup {"none"}
    PROVE  RequestsInv'
<1>1. Outlived(rs) \in [Reqs -> Records] /\ \A r \in Reqs : \A s : SentInSession(Outlived(rs)[r], s)
  BY OutlivedAll
<1>2. reqs' \in [Reqs -> Records] /\ \A r \in Reqs : \A s : SentInSession(reqs'[r], s)
  <2>1. CASE reqs' = Outlived(rs)
    BY <1>1, <2>1
  <2>2. CASE reqs' \in Rendered(p, Outlived(rs))
    BY <1>1, <2>2, RenderedRequests, RenderedInSession
  <2> QED
    BY <2>1, <2>2
<1> QED
  BY <1>2 DEF RequestsInv, SentInSession

LEMMA RequestsInvInitially == Init => RequestsInv
<1> SUFFICES ASSUME Init PROVE RequestsInv
  OBVIOUS
<1>1. reqs \in [Reqs -> Records] /\ \A r \in Reqs : reqs[r].state = "free" /\ reqs[r].kind # "login"
  BY FreeReqTyped DEF Init
<1> QED
  BY <1>1 DEF Init, RequestsInv, SentInSession, Cleared

LEMMA TokensOfSessions ==
    /\ Cleared.token = NoToken
    /\ \A t \in Tokens, mode \in {"jwt", "api_key"} : SessionOf(t, mode).token = t
BY DEF Cleared, SessionOf

LEMMA RequestsInvKept == RequestsInv /\ [Next]_vars => RequestsInv'
<1> SUFFICES ASSUME RequestsInv, [Next]_vars PROVE RequestsInv'
  OBVIOUS
<1>0. /\ reqs \in [Reqs -> Records] /\ session.token \in Tokens \cup {NoToken} /\ stored.token \in Tokens \cup {NoToken}
      /\ from \in AppPaths \cup {"none"} /\ \A r \in Reqs : SentInSession(reqs[r], session)
  BY DEF RequestsInv
<1>1. \A r \in Reqs : /\ [reqs EXCEPT ![r] = FreeReq] \in [Reqs -> Records] /\ SentInSession(FreeReq, session)
                      /\ \A p \in Reqs : SentInSession([reqs EXCEPT ![r] = FreeReq][p], session)
  BY <1>0, FreeReqTyped DEF SentInSession
\* The page that is rendered may observe other queries.
<1>2. ASSUME NEW p, reqs' \in Rendered(p, reqs), UNCHANGED <<session, stored>>, from' \in AppPaths \cup {"none"}
      PROVE  RequestsInv'
  <2>1. reqs' \in [Reqs -> Records] /\ \A r \in Reqs : SentInSession(reqs'[r], session)
    BY <1>0, <1>2, RenderedRequests, RenderedInSession
  <2> QED
    BY <1>0, <1>2, <2>1 DEF RequestsInv, SentInSession
<1>3. CASE Redirect
  <2>1. reqs' \in Rendered(path', reqs) /\ from' \in AppPaths \cup {"none"} /\ UNCHANGED <<session, stored>>
    BY <1>3 DEF Redirect
  <2> QED
    BY <1>2, <2>1
<1>4. CASE Logout
  <2>1. reqs' \in Rendered(path', Outlived(reqs))
    BY <1>4 DEF Logout
  <2>2. session' = Cleared /\ stored' = Cleared /\ from' \in AppPaths \cup {"none"}
    BY <1>4 DEF Logout, SetSession
  <2> QED
    BY <1>0, <2>1, <2>2, SessionBegins, TokensOfSessions
<1>5. CASE OtherTab
  <2>1. stored'.token \in Tokens \cup {NoToken}
    BY <1>5, TokensOfSessions DEF OtherTab, Tokens
  <2> QED
    BY <1>0, <1>5, <2>1 DEF OtherTab, RequestsInv, SentInSession
<1>6. ASSUME NEW p \in Paths, FollowLink(p) PROVE RequestsInv'
  BY <1>2, <1>6 DEF FollowLink
<1>7. ASSUME NEW p \in Paths, Reload(p) PROVE RequestsInv'
  <2>1. reqs' \in [Reqs -> Records] /\ \A r \in Reqs : reqs'[r] = FreeReq
    BY <1>7, FreeReqTyped DEF Reload
  <2>2. session' = stored /\ stored' = stored /\ from' \in AppPaths \cup {"none"}
    BY <1>7 DEF Reload
  <2>3. \A r \in Reqs : SentInSession(reqs'[r], session')
    BY <2>1, FreeReqTyped DEF SentInSession
  <2> QED
    BY <1>0, <2>1, <2>2, <2>3 DEF RequestsInv, SentInSession
<1>8. ASSUME NEW r \in Reqs, Submit(r) PROVE RequestsInv'
  <2> DEFINE q == [FreeReq EXCEPT !.state = "sent", !.kind = "login",
                                  !.dest = IF path = "login" /\ from # "none" THEN from ELSE "app"]
  <2>1. (IF path = "login" /\ from # "none" THEN from ELSE "app") \in Paths
    BY <1>0 DEF Paths, AppPaths
  <2>2. q \in Records /\ q.kind = "login" /\ q.watch = "none" /\ q.state = "sent"
    BY <2>1, FreeReqTyped DEF Records, FreeReq
  <2>3. session.token = NoToken
    BY <1>8, ShownPages DEF Submit
  <2>4. SentInSession(q, session)
    BY <2>2, <2>3 DEF SentInSession
  <2>5. reqs' = [reqs EXCEPT ![r] = q] /\ UNCHANGED <<session, stored, from>>
    BY <1>8 DEF Submit
  <2> HIDE DEF q
  <2> QED
    BY <1>0, <2>2, <2>4, <2>5, OneRequest
<1>9. ASSUME NEW r \in Reqs, Rejected(r) \/ (\E status \in {200, 403} : Answered(r, status)) PROVE RequestsInv'
  <2>1. PICK status : OnAnswer(r, status)
    BY <1>9 DEF Rejected, Answered
  <2>2. CASE EndsSession(r, status)
    <3>1. session' = Cleared /\ stored' = Cleared /\ reqs' = Outlived([reqs EXCEPT ![r] = FreeReq]) /\ UNCHANGED from
      BY <2>1, <2>2 DEF OnAnswer, SetSession
    <3> QED
      BY <1>0, <1>1, <3>1, SessionBegins, TokensOfSessions
  <2>3. CASE ~EndsSession(r, status)
    <3>1. UNCHANGED <<session, stored, from>> /\ reqs' = [reqs EXCEPT ![r] = FreeReq]
      BY <2>1, <2>3 DEF OnAnswer
    <3> QED
      BY <1>0, <1>1, <3>1, OneRequest, FreeReqTyped
  <2> QED
    BY <2>2, <2>3
<1>10. ASSUME NEW r \in Reqs, NEW t \in Jwts, LoginSucceeds(r, t) PROVE RequestsInv'
  <2>1. /\ session' = SessionOf(t, "jwt") /\ stored' = SessionOf(t, "jwt") /\ from' = "none"
        /\ reqs' \in Rendered(path', Outlived([reqs EXCEPT ![r] = FreeReq]))
    BY <1>10 DEF LoginSucceeds, SetSession
  <2> QED
    BY <1>1, <2>1, SessionBegins, TokensOfSessions DEF Tokens
<1>11. ASSUME NEW r \in Reqs, Fails(r) PROVE RequestsInv'
  <2> DEFINE q == IF ShouldRetry(r)
                    THEN [reqs[r] EXCEPT !.state = "waiting", !.tries = reqs[r].tries + 1] ELSE FreeReq
  <2>1. reqs[r].tries + 1 \in Nat
    BY <1>0 DEF Records
  <2>2. q \in Records /\ q.state # "sent"
    BY <1>0, <2>1, FreeReqTyped DEF Records
  <2>6. q.kind # "login"
    <3>1. ShouldRetry(r) => reqs[r].kind # "login"
      BY <1>0 DEF ShouldRetry, SentInSession
    <3>2. q.kind = IF ShouldRetry(r) THEN reqs[r].kind ELSE FreeReq.kind
      BY <1>0 DEF Records
    <3> QED
      BY <3>1, <3>2, FreeReqTyped
  <2>3. reqs' = [reqs EXCEPT ![r] = q] /\ UNCHANGED <<session, stored, from>>
    BY <1>11 DEF Fails
  <2>4. SentInSession(q, session)
    BY <2>2, <2>6 DEF SentInSession
  <2> HIDE DEF q
  <2> QED
    BY <1>0, <2>2, <2>3, <2>4, OneRequest
<1>12. ASSUME NEW r \in Reqs, Retry(r) PROVE RequestsInv'
  <2> DEFINE sent == [reqs[r] EXCEPT !.state = "sent", !.token = session.token, !.outlived = FALSE]
             q == IF reqs[r].watch = "observed" THEN sent ELSE FreeReq
  <2>1. reqs[r].kind # "login"
    BY <1>0, <1>12 DEF SentInSession, Retry
  <2>2. sent \in Records /\ sent.state = "sent" /\ sent.token = session.token /\ sent.kind = reqs[r].kind
    BY <1>0 DEF Records
  <2> HIDE DEF sent
  <2>3. q \in Records /\ SentInSession(q, session)
    BY <2>1, <2>2, FreeReqTyped DEF SentInSession
  <2>4. reqs' = [reqs EXCEPT ![r] = q] /\ UNCHANGED <<session, stored, from>>
    BY <1>12, <1>0 DEF Retry, Records, sent
  <2> HIDE DEF q
  <2> QED
    BY <1>0, <2>3, <2>4, OneRequest
<1>13. ASSUME NEW r \in Reqs, NEW kind \in {"typed", "raw"}, Query(r, kind) \/ Mutate(r, kind) PROVE RequestsInv'
  <2>0. PICK w \in Watches : Send(r, kind, w)
    BY <1>13 DEF Query, Mutate, Watches
  <2> DEFINE q == [FreeReq EXCEPT !.state = "sent", !.kind = kind, !.token = session.token, !.watch = w]
  <2>1. q \in Records /\ q.state = "sent" /\ q.kind # "login" /\ q.token = session.token
    BY <1>0, FreeReqTyped DEF Records
  <2>2. SentInSession(q, session)
    BY <2>1 DEF SentInSession
  <2>3. reqs' = [reqs EXCEPT ![r] = q] /\ UNCHANGED <<session, stored, from>>
    BY <2>0 DEF Send
  <2> HIDE DEF q
  <2> QED
    BY <1>0, <2>1, <2>2, <2>3, OneRequest
<1>14. ASSUME NEW k \in Keys, UseApiKey(k) PROVE RequestsInv'
  <2>1. session' = SessionOf(k, "api_key") /\ stored' = SessionOf(k, "api_key") /\ from' = "none"
        /\ reqs' \in Rendered(path', Outlived(reqs))
    BY <1>14 DEF UseApiKey, SetSession
  <2> QED
    BY <1>0, <2>1, SessionBegins, TokensOfSessions DEF Tokens
<1>15. ASSUME NEW t \in Tokens, Expire(t) PROVE RequestsInv'
  BY <1>0, <1>15 DEF Expire, RequestsInv, SentInSession
<1>16. CASE UNCHANGED vars
  BY <1>0, <1>16 DEF vars, RequestsInv, SentInSession
<1> QED
  BY <1>3, <1>4, <1>5, <1>6, <1>7, <1>8, <1>9, <1>10, <1>11, <1>12, <1>13, <1>14, <1>15, <1>16 DEF Next, Respond

\* What a step may do to a session whose token the server accepts.
MayEnd ==
    (Valid(session.token) /\ session' # session) =>
        \/ Logout
        \/ \E p \in Paths : Reload(p)
        \/ \E r \in Reqs : reqs[r].state = "sent" /\ reqs[r].outlived /\ reqs'[r].state = "free"

\* An answer ends the session for a reason: had its request been sent in this session, then the server would have
\* refused the token of the session, or there would be none.
LEMMA AnswersEndOutlived ==
    ASSUME RequestsInv, NEW r \in Reqs, reqs[r].state = "sent", Valid(session.token),
           reqs[r].kind = "login" \/ ~Valid(reqs[r].token),
           \/ reqs' = Outlived([reqs EXCEPT ![r] = FreeReq])
           \/ reqs' \in Rendered(path', Outlived([reqs EXCEPT ![r] = FreeReq]))
    PROVE  reqs[r].outlived /\ reqs'[r].state = "free"
<1>1. SentInSession(reqs[r], session) /\ reqs \in [Reqs -> Records]
  BY DEF RequestsInv
<1>2. reqs[r].outlived
  BY <1>1 DEF SentInSession, Valid
<1> DEFINE rs == [reqs EXCEPT ![r] = FreeReq]
<1>3. rs \in [Reqs -> Records] /\ rs[r] = FreeReq
  BY <1>1, FreeReqTyped
<1>5. rs[r].state = "free" /\ (reqs' = Outlived(rs) \/ reqs' \in Rendered(path', Outlived(rs)))
  BY <1>3, FreeReqTyped
<1> HIDE DEF rs
<1>6. Outlived(rs) \in [Reqs -> Records] /\ Outlived(rs)[r].state = "free"
  <2>1. \A p \in Reqs : [rs[p] EXCEPT !.outlived = rs[p].state # "free"] \in Records
    BY <1>3 DEF Records
  <2>2. [rs[r] EXCEPT !.outlived = rs[r].state # "free"].state = rs[r].state
    BY <1>3 DEF Records
  <2> QED
    BY <1>5, <2>1, <2>2 DEF Outlived
<1>4. reqs'[r].state = "free"
  <2>1. ASSUME reqs' \in Rendered(path', Outlived(rs)) PROVE reqs'[r].state = Outlived(rs)[r].state
    BY <1>6, <2>1, RenderedRequests
  <2> QED
    BY <1>5, <1>6, <2>1
<1> QED
  BY <1>2, <1>4

LEMMA SessionsMayEnd == RequestsInv /\ [Next]_vars => MayEnd
<1> SUFFICES ASSUME RequestsInv, [Next]_vars, Valid(session.token), session' # session, ~Logout,
                    ~ \E p \in Paths : Reload(p)
             PROVE  \E r \in Reqs : reqs[r].state = "sent" /\ reqs[r].outlived /\ reqs'[r].state = "free"
  BY DEF MayEnd
<1>1. ASSUME NEW r \in Reqs, Rejected(r)
      PROVE  reqs[r].state = "sent" /\ reqs[r].outlived /\ reqs'[r].state = "free"
  <2>1. reqs' = Outlived([reqs EXCEPT ![r] = FreeReq])
    BY <1>1 DEF Rejected, OnAnswer
  <2> QED
    BY <1>1, <2>1, AnswersEndOutlived DEF Rejected
<1>2. ASSUME NEW r \in Reqs, NEW t \in Jwts, LoginSucceeds(r, t)
      PROVE  reqs[r].state = "sent" /\ reqs[r].outlived /\ reqs'[r].state = "free"
  BY <1>2, AnswersEndOutlived DEF LoginSucceeds
<1>3. ASSUME NEW r \in Reqs, NEW status \in {200, 403} PROVE ~ Answered(r, status)
  BY DEF Answered, OnAnswer, EndsSession
<1>4. ASSUME NEW k \in Keys PROVE ~ UseApiKey(k)
  BY ShownPages DEF UseApiKey, Valid
<1>5. /\ ~ UNCHANGED vars /\ ~ Redirect /\ ~ OtherTab /\ \A p \in Paths : ~ FollowLink(p)
      /\ \A r \in Reqs : ~ Submit(r) /\ ~ Fails(r) /\ ~ Retry(r)
                            /\ \A kind \in {"typed", "raw"} : ~ Query(r, kind) /\ ~ Mutate(r, kind)
      /\ \A t \in Tokens : ~ Expire(t)
  BY DEF vars, Redirect, OtherTab, FollowLink, Submit, Fails, Retry, Query, Mutate, Send, Expire
<1> QED
  BY <1>1, <1>2, <1>3, <1>4, <1>5 DEF Next, Respond

(* A session whose token the server accepts ends only by logging out, by loading the page again, or by the answer to
   a request sent before it began: for any number of requests and tokens, however many answers are lost. *)
THEOREM ValidSessionsAreKept == Spec => ValidSessionsEndForAReason
<1>1. RequestsInv /\ [Next]_vars => [MayEnd]_vars
  BY SessionsMayEnd
<1>2. RequestsInv /\ [MayEnd]_vars /\ [Next]_vars => RequestsInv'
  BY RequestsInvKept
<1>3. ValidSessionsEndForAReason <=> [][MayEnd]_vars
  BY DEF ValidSessionsEndForAReason, MayEnd
<1> QED
  BY <1>1, <1>2, <1>3, RequestsInvInitially, RequestsInvKept, PTL DEF Spec
-----------------------------------------------------------------------------
(* Type correctness: a page that is submitting waits for a log-in that is  *)
(* under way.                                                              *)

\* The request of the page that is submitting is the log-in it has sent.
SubmitsALogin(s, rs) == s # NoReq => s \in Reqs /\ rs[s].state = "sent" /\ rs[s].kind = "login"

LEMMA TypesOfValues ==
    /\ FreeReq \in ReqType /\ Cleared \in SessionType
    /\ \A t \in Tokens, mode \in {"jwt", "api_key"} : SessionOf(t, mode) \in SessionType
<1>1. FreeReq \in ReqType
  BY RetriesAssumption DEF FreeReq, ReqType, Paths, AppPaths
<1>2. Cleared \in SessionType
  BY DEF Cleared, SessionType, Roles
<1>3. \A t \in Tokens, mode \in {"jwt", "api_key"} : SessionOf(t, mode) \in SessionType
  BY DEF SessionOf, SessionType, Roles
<1> QED
  BY <1>1, <1>2, <1>3

LEMMA RedirectsArePaths == ASSUME NEW p \in Paths, NEW s PROVE RedirectOf(p, s) \in Paths
<1> DEFINE inApp == IF RequireAuth(p, s) # p THEN RequireAuth(p, s)
                    ELSE CASE p = "app" -> "projects" [] p = "admin" -> RequirePlatformRole(p, s) [] OTHER -> p
<1>1. RequireAuth(p, s) \in Paths /\ RequirePlatformRole(p, s) \in Paths /\ RedirectIfAuthed(p, s) \in Paths /\ "app" \in Paths
      /\ "projects" \in Paths
  BY DEF RequireAuth, RequirePlatformRole, RedirectIfAuthed, Paths, AppPaths
<1>2. inApp \in Paths
  BY <1>1
<1>3. RedirectOf(p, s) = CASE p = "root" -> "app" [] p \in {"login", "register"} -> RedirectIfAuthed(p, s) [] p \in AppPaths -> inApp
  BY DEF RedirectOf
<1> HIDE DEF inApp
<1>4. p = "root" \/ p \in {"login", "register"} \/ p \in AppPaths
  BY DEF Paths
<1>5. CASE p = "root"
  BY <1>1, <1>3, <1>5 DEF AppPaths
<1>6. CASE p \in {"login", "register"}
  BY <1>1, <1>3, <1>6 DEF AppPaths
<1>7. CASE p \in AppPaths
  <2>1. p # "root" /\ p \notin {"login", "register"}
    BY <1>7 DEF AppPaths
  <2> QED
    BY <1>2, <1>3, <1>7, <2>1
<1> QED
  BY <1>4, <1>5, <1>6, <1>7

\* What becomes of all the requests leaves a log-in that is under way as it is.
LEMMA RequestsStayTyped ==
    ASSUME NEW rs \in [Reqs -> ReqType]
    PROVE  /\ Outlived(rs) \in [Reqs -> ReqType]
           /\ \A r \in Reqs : Outlived(rs)[r].state = rs[r].state /\ Outlived(rs)[r].kind = rs[r].kind
           /\ \A p : Rendered(p, rs) \cup Rendered(p, Outlived(rs)) \subseteq [Reqs -> ReqType]
<1>1. ASSUME NEW r \in Reqs
      PROVE  LET q == [rs[r] EXCEPT !.outlived = rs[r].state # "free"]
             IN  q \in ReqType /\ q.state = rs[r].state /\ q.kind = rs[r].kind
  BY DEF ReqType
<1>2. Outlived(rs) \in [Reqs -> ReqType] /\ \A r \in Reqs : Outlived(rs)[r].state = rs[r].state /\ Outlived(rs)[r].kind = rs[r].kind
  BY <1>1 DEF Outlived
<1>3. \A p : Rendered(p, rs) \cup Rendered(p, Outlived(rs)) \subseteq [Reqs -> ReqType]
  BY <1>2, RenderedRequests
<1> QED
  BY <1>2, <1>3

\* One request changes, and it is not the log-in of the page, or the page no longer waits for it.
LEMMA OneTypedRequest ==
    ASSUME TypeOK, NEW r \in Reqs, NEW q \in ReqType, reqs' = [reqs EXCEPT ![r] = q],
           submitting' = submitting \/ submitting' = NoReq,
           submitting' = r => q.state = "sent" /\ q.kind = "login"
    PROVE  reqs' \in [Reqs -> ReqType] /\ SubmitsALogin(submitting', reqs')
<1>1. reqs' \in [Reqs -> ReqType] /\ \A p \in Reqs : reqs'[p] = IF p = r THEN q ELSE reqs[p]
  BY DEF TypeOK
<1> QED
  BY <1>1 DEF TypeOK, SubmitsALogin

LEMMA TypesKept == TypeOK /\ [Next]_vars => TypeOK'
<1> SUFFICES ASSUME TypeOK, [Next]_vars PROVE TypeOK'
  OBVIOUS
<1>1. /\ session \in SessionType /\ stored \in SessionType /\ issued \subseteq Jwts /\ expired \subseteq Tokens
      /\ reqs \in [Reqs -> ReqType] /\ path \in Paths /\ from \in AppPaths \cup {"none"}
      /\ submitting \in Reqs \cup {NoReq} /\ SubmitsALogin(submitting, reqs)
      /\ faults \in 0 .. MaxFaults /\ loads \in 0 .. MaxLoads
  BY DEF TypeOK, SubmitsALogin
<1>2. ASSUME session' \in SessionType, stored' \in SessionType, issued' \subseteq Jwts, expired' \subseteq Tokens,
             reqs' \in [Reqs -> ReqType], path' \in Paths /\ from' \in AppPaths \cup {"none"},
             SubmitsALogin(submitting', reqs'), faults' \in 0 .. MaxFaults /\ loads' \in 0 .. MaxLoads
      PROVE  TypeOK'
  BY <1>2 DEF TypeOK, SubmitsALogin
<1>3. /\ SubmitsALogin(NoReq, reqs') /\ "app" \in Paths /\ "login" \in Paths /\ "none" \in AppPaths \cup {"none"}
      /\ AppPaths \subseteq Paths
  BY DEF SubmitsALogin, Paths, AppPaths
<1>4. CASE Redirect
  <2>1. path' \in Paths
    BY <1>1, <1>4, RedirectsArePaths DEF Redirect
  <2>2. reqs' \in Rendered(path', reqs) /\ submitting' = NoReq /\ from' \in AppPaths \cup {"none"}
        /\ UNCHANGED <<session, stored, issued, expired, faults, loads>>
    BY <1>4 DEF Redirect
  <2> QED
    BY <1>1, <1>2, <1>3, <2>1, <2>2, RequestsStayTyped
<1>5. CASE Logout
  <2>1. /\ session' = Cleared /\ stored' = Cleared /\ reqs' \in Rendered(path', Outlived(reqs)) /\ path' = "login" /\ submitting' = NoReq
        /\ from' \in AppPaths \cup {"none"} /\ UNCHANGED <<issued, expired, faults, loads>>
    BY <1>5 DEF Logout, SetSession
  <2>2. reqs' \in [Reqs -> ReqType]
    BY <1>1, <2>1, RequestsStayTyped
  <2> QED
    BY <1>1, <1>2, <1>3, <2>1, <2>2, TypesOfValues
<1>6. CASE OtherTab
  <2>1. stored' \in SessionType /\ issued' \subseteq Jwts
    BY <1>1, <1>6, TypesOfValues DEF OtherTab, Tokens
  <2>2. UNCHANGED <<session, expired, reqs, path, from, submitting, faults, loads>>
    BY <1>6 DEF OtherTab
  <2> QED
    BY <1>1, <1>2, <2>1, <2>2
<1>7. ASSUME NEW p \in Paths, FollowLink(p) PROVE TypeOK'
  <2>1. /\ path' = p /\ from' = "none" /\ submitting' = NoReq /\ reqs' \in Rendered(p, reqs)
        /\ UNCHANGED <<session, stored, issued, expired, faults, loads>>
    BY <1>7 DEF FollowLink
  <2> QED
    BY <1>1, <1>2, <1>3, <2>1, RequestsStayTyped
<1>8. ASSUME NEW p \in Paths, Reload(p) PROVE TypeOK'
  <2>1. /\ session' = stored /\ stored' = stored /\ reqs' = [r \in Reqs |-> FreeReq] /\ path' = p /\ from' = "none"
        /\ submitting' = NoReq /\ loads' = loads + 1 /\ loads < MaxLoads /\ UNCHANGED <<issued, expired, faults>>
    BY <1>8 DEF Reload
  <2>2. reqs' \in [Reqs -> ReqType]
    BY <2>1, TypesOfValues
  <2>3. loads' \in 0 .. MaxLoads
    BY <1>1, <2>1, RetriesAssumption
  <2> QED
    BY <1>1, <1>2, <1>3, <2>1, <2>2, <2>3
<1>9. ASSUME NEW r \in Reqs, Submit(r) PROVE TypeOK'
  <2> DEFINE d == IF path = "login" /\ from # "none" THEN from ELSE "app"
             q == [FreeReq EXCEPT !.state = "sent", !.kind = "login", !.dest = d]
  <2>1. d \in Paths
    BY <1>1, <1>3
  <2> HIDE DEF d
  <2>2. q \in ReqType /\ q.state = "sent" /\ q.kind = "login"
    BY <2>1, TypesOfValues DEF ReqType
  <2>3. reqs' = [reqs EXCEPT ![r] = q] /\ submitting' = r
        /\ UNCHANGED <<session, stored, issued, expired, path, from, faults, loads>>
    BY <1>9 DEF Submit, d
  <2> HIDE DEF q
  <2>4. reqs' \in [Reqs -> ReqType] /\ reqs'[r] = q
    BY <1>1, <2>2, <2>3
  <2>5. SubmitsALogin(submitting', reqs')
    BY <2>2, <2>3, <2>4 DEF SubmitsALogin
  <2> QED
    BY <1>1, <1>2, <2>3, <2>4, <2>5
<1>10. ASSUME NEW r \in Reqs, NEW t \in Jwts, LoginSucceeds(r, t) PROVE TypeOK'
  <2>1. /\ session' = SessionOf(t, "jwt") /\ stored' = SessionOf(t, "jwt")
        /\ reqs' \in Rendered(path', Outlived([reqs EXCEPT ![r] = FreeReq]))
        /\ path' \in {reqs[r].dest, "app"} /\ from' = "none" /\ submitting' = NoReq /\ issued' = issued \cup {t}
        /\ UNCHANGED <<expired, faults, loads>>
    BY <1>10 DEF LoginSucceeds, SetSession
  <2>2. [reqs EXCEPT ![r] = FreeReq] \in [Reqs -> ReqType]
    BY <1>1, TypesOfValues
  <2>3. reqs' \in [Reqs -> ReqType]
    BY <2>1, <2>2, RequestsStayTyped
  <2>4. session' \in SessionType /\ stored' \in SessionType
    BY <2>1, TypesOfValues DEF Tokens
  <2>5. path' \in Paths
    BY <1>1, <1>3, <2>1 DEF ReqType
  <2> QED
    BY <1>1, <1>2, <1>3, <2>1, <2>3, <2>4, <2>5
<1>11. ASSUME NEW r \in Reqs, NEW status, OnAnswer(r, status) PROVE TypeOK'
  <2> DEFINE rs == [reqs EXCEPT ![r] = FreeReq]
  <2>1. UNCHANGED <<issued, expired, path, from, faults, loads>> /\ submitting' = Unsubmitted(r)
        /\ \/ session' = Cleared /\ stored' = Cleared /\ reqs' = Outlived(rs)
           \/ session' = session /\ stored' = stored /\ reqs' = rs
    BY <1>11 DEF OnAnswer, SetSession
  <2>2. rs \in [Reqs -> ReqType] /\ \A p \in Reqs \ {r} : rs[p] = reqs[p]
    BY <1>1, TypesOfValues
  <2> HIDE DEF rs
  <2>3. reqs' \in [Reqs -> ReqType] /\ \A p \in Reqs \ {r} : reqs'[p].state = reqs[p].state /\ reqs'[p].kind = reqs[p].kind
    BY <2>1, <2>2, RequestsStayTyped
  <2>4. SubmitsALogin(submitting', reqs')
    BY <1>1, <2>1, <2>3 DEF SubmitsALogin, Unsubmitted
  <2>5. session' \in SessionType /\ stored' \in SessionType
    BY <1>1, <2>1, TypesOfValues
  <2> QED
    BY <1>1, <1>2, <2>1, <2>3, <2>4, <2>5
<1>12. ASSUME NEW r \in Reqs, Fails(r) PROVE TypeOK'
  <2> DEFINE q == IF ShouldRetry(r)
                    THEN [reqs[r] EXCEPT !.state = "waiting", !.tries = reqs[r].tries + 1] ELSE FreeReq
  <2>1. ShouldRetry(r) => reqs[r].tries + 1 \in 0 .. MaxRetries
    BY <1>1, RetriesAssumption DEF ShouldRetry, ReqType
  <2>2. q \in ReqType
    BY <1>1, <2>1, TypesOfValues DEF ReqType
  <2>3. reqs' = [reqs EXCEPT ![r] = q] /\ submitting' = Unsubmitted(r) /\ faults < MaxFaults /\ faults' = faults + 1
        /\ UNCHANGED <<session, stored, issued, expired, path, from, loads>>
    BY <1>12 DEF Fails
  <2> HIDE DEF q
  <2>4. submitting' # r \/ submitting' = NoReq
    BY <2>3 DEF Unsubmitted
  <2>5. r # NoReq
    BY ReqsAssumption
  <2>6. reqs' \in [Reqs -> ReqType] /\ SubmitsALogin(submitting', reqs')
    BY <2>2, <2>3, <2>4, <2>5, OneTypedRequest DEF Unsubmitted
  <2>7. faults' \in 0 .. MaxFaults
    BY <1>1, <2>3, RetriesAssumption
  <2> QED
    BY <1>1, <1>2, <2>3, <2>6, <2>7
<1>13. ASSUME NEW r \in Reqs, Retry(r) PROVE TypeOK'
  <2> DEFINE sent == [reqs[r] EXCEPT !.state = "sent", !.token = session.token, !.outlived = FALSE]
             q == IF reqs[r].watch = "observed" THEN sent ELSE FreeReq
  <2>1. session.token \in Tokens \cup {NoToken}
    BY <1>1 DEF SessionType
  <2>2. sent \in ReqType
    BY <1>1, <2>1 DEF ReqType
  <2>3. q \in ReqType
    BY <2>2, TypesOfValues
  <2>4. reqs' = [reqs EXCEPT ![r] = q] /\ submitting' = submitting /\ reqs[r].state = "waiting"
        /\ UNCHANGED <<session, stored, issued, expired, path, from, faults, loads>>
    BY <1>1, <1>13 DEF Retry, ReqType
  <2> HIDE DEF q
  <2>5. submitting # r
    BY <1>1, <2>4, ReqsAssumption DEF SubmitsALogin
  <2>6. reqs' \in [Reqs -> ReqType] /\ SubmitsALogin(submitting', reqs')
    BY <2>3, <2>4, <2>5, OneTypedRequest
  <2> QED
    BY <1>1, <1>2, <2>4, <2>6
<1>14. ASSUME NEW r \in Reqs, NEW kind \in {"typed", "raw"}, Query(r, kind) \/ Mutate(r, kind) PROVE TypeOK'
  <2>0. PICK w \in Watches : Send(r, kind, w)
    BY <1>14 DEF Query, Mutate, Watches
  <2> DEFINE q == [FreeReq EXCEPT !.state = "sent", !.kind = kind, !.token = session.token, !.watch = w]
  <2>1. session.token \in Tokens \cup {NoToken}
    BY <1>1 DEF SessionType
  <2>2. q \in ReqType
    BY <2>1, TypesOfValues DEF ReqType, Watches
  <2>3. reqs' = [reqs EXCEPT ![r] = q] /\ submitting' = submitting /\ reqs[r].state = "free"
        /\ UNCHANGED <<session, stored, issued, expired, path, from, faults, loads>>
    BY <2>0 DEF Send
  <2> HIDE DEF q
  <2>4. submitting # r
    BY <1>1, <2>3, ReqsAssumption DEF SubmitsALogin
  <2>5. reqs' \in [Reqs -> ReqType] /\ SubmitsALogin(submitting', reqs')
    BY <2>2, <2>3, <2>4, OneTypedRequest
  <2> QED
    BY <1>1, <1>2, <2>3, <2>5
<1>15. ASSUME NEW k \in Keys, UseApiKey(k) PROVE TypeOK'
  <2>1. /\ session' = SessionOf(k, "api_key") /\ stored' = SessionOf(k, "api_key") /\ reqs' \in Rendered(path', Outlived(reqs))
        /\ path' = "app" /\ from' = "none" /\ submitting' = NoReq /\ UNCHANGED <<issued, expired, faults, loads>>
    BY <1>15 DEF UseApiKey, SetSession
  <2>2. session' \in SessionType /\ stored' \in SessionType /\ reqs' \in [Reqs -> ReqType]
    BY <1>1, <2>1, TypesOfValues, RequestsStayTyped DEF Tokens
  <2> QED
    BY <1>1, <1>2, <1>3, <2>1, <2>2
<1>16. ASSUME NEW t \in Tokens, Expire(t) PROVE TypeOK'
  <2>1. expired' \subseteq Tokens /\ UNCHANGED <<session, stored, issued, reqs, path, from, submitting, faults, loads>>
    BY <1>1, <1>16 DEF Expire
  <2> QED
    BY <1>1, <1>2, <2>1
<1>17. CASE UNCHANGED vars
  BY <1>1, <1>2, <1>17 DEF vars
<1>18. ASSUME NEW r \in Reqs, Rejected(r) \/ (\E status \in {200, 403} : Answered(r, status)) PROVE TypeOK'
  BY <1>11, <1>18 DEF Rejected, Answered
<1> QED
  BY <1>4, <1>5, <1>6, <1>7, <1>8, <1>9, <1>10, <1>12, <1>13, <1>14, <1>15, <1>16, <1>17, <1>18 DEF Next, Respond

\* Every session, copy and request is well typed, and a log-in page that is submitting waits for a log-in that is
\* under way: whichever way it ends, or the page goes, the button comes back.
THEOREM SessionTypeCorrect == Spec => []TypeOK
<1>1. Init => TypeOK
  <2> SUFFICES ASSUME Init PROVE TypeOK
    OBVIOUS
  <2>1. reqs \in [Reqs -> ReqType]
    BY TypesOfValues DEF Init
  <2>2. path \in Paths /\ from \in AppPaths \cup {"none"} /\ submitting = NoReq
    BY DEF Init, Paths
  <2>3. faults \in 0 .. MaxFaults /\ loads \in 0 .. MaxLoads
    BY RetriesAssumption DEF Init
  <2> QED
    BY <2>1, <2>2, <2>3, TypesOfValues DEF Init, TypeOK
<1> QED
  BY <1>1, TypesKept, PTL DEF Spec
=============================================================================
