----------------------------- MODULE AuthSession -----------------------------
(***************************************************************************)
(* Login sessions as the browser keeps them: the refresh runner, its       *)
(* browser-wide lock and its epoch (lib/auth-session.ts), the retry of     *)
(* unauthorized requests (lib/http-client.ts), sign-out (features/auth/    *)
(* api.ts), the messages between tabs (lib/auth-session-sync.ts, handled   *)
(* in routes/__root.tsx), and the server's rotation of refresh tokens      *)
(* (service/auth_session.go, model/user_session.go).                       *)
(*                                                                         *)
(* The tabs of one browser share the Refresh Cookie.  An access token      *)
(* lives in the memory of a tab and may expire at any moment.              *)
(***************************************************************************)
EXTENDS Naturals, FiniteSets

CONSTANTS
  Tabs,
  Busy,       \* the tabs in use, the others being in the background
  Sids,       \* session ids, numbered in the order the sessions are issued
  None,       \* no session
  Anonymous,  \* known to have no session
  Locks,      \* navigator.locks exists
  MaxGen,     \* bound: no refresh of choice once a token was rotated so often
  MaxFaults   \* bound on reloads and on lost, failed and refused requests

ASSUME AuthAssumption ==
  /\ None \notin Sids /\ Anonymous \notin Sids
  /\ Sids \subseteq Nat /\ Busy \subseteq Tabs
  /\ Locks \in BOOLEAN
  /\ MaxGen \in Nat /\ MaxFaults \in Nat

VARIABLES
  sess,    \* user_sessions: state, refresh generation, replay window
  cookie,  \* the Refresh Cookie of the browser
  auth,    \* useAuthStore of each tab: its session and bootstrapState
  ref,     \* refreshPromise of each tab
  job,     \* a request of each tab that may need a refresh
  events,  \* auth-session messages not delivered yet
  lossy,   \* history: a refresh was given up after its request had left
  faults

vars == <<sess, cookie, auth, ref, job, events, lossy, faults>>

-----------------------------------------------------------------------------
Session == [state : {"unused", "active", "revoked", "reused"},
            gen : Nat, open : BOOLEAN]

Cookie == [sid : Sids \cup {None}, gen : Nat]
NoCookie == [sid |-> None, gen |-> 0]

\* A session, None while the server has not been asked (bootstrapState is
\* not complete), or Anonymous once it has said that there is none.
Auth == Sids \cup {None, Anonymous}

\* A refresh; current says that authEpoch is still refreshEpoch, gone is a
\* history: the sessions that had ended when it started or was superseded.
Refresh ==
  [pc : {"none", "queued", "asked", "answered"}, current : BOOLEAN,
   gone : SUBSET Sids, expected : Sids \cup {None}, token : Cookie,
   reply : {"none", "bundle", "mismatch", "anonymous"}]
NoRefresh == [pc |-> "none", current |-> FALSE, gone |-> {}, expected |-> None,
              token |-> NoCookie, reply |-> "none"]

\* An API call or a logout, sent as session sid; retry says of a call that it
\* was repeated, of a logout that it may be.
Job ==
  [pc : {"none", "call", "callWaits", "leaving",
         "logout", "logoutDone", "logoutWaits"},
   sid : Sids \cup {None}, retry : BOOLEAN,
   reply : {"none", "cleared", "kept", "mismatch"}]
NoJob == [pc |-> "none", sid |-> None, retry |-> FALSE, reply |-> "none"]
Logout(sid, retry) == [NoJob EXCEPT !.pc = "logout", !.sid = sid, !.retry = retry]

Event == [kind : {"authenticated", "signed_out"}, sid : Sids]

Init ==
  /\ sess = [s \in Sids |-> [state |-> "unused", gen |-> 0, open |-> FALSE]]
  /\ cookie = NoCookie
  /\ auth = [t \in Tabs |-> None]
  /\ ref = [t \in Tabs |-> NoRefresh]
  /\ job = [t \in Tabs |-> NoJob]
  /\ events = [t \in Tabs |-> {}]
  /\ lossy = FALSE
  /\ faults = 0

-----------------------------------------------------------------------------
Ended(s) == sess[s].state \in {"revoked", "reused"}
AllEnded == {s \in Sids : Ended(s)}

\* Session s ends; its replay window is kept for ReuseMeansLoss only.
End(s, state) ==
  IF sess[s].state = "active"
  THEN [sess EXCEPT ![s].state = state, ![s].open = @ /\ state = "reused"]
  ELSE sess

\* Bound on refreshes nothing forces.
MayRefresh == \A s \in Sids : sess[s].gen < MaxGen

\* authEpoch += 1: what is in flight is superseded.
Superseded(r) ==
  IF r.pc = "none" THEN r
  ELSE [r EXCEPT !.current = FALSE, !.gone = AllEnded]

\* publishAuthSessionEvent.  Bound: one message waits for a tab; a newer one
\* takes its place, as if the older had become too old to be heeded.
Published(t, kind, s) ==
  [x \in Tabs |-> IF x = t THEN events[x] ELSE {[kind |-> kind, sid |-> s]}]

\* Mutant: the store keeps the session.
MutClear(t, synchronizeTabs) ==
  /\ auth' = auth
  /\ events' = IF synchronizeTabs /\ auth[t] \in Sids
               THEN Published(t, "signed_out", auth[t]) ELSE events

\* clearAuthentication; the caller says what becomes of the refresh.
Clear(t, synchronizeTabs) ==
  /\ auth' = [auth EXCEPT ![t] = Anonymous]
  /\ events' = IF synchronizeTabs /\ auth[t] \in Sids
               THEN Published(t, "signed_out", auth[t]) ELSE events

\* refreshAuthentication: start a refresh or join the one in flight.
Queued == [NoRefresh EXCEPT !.pc = "queued", !.current = TRUE, !.gone = AllEnded]
Joined(t) == [ref EXCEPT ![t] = IF @.pc = "none" THEN Queued ELSE @]

\* What the job awaiting a refresh of its tab does with the outcome: a call is
\* repeated as the session of the bundle or sends the page to /sign-in, a
\* logout is tried once more.
Continued(j, outcome, token) ==
  IF outcome = "authenticated" /\ j.pc = "callWaits"
  THEN [j EXCEPT !.pc = "call", !.sid = token.sid]
  ELSE IF outcome = "authenticated" /\ j.pc = "logoutWaits"
  THEN Logout(token.sid, FALSE)
  ELSE IF outcome \in {"anonymous", "out_of_sync"} /\ j.pc = "callWaits"
  THEN [NoJob EXCEPT !.pc = "leaving"]
  ELSE IF j.pc \in {"callWaits", "logoutWaits"} THEN NoJob
  ELSE j

\* Mutant: the promise of a refresh that failed is kept.
MutSettle(t, outcome, token) ==
  /\ ref' = [ref EXCEPT ![t] = IF outcome = "transient_error" THEN @ ELSE NoRefresh]
  /\ job' = [job EXCEPT ![t] = Continued(@, outcome, token)]

\* The refresh of tab t ends.
Settle(t, outcome, token) ==
  /\ ref' = [ref EXCEPT ![t] = NoRefresh]
  /\ job' = [job EXCEPT ![t] = Continued(@, outcome, token)]

\* The refresh of tab t is given up: a token may be on its way to nobody.
GivenUp(t) == lossy' = (lossy \/ ref[t].pc \in {"asked", "answered"})

-----------------------------------------------------------------------------
(* The tab.                                                                *)

\* A login is answered: a new session, its cookie, applyAuthBundle.
SignIn(t, s) ==
  /\ t \in Busy
  /\ sess[s].state = "unused"
  /\ \A r \in Sids : r < s => sess[r].state # "unused"
  /\ sess' = [sess EXCEPT ![s].state = "active"]
  /\ cookie' = [sid |-> s, gen |-> 0]
  /\ auth' = [auth EXCEPT ![t] = s]
  /\ ref' = [ref EXCEPT ![t] = Superseded(@)]
  /\ events' = Published(t, "authenticated", s)
  /\ UNCHANGED <<job, lossy, faults>>

\* applyAuthRotation: a security change renews the token of this session.
Rotation(t) ==
  /\ t \in Busy
  /\ auth[t] \in Sids
  /\ sess[auth[t]].state = "active"
  /\ ref' = [ref EXCEPT ![t] = Superseded(@)]
  /\ UNCHANGED <<sess, cookie, auth, job, events, lossy, faults>>

\* resolveAuthentication asks the server.
Resolve(t) ==
  /\ MayRefresh
  /\ auth[t] # Anonymous
  /\ ref[t].pc = "none"
  /\ ref' = Joined(t)
  /\ UNCHANGED <<sess, cookie, auth, job, events, lossy, faults>>

\* getFreshAuthHeaders, the token being close to its end.
FreshHeaders(t) ==
  /\ t \in Busy
  /\ MayRefresh
  /\ ref[t].pc = "none"
  /\ ref' = Joined(t)
  /\ UNCHANGED <<sess, cookie, auth, job, events, lossy, faults>>

\* The page is loaded again.
Reloaded(t) ==
  /\ auth' = [auth EXCEPT ![t] = None]
  /\ ref' = [ref EXCEPT ![t] = NoRefresh]
  /\ job' = [job EXCEPT ![t] = NoJob]
  /\ events' = [events EXCEPT ![t] = {}]
  /\ GivenUp(t)

\* The user does so, or closes the tab and opens another one.
Reload(t) ==
  /\ faults < MaxFaults
  /\ faults' = faults + 1
  /\ Reloaded(t)
  /\ UNCHANGED <<sess, cookie>>

\* redirectToSignIn, unless the page is /sign-in already.
Redirect(t) ==
  /\ job[t].pc = "leaving"
  /\ \/ Reloaded(t)
     \/ /\ job' = [job EXCEPT ![t] = NoJob]
        /\ UNCHANGED <<auth, ref, events, lossy>>
  /\ UNCHANGED <<sess, cookie, faults>>

\* A message of another tab; one that is too old, or about another session,
\* changes nothing.
AuthEvent(t, e) ==
  /\ e \in events[t]
  /\ \/ /\ events' = [events EXCEPT ![t] = @ \ {e}]
        /\ UNCHANGED <<auth, ref, job, lossy>>
     \/ /\ e.kind = "authenticated" /\ e.sid # auth[t]
        /\ Reloaded(t)
     \/ /\ e.kind = "signed_out" /\ e.sid = auth[t]
        /\ events' = [events EXCEPT ![t] = @ \ {e}]
        /\ auth' = [auth EXCEPT ![t] = Anonymous]
        /\ ref' = [ref EXCEPT ![t] = Superseded(@)]
        /\ UNCHANGED <<job, lossy>>
  /\ UNCHANGED <<sess, cookie, faults>>

-----------------------------------------------------------------------------
(* One refresh.                                                            *)

\* Mutant: the lock is not asked for.
MutLockFree == TRUE

\* The exclusive lock of performRefreshWithBrowserLock.
LockFree == Locks => \A x \in Tabs : ref[x].pc \notin {"asked", "answered"}

Asking(r, a) ==
  [r EXCEPT !.pc = "asked", !.expected = IF a \in Sids THEN a ELSE None,
            !.token = cookie, !.reply = "none"]

\* run: the request leaves with the tab's session and the browser's cookie.
Ask(t) ==
  /\ ref[t].pc = "queued"
  /\ LockFree
  /\ ref[t].current
  /\ ref' = [ref EXCEPT ![t] = Asking(@, auth[t])]
  /\ UNCHANGED <<sess, cookie, auth, job, events, lossy, faults>>

\* run: superseded while it waited for the lock.
NotAsked(t) ==
  /\ ref[t].pc = "queued"
  /\ LockFree
  /\ ~ref[t].current
  /\ Settle(t, "transient_error", NoCookie)
  /\ UNCHANGED <<sess, cookie, auth, events, lossy, faults>>

\* Mutant: the previous token is never worth its successor again.
MutWorth(token, expected) ==
  LET s == sess[token.sid] IN
  IF token.sid = None THEN "anonymous"
  ELSE IF expected \notin {None, token.sid} THEN "mismatch"
  ELSE IF s.state # "active" THEN "anonymous"
  ELSE IF token.gen = s.gen THEN "rotate"
  ELSE IF token.gen + 1 # s.gen THEN "anonymous"
  ELSE "reuse"

\* RefreshLoginSession and RotateUserSessionRefresh: what the presented token
\* is worth.  The successor of a token is derived from it, so the previous
\* token is given the same successor again while its replay window is open.
Worth(token, expected) ==
  LET s == sess[token.sid] IN
  IF token.sid = None THEN "anonymous"
  ELSE IF expected \notin {None, token.sid} THEN "mismatch"
  ELSE IF s.state # "active" THEN "anonymous"
  ELSE IF token.gen = s.gen THEN "rotate"
  ELSE IF token.gen + 1 # s.gen THEN "anonymous"
  ELSE IF s.open THEN "recover" ELSE "reuse"

AfterRefresh(token, worth) ==
  CASE worth = "rotate" -> [sess EXCEPT ![token.sid].gen = @ + 1, ![token.sid].open = TRUE]
    [] worth = "reuse"  -> End(token.sid, "reused")
    [] OTHER            -> sess

\* deriveNextRefreshSecret
Successor(token) == [token EXCEPT !.gen = @ + 1]

Answer(r, worth) ==
  LET given == worth \in {"rotate", "recover"} IN
  [r EXCEPT !.pc = "answered",
            !.token = IF given THEN Successor(r.token) ELSE NoCookie,
            !.reply = IF given THEN "bundle"
                      ELSE IF worth = "mismatch" THEN "mismatch" ELSE "anonymous"]

RefreshAuth(t) ==
  LET worth == Worth(ref[t].token, ref[t].expected) IN
  /\ ref[t].pc = "asked"
  /\ sess' = AfterRefresh(ref[t].token, worth)
  /\ ref' = [ref EXCEPT ![t] = Answer(@, worth)]
  /\ UNCHANGED <<cookie, auth, job, events, lossy, faults>>

\* GetUserSessionCached fails: RefreshLoginSession takes the token for an
\* invalid one, which clears the cookie as if there were no session.
RefreshFails(t) ==
  LET r == ref[t] IN
  /\ r.pc = "asked"
  /\ r.token.sid # None /\ r.expected \in {None, r.token.sid}
  /\ faults < MaxFaults
  /\ faults' = faults + 1
  /\ ref' = [ref EXCEPT ![t] = Answer(r, "anonymous")]
  /\ UNCHANGED <<sess, cookie, auth, job, events, lossy>>

\* Mutant: the epoch is looked at before the request only.
MutStillCurrent(r) == TRUE

\* isCurrent, asked again once the answer is there.
StillCurrent(r) == r.current

\* The browser stores or clears the cookie whoever still wants the answer.
Stored(r) ==
  CASE r.reply = "bundle" -> r.token
    [] r.reply = "anonymous" -> NoCookie
    [] OTHER -> cookie

\* An answer nobody waits for: the tab signed in, out or rotated since.
ArriveSuperseded(t) ==
  /\ ref[t].pc = "answered"
  /\ ~StillCurrent(ref[t])
  /\ cookie' = Stored(ref[t])
  /\ Settle(t, "transient_error", NoCookie)
  /\ UNCHANGED <<sess, auth, events, lossy, faults>>

\* acceptBundle
ArriveBundle(t) ==
  /\ ref[t].pc = "answered" /\ ref[t].reply = "bundle"
  /\ StillCurrent(ref[t])
  /\ cookie' = Stored(ref[t])
  /\ auth' = [auth EXCEPT ![t] = ref[t].token.sid]
  /\ Settle(t, "authenticated", ref[t].token)
  /\ UNCHANGED <<sess, events, lossy, faults>>

\* AUTH_SESSION_MISMATCH: memory is cleared and the cookie's own session
\* asked for.  Asked without a session there is no second mismatch.
ArriveMismatch(t) ==
  /\ ref[t].pc = "answered" /\ ref[t].reply = "mismatch"
  /\ StillCurrent(ref[t])
  /\ auth' = [auth EXCEPT ![t] = None]
  /\ ref' = [ref EXCEPT ![t] = Asking(@, None)]
  /\ UNCHANGED <<sess, cookie, job, events, lossy, faults>>

\* 401: the server has no session for this cookie, and every tab is told.
ArriveAnonymous(t) ==
  /\ ref[t].pc = "answered" /\ ref[t].reply = "anonymous"
  /\ StillCurrent(ref[t])
  /\ cookie' = Stored(ref[t])
  /\ Clear(t, TRUE)
  /\ Settle(t, "anonymous", NoCookie)
  /\ UNCHANGED <<sess, lossy, faults>>

\* No answer, a server error or 429: markTransient, and nothing is cleared.
RefreshLost(t) ==
  /\ ref[t].pc \in {"asked", "answered"}
  /\ faults < MaxFaults
  /\ faults' = faults + 1
  /\ auth' = IF StillCurrent(ref[t]) THEN [auth EXCEPT ![t] = IF @ = Anonymous THEN None ELSE @] ELSE auth
  /\ GivenUp(t)
  /\ Settle(t, "transient_error", NoCookie)
  /\ UNCHANGED <<sess, cookie, events>>

\* Any other refusal: out_of_sync.
RefreshRefused(t) ==
  /\ ref[t].pc = "asked"
  /\ StillCurrent(ref[t])
  /\ faults < MaxFaults
  /\ faults' = faults + 1
  /\ Clear(t, FALSE)
  /\ Settle(t, "out_of_sync", NoCookie)
  /\ UNCHANGED <<sess, cookie, lossy>>

-----------------------------------------------------------------------------
(* API calls.                                                              *)

Call(t) ==
  /\ t \in Busy
  /\ job[t].pc = "none"
  /\ auth[t] \in Sids
  /\ job' = [job EXCEPT ![t] = [NoJob EXCEPT !.pc = "call", !.sid = auth[t]]]
  /\ UNCHANGED <<sess, cookie, auth, ref, events, lossy, faults>>

Served(t) ==
  /\ job[t].pc = "call"
  /\ sess[job[t].sid].state = "active"
  /\ job' = [job EXCEPT ![t] = NoJob]
  /\ UNCHANGED <<sess, cookie, auth, ref, events, lossy, faults>>

\* 401: the session ended, or the token expired or is not known yet.
Unauthorized(t) ==
  LET j == job[t] IN
  /\ j.pc = "call"
  /\ Ended(j.sid) \/ MayRefresh
  /\ \/ /\ auth[t] # j.sid
        /\ job' = [job EXCEPT ![t] = NoJob]
        /\ UNCHANGED <<auth, ref, events>>
     \/ /\ auth[t] = j.sid /\ ~j.retry
        /\ job' = [job EXCEPT ![t].pc = "callWaits", ![t].retry = TRUE]
        /\ ref' = Joined(t)
        /\ UNCHANGED <<auth, events>>
     \/ /\ auth[t] = j.sid /\ j.retry
        /\ job' = [job EXCEPT ![t] = [NoJob EXCEPT !.pc = "leaving"]]
        /\ Clear(t, FALSE)
        /\ ref' = [ref EXCEPT ![t] = Superseded(@)]
  /\ UNCHANGED <<sess, cookie, lossy, faults>>

-----------------------------------------------------------------------------
(* Sign-out.                                                               *)

\* executeLogout
SignOut(t) ==
  /\ t \in Busy
  /\ job[t].pc = "none"
  /\ auth[t] \in Sids
  /\ job' = [job EXCEPT ![t] = Logout(auth[t], TRUE)]
  /\ UNCHANGED <<sess, cookie, auth, ref, events, lossy, faults>>

\* RevokeUserSessionByRefreshHash accepts the cookie.
Accepted(s) ==
  /\ cookie.sid = s
  /\ cookie.gen = sess[s].gen \/ (cookie.gen + 1 = sess[s].gen /\ sess[s].open)

\* AuthLogout, by the bearer token or, when that has expired, by the cookie.
AuthLogout(t) ==
  LET s == job[t].sid
      Reply(r) == job' = [job EXCEPT ![t] =
                    [NoJob EXCEPT !.pc = "logoutDone", !.retry = job[t].retry, !.reply = r]] IN
  /\ job[t].pc = "logout"
  /\ \/ /\ cookie.sid \notin {None, s}
        /\ sess' = sess
        /\ Reply("mismatch")
     \/ /\ cookie.sid \in {None, s}
        /\ sess' = End(s, "revoked")
        /\ Reply(IF cookie.sid = s THEN "cleared" ELSE "kept")
     \/ /\ cookie.sid \in {None, s}
        /\ sess' = IF Accepted(s) THEN End(s, "revoked") ELSE sess
        /\ Reply("cleared")
  /\ UNCHANGED <<cookie, auth, ref, events, lossy, faults>>

\* The logout succeeded: memory is cleared and the other tabs are told.
SignedOutOk(t) ==
  /\ job[t].pc = "logoutDone" /\ job[t].reply # "mismatch"
  /\ cookie' = IF job[t].reply = "cleared" THEN NoCookie ELSE cookie
  /\ Clear(t, TRUE)
  /\ ref' = [ref EXCEPT ![t] = Superseded(@)]
  /\ job' = [job EXCEPT ![t] = NoJob]
  /\ UNCHANGED <<sess, lossy, faults>>

\* The cookie is another session's: refresh, then try once more.
SignOutMismatch(t) ==
  /\ job[t].pc = "logoutDone" /\ job[t].reply = "mismatch"
  /\ IF job[t].retry
     THEN /\ job' = [job EXCEPT ![t] = [NoJob EXCEPT !.pc = "logoutWaits"]]
          /\ ref' = Joined(t)
     ELSE /\ job' = [job EXCEPT ![t] = NoJob]
          /\ ref' = ref
  /\ UNCHANGED <<sess, cookie, auth, events, lossy, faults>>

\* No answer: the dialog reports the error and changes nothing.
SignOutLost(t) ==
  /\ job[t].pc \in {"logout", "logoutDone"}
  /\ faults < MaxFaults
  /\ faults' = faults + 1
  /\ job' = [job EXCEPT ![t] = NoJob]
  /\ UNCHANGED <<sess, cookie, auth, ref, events, lossy>>

-----------------------------------------------------------------------------
(* The server on its own.                                                  *)

\* The replay window of the previous token ends.
WindowEnds(s) ==
  /\ sess[s].state = "active" /\ sess[s].open
  /\ sess' = [sess EXCEPT ![s].open = FALSE]
  /\ UNCHANGED <<cookie, auth, ref, job, events, lossy, faults>>

\* The session expires, or is revoked from elsewhere.
Revoke(s) ==
  /\ sess[s].state = "active"
  /\ sess' = End(s, "revoked")
  /\ UNCHANGED <<cookie, auth, ref, job, events, lossy, faults>>

-----------------------------------------------------------------------------
TabStep(t) ==
  \/ \E s \in Sids : SignIn(t, s)
  \/ Rotation(t) \/ Resolve(t) \/ FreshHeaders(t)
  \/ Reload(t)
  \/ \E e \in events[t] : AuthEvent(t, e)
  \/ Call(t) \/ Served(t) \/ Unauthorized(t) \/ Redirect(t)
  \/ SignOut(t) \/ AuthLogout(t) \/ SignedOutOk(t)
  \/ SignOutMismatch(t) \/ SignOutLost(t)

RefreshStep(t) ==
  \/ Ask(t) \/ NotAsked(t) \/ RefreshAuth(t) \/ RefreshFails(t)
  \/ ArriveSuperseded(t) \/ ArriveBundle(t)
  \/ ArriveMismatch(t) \/ ArriveAnonymous(t)
  \/ RefreshLost(t) \/ RefreshRefused(t)

Next ==
  \/ \E t \in Tabs : TabStep(t) \/ RefreshStep(t)
  \/ \E s \in Sids : WindowEnds(s) \/ Revoke(s)

Spec == Init /\ [][Next]_vars

Arrive(t) == ArriveSuperseded(t) \/ ArriveBundle(t) \/ ArriveMismatch(t) \/ ArriveAnonymous(t)

\* What a page does about its calls and its logout, once asked.
JobStep(t) ==
  \/ Call(t) \/ Served(t) \/ Unauthorized(t) \/ Redirect(t)
  \/ AuthLogout(t) \/ SignedOutOk(t) \/ SignOutMismatch(t)

\* Web Locks are granted in the order of the requests; the server answers;
\* the pages of a tab in use go on calling the API.
FairSpec ==
  /\ Spec
  /\ \A t \in Tabs : SF_vars(Ask(t) \/ NotAsked(t)) /\ WF_vars(RefreshAuth(t) \/ Arrive(t))
  /\ \A t \in Busy : WF_vars(JobStep(t))

-----------------------------------------------------------------------------
(* Properties.                                                             *)

TypeOK ==
  /\ sess \in [Sids -> Session]
  /\ cookie \in Cookie
  /\ auth \in [Tabs -> Auth]
  /\ ref \in [Tabs -> Refresh]
  /\ job \in [Tabs -> Job]
  /\ events \in [Tabs -> SUBSET Event]
  /\ lossy \in BOOLEAN
  /\ faults \in Nat

\* A late answer never brings a session back: a tab does not take up one that
\* had ended when its refresh began, or when the tab signed in, out, rotated
\* or was told of a sign-out meanwhile (authEpoch, the server's status check).
NeverBackToEnded ==
  [][\A t \in Tabs :
       auth'[t] # auth[t] => auth'[t] \notin ref[t].gone]_vars

\* Tabs that refresh at the same time do not cost the user the session: with
\* the browser's lock, the server takes a token for stolen only after some
\* refresh was given up with its request on the way.  And that loss alone does
\* not cost it either: the replay window of the lost token had ended.
ReuseMeansLoss ==
  \A s \in Sids : sess[s].state = "reused" => ~sess[s].open /\ (Locks => lossy)

\* A refresh that was started ends, also behind the refreshes of other tabs.
RefreshEnds ==
  \A t \in Tabs : ref[t].pc # "none" ~> ref[t].pc = "none"

\* A tab in use does not go on showing a session that the server has ended.
ShowsEnded(t) == auth[t] \in Sids /\ Ended(auth[t])
EndIsNoticed == \A t \in Busy : ShowsEnded(t) ~> ~ShowsEnded(t)

-----------------------------------------------------------------------------
(* The invariant behind NeverBackToEnded and ReuseMeansLoss.               *)

InFlight(t) == ref[t].pc \in {"asked", "answered"}
Bundle(t) == ref[t].pc = "answered" /\ ref[t].reply = "bundle"

\* A session that was not issued yet is in no cookie and no request.
UnusedUnknown ==
  \A s \in Sids : sess[s].state = "unused" =>
    /\ sess[s].gen = 0
    /\ cookie.sid # s
    /\ \A t \in Tabs : InFlight(t) => ref[t].token.sid # s

\* A bundle is for a session that was active when its refresh began.
BundlesNotGone ==
  \A t \in Tabs :
    /\ ref[t].gone \subseteq AllEnded
    /\ Bundle(t) => /\ ref[t].token.sid \in Sids
                    /\ ref[t].current => ref[t].token.sid \notin ref[t].gone

\* One refresh at a time.
LockExclusive ==
  Locks => \A x, y \in Tabs : InFlight(x) /\ InFlight(y) => x = y

\* As long as nothing was given up every token in use is the newest one: the
\* cookie's, unless the browser is about to be given its successor.
TokensNewest ==
  Locks /\ ~lossy =>
    /\ \A t \in Tabs :
         /\ ref[t].pc = "asked" /\ ref[t].token.sid \in Sids =>
              ref[t].token.gen = sess[ref[t].token.sid].gen
         /\ Bundle(t) => ref[t].token.gen = sess[ref[t].token.sid].gen
    /\ cookie.sid \in Sids =>
         \/ cookie.gen = sess[cookie.sid].gen
         \/ \E t \in Tabs : Bundle(t) /\ ref[t].token.sid = cookie.sid

AuthInv ==
  /\ TypeOK /\ UnusedUnknown /\ BundlesNotGone /\ LockExclusive
  /\ TokensNewest /\ ReuseMeansLoss
=============================================================================
