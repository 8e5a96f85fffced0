------------------------- MODULE AuthSessionProofs -------------------------
(***************************************************************************)
(* Proofs about AuthSession, for any number of tabs and sessions: a token  *)
(* is never taken for stolen while no refresh was given up, and no tab     *)
(* goes back to a session that had ended.                                  *)
(***************************************************************************)
EXTENDS AuthSession, TLAPS

Sessions == [Sids -> Session]
Sid == Sids \cup {None}

\* The invariant without the types: a matter of sess, cookie, ref and lossy.
Core ==
  UnusedUnknown /\ BundlesNotGone /\ LockExclusive /\ TokensNewest /\ ReuseMeansLoss

-----------------------------------------------------------------------------
(* What the operators return.                                              *)

LEMMA NoneTypes == NoCookie \in Cookie /\ NoRefresh \in Refresh /\ NoJob \in Job
BY DEF NoCookie, Cookie, NoRefresh, Refresh, NoJob, Job

LEMMA AllEndedType == AllEnded \subseteq Sids
BY DEF AllEnded

LEMMA SupersededFacts ==
  ASSUME NEW r \in Refresh
  PROVE  /\ Superseded(r) \in Refresh
         /\ Superseded(r).pc = r.pc
         /\ Superseded(r).token = r.token
         /\ Superseded(r).reply = r.reply
         /\ r.pc # "none" => ~Superseded(r).current /\ Superseded(r).gone = AllEnded
         /\ r.pc = "none" => Superseded(r) = r
BY AllEndedType DEF Superseded, Refresh

LEMMA QueuedFacts ==
  Queued \in Refresh /\ Queued.pc = "queued" /\ Queued.gone = AllEnded
BY NoneTypes, AllEndedType DEF Queued, NoRefresh, Refresh

LEMMA AskingFacts ==
  ASSUME NEW r \in Refresh, NEW a, cookie \in Cookie
  PROVE  /\ Asking(r, a) \in Refresh
         /\ Asking(r, a).pc = "asked"
         /\ Asking(r, a).gone = r.gone
         /\ Asking(r, a).token = cookie
BY DEF Asking, Refresh

LEMMA AnswerFacts ==
  ASSUME NEW r \in Refresh, NEW worth
  PROVE  /\ Answer(r, worth) \in Refresh
         /\ Answer(r, worth).pc = "answered"
         /\ Answer(r, worth).gone = r.gone
         /\ worth \in {"rotate", "recover"} =>
              /\ Answer(r, worth).reply = "bundle"
              /\ Answer(r, worth).token.sid = r.token.sid
              /\ Answer(r, worth).token.gen = r.token.gen + 1
         /\ worth \notin {"rotate", "recover"} =>
              /\ Answer(r, worth).reply # "bundle"
              /\ Answer(r, worth).token = NoCookie
<1>1. r.token \in Cookie /\ Successor(r.token) \in Cookie
  BY DEF Refresh, Cookie, Successor
<1>2. CASE worth \in {"rotate", "recover"}
  <2>1. Answer(r, worth) = [r EXCEPT !.pc = "answered", !.reply = "bundle",
                              !.token = Successor(r.token)]
    BY <1>2 DEF Answer, Refresh
  <2>2. Successor(r.token).sid = r.token.sid /\ Successor(r.token).gen = r.token.gen + 1
    BY <1>1 DEF Successor, Refresh, Cookie
  <2>3. /\ Answer(r, worth).pc = "answered" /\ Answer(r, worth).gone = r.gone
        /\ Answer(r, worth).reply = "bundle" /\ Answer(r, worth).token = Successor(r.token)
    BY <2>1 DEF Refresh
  <2>4. Answer(r, worth) \in Refresh
    BY <2>1, <1>1 DEF Refresh
  <2>. QED BY <1>2, <2>2, <2>3, <2>4
<1>3. CASE worth \notin {"rotate", "recover"}
  <2>1. \E reply \in {"mismatch", "anonymous"} : Answer(r, worth) =
          [r EXCEPT !.pc = "answered", !.reply = reply, !.token = NoCookie]
    BY <1>3 DEF Answer, Refresh
  <2>. QED BY <2>1, <1>1, <1>3, NoneTypes DEF Refresh
<1>. QED BY <1>2, <1>3

LEMMA ContinuedType ==
  ASSUME NEW j \in Job, NEW outcome, NEW token \in Cookie
  PROVE  Continued(j, outcome, token) \in Job
BY NoneTypes DEF Continued, Logout, NoJob, Job, Cookie

LEMMA PublishedType ==
  ASSUME TypeOK, NEW t \in Tabs, NEW kind \in {"authenticated", "signed_out"},
         NEW s \in Sids
  PROVE  Published(t, kind, s) \in [Tabs -> SUBSET Event]
BY DEF Published, TypeOK, Event

\* Ending a session changes its state and its window only.
LEMMA EndFacts ==
  ASSUME sess \in Sessions, NEW s, NEW state \in {"revoked", "reused"}
  PROVE  /\ End(s, state) \in Sessions
         /\ \A r \in Sids :
              /\ End(s, state)[r].gen = sess[r].gen
              /\ \/ End(s, state)[r] = sess[r]
                 \/ /\ r = s /\ sess[r].state = "active" /\ End(s, state)[r].state = state
                    /\ End(s, state)[r].open => sess[r].open
BY DEF End, Sessions, Session

LEMMA AfterRefreshFacts ==
  ASSUME sess \in Sessions, NEW token \in Cookie, NEW expected \in Sid,
         NEW worth, worth = Worth(token, expected)
  PROVE  /\ AfterRefresh(token, worth) \in Sessions
         /\ worth \in {"rotate", "recover", "reuse"} =>
              token.sid \in Sids /\ sess[token.sid].state = "active"
         /\ worth = "rotate" =>
              /\ token.gen = sess[token.sid].gen
              /\ AfterRefresh(token, worth) =
                   [sess EXCEPT ![token.sid].gen = @ + 1, ![token.sid].open = TRUE]
         /\ worth \in {"recover", "reuse"} => token.gen + 1 = sess[token.sid].gen
         /\ worth = "reuse" => ~sess[token.sid].open
         /\ worth = "reuse" => AfterRefresh(token, worth) = End(token.sid, "reused")
         /\ worth \notin {"rotate", "reuse"} => AfterRefresh(token, worth) = sess
<1>1. worth \in {"rotate", "recover", "reuse"} =>
        token.sid \in Sids /\ sess[token.sid].state = "active"
  BY DEF Worth, Cookie
<1>2. worth = "rotate" => token.gen = sess[token.sid].gen
  BY DEF Worth
<1>3. /\ worth \in {"recover", "reuse"} => token.gen + 1 = sess[token.sid].gen
      /\ worth = "reuse" => ~sess[token.sid].open
  BY DEF Worth
<1>4. /\ worth = "rotate" => AfterRefresh(token, worth) =
             [sess EXCEPT ![token.sid].gen = @ + 1, ![token.sid].open = TRUE]
      /\ worth = "reuse" => AfterRefresh(token, worth) = End(token.sid, "reused")
      /\ worth \notin {"rotate", "reuse"} => AfterRefresh(token, worth) = sess
  BY DEF AfterRefresh
<1>5. worth = "rotate" => AfterRefresh(token, worth) \in Sessions
  BY <1>1, <1>4 DEF Sessions, Session
<1>6. worth = "reuse" => AfterRefresh(token, worth) \in Sessions
  BY <1>4, EndFacts
<1>7. AfterRefresh(token, worth) \in Sessions
  BY <1>4, <1>5, <1>6
<1>. QED BY <1>1, <1>2, <1>3, <1>4, <1>7

-----------------------------------------------------------------------------
(* Types.                                                                  *)

LEMMA ClearType ==
  ASSUME TypeOK, NEW t \in Tabs, NEW synchronizeTabs \in BOOLEAN,
         Clear(t, synchronizeTabs)
  PROVE  auth' \in [Tabs -> Auth] /\ events' \in [Tabs -> SUBSET Event]
<1>1. auth' \in [Tabs -> Auth]
  BY DEF Clear, TypeOK, Auth
<1>2. auth[t] \in Sids => Published(t, "signed_out", auth[t]) \in [Tabs -> SUBSET Event]
  BY PublishedType
<1>3. events' \in [Tabs -> SUBSET Event]
  BY <1>2 DEF Clear, TypeOK
<1>. QED BY <1>1, <1>3

LEMMA SettleType ==
  ASSUME TypeOK, NEW t \in Tabs, NEW outcome, NEW token \in Cookie,
         Settle(t, outcome, token)
  PROVE  ref' \in [Tabs -> Refresh] /\ job' \in [Tabs -> Job]
<1>1. Continued(job[t], outcome, token) \in Job
  BY ContinuedType DEF TypeOK
<1>. QED BY <1>1, NoneTypes DEF Settle, TypeOK

LEMMA SupersedeType ==
  ASSUME TypeOK, NEW t \in Tabs
  PROVE  [ref EXCEPT ![t] = Superseded(@)] \in [Tabs -> Refresh]
BY SupersededFacts DEF TypeOK

LEMMA JoinedType ==
  ASSUME TypeOK, NEW t \in Tabs
  PROVE  Joined(t) \in [Tabs -> Refresh]
BY QueuedFacts DEF TypeOK, Joined

LEMMA ReloadedType ==
  ASSUME TypeOK, NEW t \in Tabs, Reloaded(t)
  PROVE  /\ auth' \in [Tabs -> Auth] /\ ref' \in [Tabs -> Refresh]
         /\ job' \in [Tabs -> Job] /\ events' \in [Tabs -> SUBSET Event]
         /\ lossy' \in BOOLEAN
BY NoneTypes DEF Reloaded, GivenUp, TypeOK, Auth

LEMMA TabStepType ==
  ASSUME TypeOK, NEW t \in Tabs, TabStep(t)
  PROVE  TypeOK'
<1>1. ASSUME NEW s \in Sids, SignIn(t, s) PROVE TypeOK'
  <2>1. sess' \in [Sids -> Session] /\ cookie' \in Cookie /\ auth' \in [Tabs -> Auth]
    BY <1>1 DEF SignIn, TypeOK, Session, Cookie, Auth
  <2>2. ref' \in [Tabs -> Refresh]
    BY <1>1, SupersedeType DEF SignIn
  <2>3. events' \in [Tabs -> SUBSET Event]
    BY <1>1, PublishedType DEF SignIn
  <2>. QED BY <1>1, <2>1, <2>2, <2>3 DEF SignIn, TypeOK
<1>2. CASE Rotation(t)
  BY <1>2, SupersedeType DEF Rotation, TypeOK
<1>3. CASE Resolve(t) \/ FreshHeaders(t)
  BY <1>3, JoinedType DEF Resolve, FreshHeaders, TypeOK
<1>4. CASE Reload(t)
  BY <1>4, ReloadedType DEF Reload, TypeOK
<1>5. CASE Redirect(t)
  <2>1. CASE Reloaded(t)
    BY <1>5, <2>1, ReloadedType DEF Redirect, TypeOK
  <2>2. CASE ~Reloaded(t)
    BY <1>5, <2>2, NoneTypes DEF Redirect, TypeOK
  <2>. QED BY <2>1, <2>2
<1>6. ASSUME NEW e \in events[t], AuthEvent(t, e) PROVE TypeOK'
  <2>1. CASE Reloaded(t)
    BY <1>6, <2>1, ReloadedType DEF AuthEvent, TypeOK
  <2>2. CASE ~Reloaded(t)
    <3>1. [events EXCEPT ![t] = @ \ {e}] \in [Tabs -> SUBSET Event]
      BY DEF TypeOK
    <3>2. [auth EXCEPT ![t] = Anonymous] \in [Tabs -> Auth]
      BY DEF TypeOK, Auth
    <3>. QED BY <1>6, <2>2, <3>1, <3>2, SupersedeType DEF AuthEvent, TypeOK
  <2>. QED BY <2>1, <2>2
<1>7. CASE Call(t) \/ Served(t)
  <2>1. auth[t] \in Sids => [NoJob EXCEPT !.pc = "call", !.sid = auth[t]] \in Job
    BY NoneTypes DEF NoJob, Job
  <2>. QED BY <1>7, <2>1, NoneTypes DEF Call, Served, TypeOK
<1>8. CASE Unauthorized(t)
  <2>1. /\ [NoJob EXCEPT !.pc = "leaving"] \in Job
        /\ [job[t] EXCEPT !.pc = "callWaits", !.retry = TRUE] \in Job
    BY NoneTypes DEF NoJob, Job, TypeOK
  <2>2. job' \in [Tabs -> Job]
    BY <1>8, <2>1, NoneTypes DEF Unauthorized, TypeOK
  <2>3. ref' \in [Tabs -> Refresh]
    <3>1. ref' \in {ref, Joined(t), [ref EXCEPT ![t] = Superseded(@)]}
      BY <1>8 DEF Unauthorized
    <3>. QED BY <3>1, JoinedType, SupersedeType DEF TypeOK
  <2>4. auth' \in [Tabs -> Auth] /\ events' \in [Tabs -> SUBSET Event]
    <3>1. (auth' = auth /\ events' = events) \/ Clear(t, FALSE)
      BY <1>8 DEF Unauthorized
    <3>. QED BY <3>1, ClearType DEF TypeOK
  <2>. QED BY <1>8, <2>2, <2>3, <2>4 DEF Unauthorized, TypeOK
<1>9. CASE SignOut(t)
  BY <1>9, NoneTypes DEF SignOut, Logout, NoJob, Job, TypeOK
<1>10. CASE AuthLogout(t)
  <2>1. sess' \in [Sids -> Session]
    BY <1>10, EndFacts DEF AuthLogout, TypeOK, Sessions
  <2>2. job[t].retry \in BOOLEAN
    BY DEF TypeOK, Job
  <2>3. \A r \in {"none", "cleared", "kept", "mismatch"} :
          [NoJob EXCEPT !.pc = "logoutDone", !.retry = job[t].retry, !.reply = r] \in Job
    BY <2>2, NoneTypes DEF NoJob, Job
  <2>4. job' \in [Tabs -> Job]
    BY <1>10, <2>3 DEF AuthLogout, TypeOK
  <2>. QED BY <1>10, <2>1, <2>4 DEF AuthLogout, TypeOK
<1>11. CASE SignedOutOk(t)
  <2>1. auth' \in [Tabs -> Auth] /\ events' \in [Tabs -> SUBSET Event]
    BY <1>11, ClearType DEF SignedOutOk
  <2>. QED BY <1>11, <2>1, NoneTypes, SupersedeType DEF SignedOutOk, TypeOK
<1>12. CASE SignOutMismatch(t)
  <2>1. [NoJob EXCEPT !.pc = "logoutWaits"] \in Job
    BY NoneTypes DEF NoJob, Job
  <2>. QED BY <1>12, <2>1, NoneTypes, JoinedType DEF SignOutMismatch, TypeOK
<1>13. CASE SignOutLost(t)
  BY <1>13, NoneTypes DEF SignOutLost, TypeOK
<1>. QED BY <1>1, <1>2, <1>3, <1>4, <1>5, <1>6, <1>7, <1>8, <1>9, <1>10, <1>11, <1>12, <1>13
     DEF TabStep

LEMMA RefreshStepType ==
  ASSUME TypeOK, NEW t \in Tabs, RefreshStep(t)
  PROVE  TypeOK'
<1>0. /\ ref[t] \in Refresh /\ ref[t].token \in Cookie /\ ref[t].expected \in Sid
      /\ cookie \in Cookie
  BY DEF TypeOK, Refresh, Sid
<1>00. Stored(ref[t]) \in Cookie
  BY <1>0, NoneTypes DEF Stored, TypeOK
<1>1. CASE Ask(t)
  BY <1>0, <1>1, AskingFacts DEF Ask, TypeOK
<1>2. CASE NotAsked(t)
  BY <1>2, NoneTypes, SettleType DEF NotAsked, TypeOK
<1>3. CASE RefreshAuth(t)
  <2>1. sess' \in [Sids -> Session]
    BY <1>0, <1>3, AfterRefreshFacts DEF RefreshAuth, TypeOK, Sessions
  <2>2. ref' \in [Tabs -> Refresh]
    BY <1>0, <1>3, AnswerFacts DEF RefreshAuth, TypeOK
  <2>. QED BY <1>3, <2>1, <2>2 DEF RefreshAuth, TypeOK
<1>4. CASE ArriveSuperseded(t)
  BY <1>00, <1>4, NoneTypes, SettleType DEF ArriveSuperseded, TypeOK
<1>5. CASE ArriveBundle(t)
  <2>1. auth' \in [Tabs -> Auth]
    BY <1>0, <1>5 DEF ArriveBundle, TypeOK, Auth, Cookie
  <2>. QED BY <1>0, <1>00, <1>5, <2>1, SettleType DEF ArriveBundle, TypeOK
<1>6. CASE ArriveMismatch(t)
  BY <1>0, <1>6, AskingFacts DEF ArriveMismatch, TypeOK, Auth
<1>7. CASE ArriveAnonymous(t)
  <2>1. auth' \in [Tabs -> Auth] /\ events' \in [Tabs -> SUBSET Event]
    BY <1>7, ClearType DEF ArriveAnonymous
  <2>2. ref' \in [Tabs -> Refresh] /\ job' \in [Tabs -> Job]
    BY <1>7, NoneTypes, SettleType DEF ArriveAnonymous
  <2>. QED BY <1>00, <1>7, <2>1, <2>2 DEF ArriveAnonymous, TypeOK
<1>8. CASE RefreshLost(t)
  <2>1. auth' \in [Tabs -> Auth]
    BY <1>8 DEF RefreshLost, TypeOK, Auth
  <2>. QED BY <1>8, <2>1, NoneTypes, SettleType DEF RefreshLost, GivenUp, TypeOK
<1>9. CASE RefreshRefused(t)
  <2>1. auth' \in [Tabs -> Auth] /\ events' \in [Tabs -> SUBSET Event]
    BY <1>9, ClearType DEF RefreshRefused
  <2>2. ref' \in [Tabs -> Refresh] /\ job' \in [Tabs -> Job]
    BY <1>9, NoneTypes, SettleType DEF RefreshRefused
  <2>. QED BY <1>9, <2>1, <2>2 DEF RefreshRefused, TypeOK
<1>10. CASE RefreshFails(t)
  BY <1>0, <1>10, AnswerFacts DEF RefreshFails, TypeOK
<1>. QED BY <1>1, <1>2, <1>3, <1>4, <1>5, <1>6, <1>7, <1>8, <1>9, <1>10 DEF RefreshStep

LEMMA ServerType ==
  ASSUME TypeOK, NEW s \in Sids, WindowEnds(s) \/ Revoke(s)
  PROVE  TypeOK'
<1>1. CASE WindowEnds(s)
  BY <1>1 DEF WindowEnds, TypeOK, Session
<1>2. CASE Revoke(s)
  BY <1>2, EndFacts DEF Revoke, TypeOK, Sessions
<1>. QED BY <1>1, <1>2

-----------------------------------------------------------------------------
(* The invariant, by what a step does to the four variables it is about.   *)

\* Nothing it is about changes.
LEMMA CoreSame ==
  ASSUME Core, UNCHANGED <<sess, cookie, ref, lossy>>
  PROVE  Core'
BY DEF Core, UnusedUnknown, BundlesNotGone, LockExclusive, TokensNewest, ReuseMeansLoss,
       InFlight, Bundle, AllEnded, Ended

\* A tab comes to wait, or to have no refresh, and gives up no bundle
\* silently; the cookie stays or goes.
LEMMA CoreIdle ==
  ASSUME TypeOK, Core, NEW t \in Tabs, NEW r \in Refresh,
         ref' = [ref EXCEPT ![t] = r],
         r.pc \notin {"asked", "answered"}, r.gone \subseteq AllEnded,
         sess' = sess, cookie' \in {cookie, NoCookie},
         lossy => lossy', Bundle(t) => lossy'
  PROVE  Core'
<1>0. \A x \in Tabs : x # t => ref'[x] = ref[x]
  BY DEF TypeOK
<1>1. ref'[t] = r
  BY DEF TypeOK
<1>2. AllEnded' = AllEnded
  BY DEF AllEnded, Ended
<1>3. \A x \in Tabs : (InFlight(x)' => InFlight(x) /\ x # t) /\ (Bundle(x)' => Bundle(x) /\ x # t)
  BY <1>0, <1>1 DEF InFlight, Bundle
<1>4. UnusedUnknown'
  BY <1>0, <1>3, AuthAssumption DEF Core, UnusedUnknown, NoCookie
<1>5. BundlesNotGone'
  BY <1>0, <1>1, <1>2, <1>3 DEF Core, BundlesNotGone
<1>6. LockExclusive'
  BY <1>3 DEF Core, LockExclusive
<1>7. TokensNewest'
  <2>. SUFFICES ASSUME Locks, ~lossy' PROVE TokensNewest'
    BY DEF TokensNewest
  <2>1. ~lossy /\ ~Bundle(t)
    OBVIOUS
  <2>2. \A x \in Tabs : ref'[x].pc = "asked" => x # t
    BY <1>1
  <2>3. \A x \in Tabs : Bundle(x) => Bundle(x)' /\ ref'[x] = ref[x]
    BY <1>0, <2>1 DEF Bundle
  <2>. QED BY <1>0, <1>3, <2>1, <2>2, <2>3, AuthAssumption DEF Core, TokensNewest, NoCookie
<1>8. ReuseMeansLoss'
  BY DEF Core, ReuseMeansLoss
<1>. QED BY <1>4, <1>5, <1>6, <1>7, <1>8 DEF Core

\* A new epoch; the cookie stays or goes.
LEMMA CoreSuperseded ==
  ASSUME TypeOK, Core, NEW t \in Tabs,
         ref' = [ref EXCEPT ![t] = Superseded(@)],
         sess' = sess, cookie' \in {cookie, NoCookie}, lossy' = lossy
  PROVE  Core'
<1>0. \A x \in Tabs : x # t => ref'[x] = ref[x]
  BY DEF TypeOK
<1>1. ref'[t] = Superseded(ref[t]) /\ ref[t] \in Refresh
  BY DEF TypeOK
<1>2. AllEnded' = AllEnded
  BY DEF AllEnded, Ended
<1>9. \A x \in Tabs : /\ ref'[x].pc = ref[x].pc /\ ref'[x].token = ref[x].token
                      /\ ref'[x].reply = ref[x].reply
  BY <1>0, <1>1, SupersededFacts
<1>3. \A x \in Tabs : /\ ref'[x].pc = ref[x].pc /\ ref'[x].token = ref[x].token
                      /\ InFlight(x)' <=> InFlight(x)
                      /\ Bundle(x)' <=> Bundle(x)
  BY <1>9 DEF InFlight, Bundle
<1>4. UnusedUnknown'
  BY <1>3, AuthAssumption DEF Core, UnusedUnknown, NoCookie
<1>5. BundlesNotGone'
  <2>1. ref[t].gone \subseteq AllEnded
    BY DEF Core, BundlesNotGone
  <2>2. ref'[t].gone \subseteq AllEnded /\ (Bundle(t) => ~ref'[t].current)
    BY <1>1, <2>1, SupersededFacts DEF Bundle
  <2>. QED BY <1>0, <1>2, <1>3, <2>2 DEF Core, BundlesNotGone
<1>6. LockExclusive'
  BY <1>3 DEF Core, LockExclusive
<1>7. TokensNewest'
  BY <1>3, AuthAssumption DEF Core, TokensNewest, NoCookie
<1>8. ReuseMeansLoss'
  BY DEF Core, ReuseMeansLoss
<1>. QED BY <1>4, <1>5, <1>6, <1>7, <1>8 DEF Core

\* The request leaves with the cookie, no other refresh being in flight.
LEMMA CoreAsk ==
  ASSUME TypeOK, Core, NEW t \in Tabs, NEW r \in Refresh,
         ref' = [ref EXCEPT ![t] = r],
         r.pc = "asked", r.gone = ref[t].gone, r.token = cookie,
         Locks => \A x \in Tabs : x # t => ~InFlight(x),
         ~Bundle(t),
         UNCHANGED <<sess, cookie, lossy>>
  PROVE  Core'
<1>0. \A x \in Tabs : x # t => ref'[x] = ref[x]
  BY DEF TypeOK
<1>1. ref'[t] = r
  BY DEF TypeOK
<1>2. AllEnded' = AllEnded
  BY DEF AllEnded, Ended
<1>3. \A x \in Tabs : x # t => (InFlight(x)' <=> InFlight(x))
  BY <1>0 DEF InFlight
<1>4. \A x \in Tabs : Bundle(x)' <=> Bundle(x)
  BY <1>0, <1>1 DEF Bundle
<1>5. UnusedUnknown'
  BY <1>0, <1>1, <1>3 DEF Core, UnusedUnknown
<1>6. BundlesNotGone'
  BY <1>0, <1>1, <1>2, <1>4 DEF Core, BundlesNotGone
<1>7. LockExclusive'
  BY <1>3 DEF LockExclusive
<1>8. TokensNewest'
  <2>. SUFFICES ASSUME Locks, ~lossy PROVE TokensNewest'
    BY DEF TokensNewest
  <2>1. \A x \in Tabs : ~Bundle(x)
    BY DEF Bundle, InFlight
  <2>2. cookie.sid \in Sids => cookie.gen = sess[cookie.sid].gen
    BY <2>1 DEF Core, TokensNewest
  <2>. QED BY <1>0, <1>1, <1>4, <2>1, <2>2 DEF Core, TokensNewest
<1>9. ReuseMeansLoss'
  BY DEF Core, ReuseMeansLoss
<1>. QED BY <1>5, <1>6, <1>7, <1>8, <1>9 DEF Core

\* The answer arrives: the cookie is stored and the refresh over.
LEMMA CoreArrive ==
  ASSUME TypeOK, Core, NEW t \in Tabs, ref[t].pc = "answered",
         ref' = [ref EXCEPT ![t] = NoRefresh],
         cookie' = Stored(ref[t]), UNCHANGED <<sess, lossy>>
  PROVE  Core'
<1>1. CASE ref[t].reply # "bundle"
  <2>1. cookie' \in {cookie, NoCookie}
    BY <1>1 DEF Stored
  <2>2. NoRefresh.pc \notin {"asked", "answered"} /\ NoRefresh.gone \subseteq AllEnded
    BY DEF NoRefresh
  <2>. QED BY <1>1, <2>1, <2>2, CoreIdle, NoneTypes DEF Bundle
<1>2. CASE ref[t].reply = "bundle"
  <2>0. \A x \in Tabs : x # t => ref'[x] = ref[x]
    BY DEF TypeOK
  <2>1. ref'[t] = NoRefresh /\ NoRefresh.pc = "none" /\ NoRefresh.gone = {}
    BY DEF TypeOK, NoRefresh
  <2>2. AllEnded' = AllEnded
    BY DEF AllEnded, Ended
  <2>3. \A x \in Tabs : (InFlight(x)' => InFlight(x) /\ x # t) /\ (Bundle(x)' => Bundle(x) /\ x # t)
    BY <2>0, <2>1 DEF InFlight, Bundle
  <2>4. cookie' = ref[t].token /\ Bundle(t) /\ InFlight(t) /\ ref[t].token.sid \in Sids
    BY <1>2 DEF Stored, Bundle, InFlight, Core, BundlesNotGone
  <2>5. UnusedUnknown'
    BY <2>0, <2>3, <2>4 DEF Core, UnusedUnknown
  <2>6. BundlesNotGone'
    BY <2>0, <2>1, <2>2, <2>3 DEF Core, BundlesNotGone
  <2>7. LockExclusive'
    BY <2>3 DEF Core, LockExclusive
  <2>8. TokensNewest'
    BY <2>0, <2>1, <2>3, <2>4 DEF Core, TokensNewest
  <2>9. ReuseMeansLoss'
    BY DEF Core, ReuseMeansLoss
  <2>. QED BY <2>5, <2>6, <2>7, <2>8, <2>9 DEF Core
<1>. QED BY <1>1, <1>2

\* The server answers a refresh.
LEMMA CoreAnswer ==
  ASSUME TypeOK, Core, NEW t \in Tabs, RefreshAuth(t)
  PROVE  Core'
<1>. DEFINE token == ref[t].token
            worth == Worth(ref[t].token, ref[t].expected)
            r == Answer(ref[t], worth)
<1>0. /\ ref[t] \in Refresh /\ token \in Cookie /\ ref[t].expected \in Sid
      /\ sess \in Sessions /\ ref[t].pc = "asked"
  BY DEF RefreshAuth, TypeOK, Refresh, Sid, Sessions
<1>1. /\ sess' = AfterRefresh(token, worth) /\ cookie' = cookie /\ lossy' = lossy
      /\ ref'[t] = r /\ \A x \in Tabs : x # t => ref'[x] = ref[x]
  BY DEF RefreshAuth, TypeOK
<1>2. /\ sess' \in Sessions
      /\ worth \in {"rotate", "recover", "reuse"} =>
           token.sid \in Sids /\ sess[token.sid].state = "active"
      /\ worth = "rotate" =>
           /\ token.gen = sess[token.sid].gen
           /\ sess' = [sess EXCEPT ![token.sid].gen = @ + 1, ![token.sid].open = TRUE]
      /\ worth \in {"recover", "reuse"} => token.gen + 1 = sess[token.sid].gen
      /\ worth = "reuse" => ~sess[token.sid].open
      /\ worth = "reuse" => sess' = End(token.sid, "reused")
      /\ worth \notin {"rotate", "reuse"} => sess' = sess
  <2>1. worth = Worth(token, ref[t].expected)
    OBVIOUS
  <2>. HIDE DEF worth, token
  <2>. QED BY <1>0, <1>1, <2>1, AfterRefreshFacts
<1>3. /\ r.pc = "answered" /\ r.gone = ref[t].gone
      /\ worth \in {"rotate", "recover"} =>
           r.reply = "bundle" /\ r.token.sid = token.sid /\ r.token.gen = token.gen + 1
      /\ worth \notin {"rotate", "recover"} => r.reply # "bundle" /\ r.token = NoCookie
  BY <1>0, AnswerFacts
<1>. HIDE DEF worth, r
<1>4. \A s \in Sids :
        /\ sess'[s].state = sess[s].state
             \/ (worth = "reuse" /\ s = token.sid /\ sess'[s].state = "reused")
        /\ sess'[s].gen = sess[s].gen \/ (worth = "rotate" /\ s = token.sid)
        /\ worth = "rotate" /\ s = token.sid => sess'[s].gen = sess[s].gen + 1
  <2>1. CASE worth = "rotate"
    BY <1>0, <1>2, <2>1 DEF Sessions, Session
  <2>2. CASE worth = "reuse"
    BY <1>0, <1>2, <2>2, EndFacts
  <2>3. CASE worth \notin {"rotate", "reuse"}
    BY <1>2, <2>3
  <2>. QED BY <2>1, <2>2, <2>3
<1>5. AllEnded \subseteq AllEnded'
  BY <1>2, <1>4 DEF AllEnded, Ended
<1>6. \A x \in Tabs : x # t => (InFlight(x)' <=> InFlight(x)) /\ (Bundle(x)' <=> Bundle(x))
  BY <1>1 DEF InFlight, Bundle
<1>7. InFlight(t) /\ InFlight(t)' /\ ~Bundle(t)
      /\ (Bundle(t)' <=> worth \in {"rotate", "recover"})
  BY <1>0, <1>1, <1>3 DEF InFlight, Bundle
<1>8. UnusedUnknown'
  <2>. SUFFICES ASSUME NEW s \in Sids, sess'[s].state = "unused"
                PROVE  /\ sess'[s].gen = 0
                       /\ cookie'.sid # s
                       /\ \A x \in Tabs : InFlight(x)' => ref'[x].token.sid # s
    BY DEF UnusedUnknown
  <2>1. sess[s].state = "unused"
    BY <1>4
  <2>2. sess[s].gen = 0 /\ cookie.sid # s /\ \A x \in Tabs : InFlight(x) => ref[x].token.sid # s
    BY <2>1 DEF Core, UnusedUnknown
  <2>3. r.token.sid # s
    BY <1>3, <1>7, <2>2, AuthAssumption DEF NoCookie
  <2>4. sess'[s].gen = 0
    BY <1>4, <1>7, <2>2
  <2>. QED BY <1>1, <1>6, <2>2, <2>3, <2>4
<1>9. BundlesNotGone'
  <2>1. \A x \in Tabs : ref'[x].gone = ref[x].gone
    BY <1>1, <1>3
  <2>2. \A x \in Tabs : ref'[x].gone \subseteq AllEnded'
    BY <1>5, <2>1 DEF Core, BundlesNotGone
  <2>3. Bundle(t)' => r.token.sid \in Sids /\ r.token.sid \notin ref[t].gone
    <3>1. worth \in {"rotate", "recover"} => token.sid \notin AllEnded
      BY <1>2 DEF AllEnded, Ended
    <3>. QED BY <1>2, <1>3, <1>7, <3>1 DEF Core, BundlesNotGone
  <2>. QED BY <1>1, <1>6, <2>1, <2>2, <2>3 DEF Core, BundlesNotGone
<1>10. LockExclusive'
  BY <1>6, <1>7 DEF Core, LockExclusive
<1>11. ASSUME Locks, ~lossy
       PROVE  /\ worth \notin {"recover", "reuse"}
              /\ \A x \in Tabs : x # t => ~InFlight(x)
              /\ cookie.sid \in Sids => cookie.gen = sess[cookie.sid].gen
  <2>1. \A x \in Tabs : x # t => ~InFlight(x)
    BY <1>7, <1>11 DEF Core, LockExclusive
  <2>2. token.sid \in Sids => token.gen = sess[token.sid].gen
    BY <1>0, <1>11 DEF Core, TokensNewest
  <2>3. worth \notin {"recover", "reuse"}
    BY <1>0, <1>2, <2>2 DEF Cookie, Sessions, Session
  <2>4. \A x \in Tabs : ~Bundle(x)
    BY <1>7, <2>1 DEF Bundle, InFlight
  <2>5. cookie.sid \in Sids => cookie.gen = sess[cookie.sid].gen
    BY <1>11, <2>4 DEF Core, TokensNewest
  <2>. QED BY <2>1, <2>3, <2>5
<1>12. TokensNewest'
  <2>. SUFFICES ASSUME Locks, ~lossy PROVE TokensNewest'
    BY <1>1 DEF TokensNewest
  <2>1. \A x \in Tabs : ref'[x].pc # "asked" /\ (Bundle(x)' => x = t)
    BY <1>1, <1>3, <1>6, <1>11 DEF InFlight, Bundle
  <2>2. Bundle(t)' => r.token.gen = sess'[r.token.sid].gen
    BY <1>2, <1>3, <1>4, <1>7, <1>11
  <2>3. cookie'.sid \in Sids =>
          cookie'.gen = sess'[cookie'.sid].gen \/ (Bundle(t)' /\ ref'[t].token.sid = cookie'.sid)
    BY <1>1, <1>3, <1>4, <1>7, <1>11
  <2>. QED BY <1>1, <2>1, <2>2, <2>3 DEF TokensNewest
<1>13. ReuseMeansLoss'
  <2>. SUFFICES ASSUME NEW s \in Sids, sess'[s].state = "reused"
                PROVE  ~sess'[s].open /\ (Locks => lossy')
    BY DEF ReuseMeansLoss
  <2>1. CASE worth = "rotate"
    <3>1. sess'[s].state = sess[s].state /\ (s # token.sid => sess'[s] = sess[s])
      BY <1>0, <1>2, <2>1 DEF Sessions, Session
    <3>2. s # token.sid
      BY <1>2, <2>1, <3>1
    <3>. QED BY <1>1, <3>1, <3>2 DEF Core, ReuseMeansLoss
  <2>2. CASE worth = "reuse"
    <3>1. \/ sess'[s] = sess[s]
          \/ s = token.sid /\ (sess'[s].open => sess[s].open)
      BY <1>0, <1>2, <2>2, EndFacts
    <3>. QED BY <1>1, <1>2, <1>11, <2>2, <3>1 DEF Core, ReuseMeansLoss
  <2>3. CASE worth \notin {"rotate", "reuse"}
    BY <1>1, <1>2, <2>3 DEF Core, ReuseMeansLoss
  <2>. QED BY <2>1, <2>2, <2>3
<1>. QED BY <1>8, <1>9, <1>10, <1>12, <1>13 DEF Core

\* The server cannot read the session: an answer without a bundle.
LEMMA CoreFails ==
  ASSUME TypeOK, Core, NEW t \in Tabs, RefreshFails(t)
  PROVE  Core'
<1>. DEFINE r == Answer(ref[t], "anonymous")
<1>0. /\ ref[t] \in Refresh /\ ref[t].pc = "asked"
      /\ ref'[t] = r /\ \A x \in Tabs : x # t => ref'[x] = ref[x]
      /\ UNCHANGED <<sess, cookie, lossy>>
  BY DEF RefreshFails, TypeOK
<1>1. /\ r.pc = "answered" /\ r.gone = ref[t].gone
      /\ r.reply # "bundle" /\ r.token = NoCookie
  BY <1>0, AnswerFacts
<1>. HIDE DEF r
<1>2. AllEnded' = AllEnded
  BY <1>0 DEF AllEnded, Ended
<1>3. /\ ~Bundle(t) /\ ~Bundle(t)'
      /\ \A x \in Tabs : (InFlight(x)' <=> InFlight(x)) /\ (Bundle(x)' <=> Bundle(x))
  BY <1>0, <1>1 DEF InFlight, Bundle
<1>4. UnusedUnknown'
  BY <1>0, <1>1, <1>3, AuthAssumption DEF Core, UnusedUnknown, NoCookie
<1>5. BundlesNotGone'
  BY <1>0, <1>1, <1>2, <1>3 DEF Core, BundlesNotGone
<1>6. LockExclusive'
  BY <1>3 DEF Core, LockExclusive
<1>7. TokensNewest'
  BY <1>0, <1>1, <1>3 DEF Core, TokensNewest
<1>8. ReuseMeansLoss'
  BY <1>0 DEF Core, ReuseMeansLoss
<1>. QED BY <1>4, <1>5, <1>6, <1>7, <1>8 DEF Core

\* A session is issued: its cookie is the newest, and no request knew it.
LEMMA CoreSignIn ==
  ASSUME TypeOK, Core, NEW t \in Tabs, NEW s \in Sids, SignIn(t, s)
  PROVE  Core'
<1>0. /\ ref[t] \in Refresh /\ \A x \in Tabs : x # t => ref'[x] = ref[x]
      /\ ref'[t] = Superseded(ref[t]) /\ lossy' = lossy
      /\ cookie'.sid = s /\ cookie'.gen = 0
  BY DEF SignIn, TypeOK
<1>1. /\ sess[s].state = "unused" /\ sess'[s].state = "active"
      /\ \A x \in Sids : sess'[x].gen = sess[x].gen
      /\ \A x \in Sids : x # s => sess'[x] = sess[x]
  BY DEF SignIn, TypeOK, Session
<1>2. AllEnded \subseteq AllEnded'
  BY <1>1 DEF AllEnded, Ended
<1>3. \A x \in Tabs : /\ ref'[x].pc = ref[x].pc /\ ref'[x].token = ref[x].token
                      /\ ref'[x].reply = ref[x].reply
  BY <1>0, SupersededFacts
<1>4. \A x \in Tabs : (InFlight(x)' <=> InFlight(x)) /\ (Bundle(x)' <=> Bundle(x))
  BY <1>3 DEF InFlight, Bundle
<1>5. sess[s].gen = 0 /\ \A x \in Tabs : InFlight(x) => ref[x].token.sid # s
  BY <1>1 DEF Core, UnusedUnknown
<1>6. UnusedUnknown'
  BY <1>0, <1>1, <1>3, <1>4 DEF Core, UnusedUnknown
<1>7. BundlesNotGone'
  <2>1. ref[t].gone \subseteq AllEnded
    BY DEF Core, BundlesNotGone
  <2>2. ref'[t].gone \subseteq AllEnded /\ (Bundle(t) => ~ref'[t].current)
    BY <1>0, <2>1, SupersededFacts DEF Bundle
  <2>. QED BY <1>0, <1>2, <1>3, <1>4, <2>2 DEF Core, BundlesNotGone
<1>8. LockExclusive'
  BY <1>4 DEF Core, LockExclusive
<1>9. TokensNewest'
  <2>. SUFFICES ASSUME Locks, ~lossy PROVE TokensNewest'
    BY <1>0 DEF TokensNewest
  <2>1. cookie'.gen = sess'[cookie'.sid].gen
    BY <1>0, <1>1, <1>5
  <2>2. ASSUME NEW x \in Tabs
        PROVE  /\ ref'[x].pc = "asked" /\ ref'[x].token.sid \in Sids =>
                    ref'[x].token.gen = sess'[ref'[x].token.sid].gen
               /\ Bundle(x)' => ref'[x].token.gen = sess'[ref'[x].token.sid].gen
    BY <1>1, <1>3, <1>4 DEF Core, TokensNewest, BundlesNotGone
  <2>. QED BY <2>1, <2>2 DEF TokensNewest
<1>10. ReuseMeansLoss'
  BY <1>0, <1>1 DEF Core, ReuseMeansLoss
<1>. QED BY <1>6, <1>7, <1>8, <1>9, <1>10 DEF Core

\* A session ends or its replay window does.
LEMMA CoreEnds ==
  ASSUME TypeOK, Core, UNCHANGED <<cookie, ref, lossy>>,
         \A s \in Sids : /\ sess'[s].gen = sess[s].gen
                         /\ \/ sess'[s].state = sess[s].state /\ (sess'[s].open => sess[s].open)
                            \/ sess[s].state = "active" /\ sess'[s].state = "revoked"
  PROVE  Core'
<1>1. AllEnded \subseteq AllEnded'
  BY DEF AllEnded, Ended
<1>2. UnusedUnknown'
  BY DEF Core, UnusedUnknown, InFlight
<1>3. BundlesNotGone'
  BY <1>1 DEF Core, BundlesNotGone, Bundle
<1>4. LockExclusive'
  BY DEF Core, LockExclusive, InFlight
<1>5. TokensNewest'
  BY DEF Core, TokensNewest, Bundle, BundlesNotGone
<1>6. ReuseMeansLoss'
  BY DEF Core, ReuseMeansLoss
<1>. QED BY <1>2, <1>3, <1>4, <1>5, <1>6 DEF Core

\* refreshAuthentication
LEMMA CoreJoined ==
  ASSUME TypeOK, Core, NEW t \in Tabs, ref' = Joined(t),
         UNCHANGED <<sess, cookie, lossy>>
  PROVE  Core'
<1>1. CASE ref[t].pc = "none"
  <2>1. ref' = [ref EXCEPT ![t] = Queued] /\ ~Bundle(t)
    BY <1>1 DEF Joined, TypeOK, Bundle
  <2>. QED BY <2>1, CoreIdle, QueuedFacts
<1>2. CASE ref[t].pc # "none"
  <2>1. ref' = ref
    BY <1>2 DEF Joined, TypeOK
  <2>. QED BY <2>1, CoreSame
<1>. QED BY <1>1, <1>2

\* A refresh is over without a bundle, or given up.
LEMMA CoreOver ==
  ASSUME TypeOK, Core, NEW t \in Tabs, ref' = [ref EXCEPT ![t] = NoRefresh],
         sess' = sess, cookie' = cookie,
         GivenUp(t) \/ (lossy' = lossy /\ ref[t].pc # "answered")
  PROVE  Core'
<1>1. NoRefresh.pc \notin {"asked", "answered"} /\ NoRefresh.gone \subseteq AllEnded
  BY DEF NoRefresh
<1>2. (lossy => lossy') /\ (Bundle(t) => lossy')
  <2>1. lossy \in BOOLEAN
    BY DEF TypeOK
  <2>2. CASE GivenUp(t)
    BY <2>1, <2>2, Zenon DEF GivenUp, Bundle
  <2>3. CASE lossy' = lossy /\ ref[t].pc # "answered"
    BY <2>3 DEF Bundle
  <2>. QED BY <2>2, <2>3
<1>. QED BY <1>1, <1>2, CoreIdle, NoneTypes

-----------------------------------------------------------------------------
LEMMA CoreTabStep ==
  ASSUME TypeOK, Core, NEW t \in Tabs, TabStep(t)
  PROVE  Core'
<1>1. ASSUME NEW s \in Sids, SignIn(t, s) PROVE Core'
  BY <1>1, CoreSignIn
<1>2. CASE Rotation(t)
  BY <1>2, CoreSuperseded DEF Rotation
<1>3. CASE Resolve(t) \/ FreshHeaders(t)
  BY <1>3, CoreJoined DEF Resolve, FreshHeaders
<1>4. CASE Reload(t)
  BY <1>4, CoreOver DEF Reload, Reloaded
<1>5. CASE Redirect(t)
  BY <1>5, CoreOver, CoreSame DEF Redirect, Reloaded
<1>6. ASSUME NEW e \in events[t], AuthEvent(t, e) PROVE Core'
  BY <1>6, CoreOver, CoreSame, CoreSuperseded DEF AuthEvent, Reloaded
<1>7. CASE Call(t) \/ Served(t) \/ SignOut(t) \/ SignOutLost(t)
  BY <1>7, CoreSame DEF Call, Served, SignOut, SignOutLost
<1>8. CASE Unauthorized(t)
  BY <1>8, CoreSame, CoreJoined, CoreSuperseded DEF Unauthorized
<1>9. CASE AuthLogout(t)
  <2>1. sess \in Sessions
    BY DEF TypeOK, Sessions
  <2>2. sess' = sess \/ sess' = End(job[t].sid, "revoked")
    BY <1>9 DEF AuthLogout
  <2>3. \A s \in Sids : /\ sess'[s].gen = sess[s].gen
                        /\ \/ sess'[s].state = sess[s].state /\ (sess'[s].open => sess[s].open)
                           \/ sess[s].state = "active" /\ sess'[s].state = "revoked"
    BY <2>1, <2>2, EndFacts
  <2>. QED BY <1>9, <2>3, CoreEnds DEF AuthLogout
<1>10. CASE SignedOutOk(t)
  BY <1>10, CoreSuperseded DEF SignedOutOk
<1>11. CASE SignOutMismatch(t)
  BY <1>11, CoreJoined, CoreSame DEF SignOutMismatch
<1>. QED BY <1>1, <1>2, <1>3, <1>4, <1>5, <1>6, <1>7, <1>8, <1>9, <1>10, <1>11
     DEF TabStep

LEMMA CoreRefreshStep ==
  ASSUME TypeOK, Core, NEW t \in Tabs, RefreshStep(t)
  PROVE  Core'
<1>0. ref[t] \in Refresh /\ cookie \in Cookie
  BY DEF TypeOK
<1>1. CASE Ask(t)
  <2>1. Locks => \A x \in Tabs : ~InFlight(x)
    BY <1>1 DEF Ask, LockFree, InFlight
  <2>2. ref' = [ref EXCEPT ![t] = Asking(ref[t], auth[t])] /\ ~Bundle(t)
    BY <1>1 DEF Ask, TypeOK, Bundle
  <2>. QED BY <1>0, <1>1, <2>1, <2>2, CoreAsk, AskingFacts DEF Ask
<1>2. CASE NotAsked(t)
  BY <1>2, CoreOver DEF NotAsked, Settle
<1>3. CASE RefreshAuth(t)
  BY <1>3, CoreAnswer
<1>4. CASE ArriveSuperseded(t)
  BY <1>4, CoreArrive DEF ArriveSuperseded, Settle
<1>5. CASE ArriveBundle(t)
  BY <1>5, CoreArrive DEF ArriveBundle, Settle
<1>6. CASE ArriveMismatch(t)
  <2>1. InFlight(t) /\ ~Bundle(t)
    BY <1>6 DEF ArriveMismatch, InFlight, Bundle
  <2>2. Locks => \A x \in Tabs : x # t => ~InFlight(x)
    BY <2>1 DEF Core, LockExclusive
  <2>3. ref' = [ref EXCEPT ![t] = Asking(ref[t], None)]
    BY <1>6 DEF ArriveMismatch, TypeOK
  <2>. QED BY <1>0, <1>6, <2>1, <2>2, <2>3, CoreAsk, AskingFacts DEF ArriveMismatch
<1>7. CASE ArriveAnonymous(t)
  BY <1>7, CoreArrive DEF ArriveAnonymous, Settle
<1>8. CASE RefreshLost(t)
  BY <1>8, CoreOver DEF RefreshLost, Settle
<1>9. CASE RefreshRefused(t)
  BY <1>9, CoreOver DEF RefreshRefused, Settle
<1>10. CASE RefreshFails(t)
  BY <1>10, CoreFails
<1>. QED BY <1>1, <1>2, <1>3, <1>4, <1>5, <1>6, <1>7, <1>8, <1>9, <1>10 DEF RefreshStep

LEMMA CoreServer ==
  ASSUME TypeOK, Core, NEW s \in Sids, WindowEnds(s) \/ Revoke(s)
  PROVE  Core'
<1>1. \A r \in Sids : /\ sess'[r].gen = sess[r].gen
                      /\ \/ sess'[r].state = sess[r].state /\ (sess'[r].open => sess[r].open)
                         \/ sess[r].state = "active" /\ sess'[r].state = "revoked"
  <2>1. CASE WindowEnds(s)
    BY <2>1 DEF WindowEnds, TypeOK, Session
  <2>2. CASE Revoke(s)
    BY <2>2, EndFacts DEF Revoke, TypeOK, Sessions
  <2>. QED BY <2>1, <2>2
<1>. QED BY <1>1, CoreEnds DEF WindowEnds, Revoke

-----------------------------------------------------------------------------
LEMMA AuthInvInit == Init => AuthInv
<1>. SUFFICES ASSUME Init PROVE AuthInv
  OBVIOUS
<1>1. TypeOK
  BY NoneTypes DEF Init, TypeOK, Session, Auth
<1>2. /\ \A t \in Tabs : ref[t] = NoRefresh /\ ref[t].pc = "none" /\ ref[t].gone = {}
      /\ cookie.sid = None
      /\ \A s \in Sids : sess[s].state = "unused" /\ sess[s].gen = 0
  BY DEF Init, NoRefresh, NoCookie
<1>3. UnusedUnknown /\ BundlesNotGone /\ LockExclusive /\ TokensNewest /\ ReuseMeansLoss
  BY <1>2, AuthAssumption DEF UnusedUnknown, BundlesNotGone, LockExclusive, TokensNewest,
     ReuseMeansLoss, InFlight, Bundle
<1>. QED BY <1>1, <1>3 DEF AuthInv

LEMMA AuthInvNext == AuthInv /\ [Next]_vars => AuthInv'
<1>. SUFFICES ASSUME AuthInv, [Next]_vars PROVE AuthInv'
  OBVIOUS
<1>0. TypeOK /\ Core
  BY DEF AuthInv, Core
<1>1. CASE UNCHANGED vars
  <2>1. TypeOK'
    BY <1>0, <1>1 DEF vars, TypeOK
  <2>. QED BY <1>0, <1>1, <2>1, CoreSame DEF vars, AuthInv, Core
<1>2. ASSUME NEW t \in Tabs, TabStep(t) PROVE AuthInv'
  BY <1>0, <1>2, TabStepType, CoreTabStep DEF AuthInv, Core
<1>3. ASSUME NEW t \in Tabs, RefreshStep(t) PROVE AuthInv'
  BY <1>0, <1>3, RefreshStepType, CoreRefreshStep DEF AuthInv, Core
<1>4. ASSUME NEW s \in Sids, WindowEnds(s) \/ Revoke(s) PROVE AuthInv'
  BY <1>0, <1>4, ServerType, CoreServer DEF AuthInv, Core
<1>. QED BY <1>1, <1>2, <1>3, <1>4 DEF Next

\* The inductive invariant of the sessions: types, the tokens every cookie and
\* request holds, and the exclusion of the browser's lock.
THEOREM AuthInvariant == Spec => []AuthInv
BY AuthInvInit, AuthInvNext, PTL DEF Spec

\* However many tabs refresh, with the browser's lock the server never takes
\* a refresh token for stolen (RotateUserSessionRefresh) unless a refresh was
\* given up with its request on the way and, lock or not, the replay window of
\* the token it takes for stolen had ended.
THEOREM ReuseMeansLossTheorem == Spec => []ReuseMeansLoss
<1>1. AuthInv => ReuseMeansLoss
  BY DEF AuthInv
<1>. QED BY <1>1, AuthInvariant, PTL

\* One step never takes a tab to a session that had ended when its refresh
\* began or was superseded.
LEMMA NotBack ==
  ASSUME TypeOK, Core, [Next]_vars, NEW t \in Tabs, auth'[t] # auth[t]
  PROVE  auth'[t] \notin ref[t].gone
<1>0. /\ ref[t].gone \subseteq AllEnded /\ ref[t].gone \subseteq Sids
      /\ None \notin Sids /\ Anonymous \notin Sids
  BY AuthAssumption, AllEndedType DEF Core, BundlesNotGone
<1>1. CASE auth'[t] \in {None, Anonymous}
  BY <1>0, <1>1
<1>2. ASSUME NEW s \in Sids, SignIn(t, s) PROVE auth'[t] \notin ref[t].gone
  BY <1>0, <1>2 DEF SignIn, TypeOK, AllEnded, Ended
<1>3. CASE ArriveBundle(t)
  BY <1>3 DEF ArriveBundle, StillCurrent, TypeOK, Core, BundlesNotGone, Bundle
<1>4. ASSUME auth'[t] \notin {None, Anonymous}
      PROVE  (\E s \in Sids : SignIn(t, s)) \/ ArriveBundle(t)
  <2>0. auth' # auth
    OBVIOUS
  <2>1. ASSUME NEW x \in Tabs, TabStep(x)
        PROVE  \E s \in Sids : SignIn(t, s)
    <3>1. \A s \in Sids : SignIn(x, s) => x = t
      BY DEF SignIn, TypeOK
    <3>2. ~(Rotation(x) \/ Resolve(x) \/ FreshHeaders(x) \/ Call(x) \/ Served(x)
            \/ SignOut(x) \/ AuthLogout(x) \/ SignOutMismatch(x) \/ SignOutLost(x))
      BY <2>0 DEF Rotation, Resolve, FreshHeaders, Call, Served, SignOut, AuthLogout,
         SignOutMismatch, SignOutLost
    <3>3. ~(Reload(x) \/ Redirect(x))
      BY <1>4, <2>0 DEF Reload, Redirect, Reloaded, TypeOK
    <3>4. ~(\E e \in events[x] : AuthEvent(x, e))
      BY <1>4, <2>0 DEF AuthEvent, Reloaded, TypeOK
    <3>5. ~(Unauthorized(x) \/ SignedOutOk(x))
      BY <1>4, <2>0 DEF Unauthorized, SignedOutOk, Clear, TypeOK
    <3>. QED BY <2>1, <3>1, <3>2, <3>3, <3>4, <3>5 DEF TabStep
  <2>2. ASSUME NEW x \in Tabs, RefreshStep(x)
        PROVE  ArriveBundle(t)
    <3>1. ArriveBundle(x) => x = t
      BY DEF ArriveBundle, TypeOK
    <3>2. ~(Ask(x) \/ NotAsked(x) \/ RefreshAuth(x) \/ RefreshFails(x) \/ ArriveSuperseded(x))
      BY <2>0 DEF Ask, NotAsked, RefreshAuth, RefreshFails, ArriveSuperseded
    <3>3. ~(ArriveMismatch(x) \/ ArriveAnonymous(x) \/ RefreshRefused(x))
      BY <1>4, <2>0 DEF ArriveMismatch, ArriveAnonymous, RefreshRefused, Clear, TypeOK
    <3>4. ~RefreshLost(x)
      BY <1>4, <2>0 DEF RefreshLost, TypeOK
    <3>. QED BY <2>2, <3>1, <3>2, <3>3, <3>4 DEF RefreshStep
  <2>3. \A s \in Sids : ~(WindowEnds(s) \/ Revoke(s))
    BY <2>0 DEF WindowEnds, Revoke
  <2>4. ~UNCHANGED vars
    BY <2>0 DEF vars
  <2>. QED BY <2>1, <2>2, <2>3, <2>4 DEF Next
<1>. QED BY <1>1, <1>2, <1>3, <1>4

\* No late answer takes a tab back to a session that had ended: what authEpoch
\* and the server's check of the session's status are for.
THEOREM NeverBackToEndedTheorem == Spec => NeverBackToEnded
<1>1. AuthInv /\ [Next]_vars =>
        [\A t \in Tabs : auth'[t] # auth[t] => auth'[t] \notin ref[t].gone]_vars
  BY NotBack DEF AuthInv, Core
<1>. QED BY <1>1, AuthInvariant, PTL DEF Spec, NeverBackToEnded
=============================================================================
