# new-api: a TLA+ verification of its billing, background and session core

new-api is an LLM gateway. It authenticates a caller, relays the request to one
of many upstream channels, retries on other channels when an attempt fails, and
charges the user for what was used. Around the relay stand a shop, memberships,
payments, reseller tenants and asynchronous image and video tasks, all of them
driven by background workers. Money (quota) and the workers that move it are
what the program must get right under concurrency, failing database operations
and process stops. Two parts of the web front end carry such state too: the
submission of paid videos, which must not be charged twice, and the login
session that several tabs share. This project models these; the relay adaptors
and the rest of the user interface hold nothing that outlives a request.

The source is Go (`service/`, `model/`, `controller/`, `relay/`,
`background_jobs.go`) and TypeScript (`web/default/src/`); paths below are
relative to the repository root, those of the two browser modules to
`web/default/src/`.

## 1. Inventory

### Components

| component | state | operations | hard behaviour |
|---|---|---|---|
| request billing session (`service/billing_session.go`, `service/funding_source.go`) | `BillingSession` in memory; funding source (wallet, subscription, membership, tenant), estimate, what was pre-consumed | NewBillingSession, Reserve, Settle, Refund | two accounts moved one after the other with no transaction; retries; refunds in goroutines; loss of the process |
| wallet and token quota (`model/user_quota.go`, `model/token.go`, `model/quota_reserve.go`) | `users.quota`, `tokens.remain_quota`, Redis copies, batch-update accumulator | conditional reserve, unconditional move | requests of one user compete; a cache in front of the database |
| user subscriptions (`model/subscription.go`) | `user_subscriptions`, `subscription_pre_consume_records` | pre-consume, post-consume delta, refund, reset, expire | period ends between pre-consume and settle; nested transactions; retried refunds |
| transactional outbox (`service/kkai_outbox*.go`) | `kkai_outbox` rows: status, attempts, available_at, locked_by, locked_at, last_error | enqueue, claim, heartbeat, deliver, defer, fail, release, redrive | competing workers; expiring locks; crash between effect and mark; order within an aggregate |
| leader lease and background jobs (`service/kkai_leader_lease.go`, `service/background_job*.go`, `model/shop_worker_fence.go`, `model/image_async_guard.go`) | `kkai_job_leases` row: holder, fence, lease_until | acquire, renew, release, run jobs, shutdown jobs, fenced transactions | leader paused past its TTL; lost answers; stop racing the renewal tick |
| durable task billing (`model/task_billing.go`, `service/task_billing*.go`, `relay/relay_task.go`, `controller/task_submission.go`) | `tasks` row: billing state, quota, status, upstream id | reserve, claim, accept, mark unknown, adjust, refund, recover | crash around the upstream call; recovery racing submission; poll racing both |
| membership billing, wallet payments and top-ups, shop orders, reseller finance | row-locked orders, allowances, budgets, commissions | create, pay, callback, query, refund, settle | duplicated and reordered callbacks; expiry racing payment |
| system tasks (`service/system_task*.go`) | exclusive tasks claimed by instances | claim, renew, finish | takeover of a slow owner |
| paid video submissions (`features/video-studio/`, `stores/video-studio-submission-store.ts`) | recovery records in `localStorage`, their copy in each tab, `identityEpoch`, the composer's refs | submit, begin, send, markUnknown, resolve, confirmGenerations | several tabs and users; identity changes while a request is paused; reloads; failing storage; answers that prove nothing |
| browser login sessions (`lib/auth-session*.ts`, `lib/http-client.ts`; `controller/auth_session.go`, `model/user_session.go`) | access token per tab, Refresh Cookie per browser, `refreshPromise`, `authEpoch`; `user_sessions` row | refresh, rotate, retry after 401, sign in and out, messages between tabs | tabs refreshing at once; late answers after a sign-out; lost successors and the replay window |
| second factors and login, rate limits, channel selection | challenges, windows, cooldowns | verify, allow, choose | stale cache; boundaries |
| relay adaptors, pricing expressions, other front ends, migrations, vendored code | - | conversion, I/O | not concurrency |

`PROJECT.json` lists all of them with their status and their files.

### How they interact

A relayed request opens a **billing session**; the relay loop raises its
reservation before an attempt, and settles or refunds it at the end. The session
moves the **wallet**, the **token** and the **subscription** in separate database
operations. Work that must not be lost (task recovery, image execution, archive,
notifications) is written to the **outbox** in the business transaction and
executed by outbox workers. Jobs that must not run twice at a time run only in
the process that holds the **leader lease**; the shop and image workers also
check the lease's fence inside each of their transactions. Durable tasks use both: their
reservation is a row-locked transaction and their recovery an outbox event.

In the browser, the composer of the **video studio** writes a recovery record
before it posts a task and settles it by the answer or by the list of
generations; it refuses to post when the **login session** has changed since the
user pressed the button. The session store of a tab is fed by sign-in, by
refreshes and by messages of other tabs; every API call goes through an
interceptor that refreshes once after a 401.

### What makes each part correct

- Billing: a settled request costs exactly what it used; a failed one costs
  nothing; nobody is refunded more than was taken; competing requests do not
  overdraw a balance or a subscription; quota that is held is settled or
  returned in the end.
- Outbox: delivered means handled; an event is handled once unless a lock
  expired; order within an aggregate; a bounded number of failures; replayed
  redrives do nothing when their key stays readable; every event is settled in the end.
- Lease: a fence names one term; writes under an old fence never follow writes
  under a newer one; jobs of two processes do not overlap while leaders are
  timely; leadership always returns; a stop ends; a handover is clean.
- Tasks: the accounts lack exactly what the row says, a subscription's up to what
  the ends of its periods forgave; the upstream takes a task
  on at most once; accepted work is not refunded unless it failed; a failed task
  is refunded, once and for good; a result stands; no hold is forgotten; an
  accepted task's id is made durable.
- Video submissions: a request that may still be charged keeps its place, and
  no equal one is sent meanwhile, in one tab always and across tabs until their
  unlocked writes to `localStorage` collide; it leaves as the user who submitted it
  or not at all; tabs show their own user's records.
- Browser sessions: late answers do not bring an ended session back; tabs that
  refresh together do not cost the session; every refresh ends; a tab in use
  notices that its session has ended.
- Payments (planned): an order is credited exactly once.

The concrete hazards, each at its line, are listed in `PROJECT.json`
("hazards") with the properties that would catch them.

## 2. Modules

| module | models |
|---|---|
| `BillingSession` | request billing over wallet, token and subscription |
| `BillingSessionProofs` | its inductive accounting and the safety theorems |
| `OrderedDelivery` | abstract: what the outbox promises to producers and handlers of events |
| `Outbox` | the transactional outbox, its workers and redrives; refines `OrderedDelivery` |
| `OutboxProofs` | its inductive invariant, the safety theorems and the refinement |
| `FencedTerms` | abstract: what the lease promises to the writes of global jobs |
| `LeaderLease` | the lease, leadership terms, job loops and fenced transactions; refines `FencedTerms` |
| `LeaderLeaseProofs` | its inductive invariant, the safety theorems and the refinement |
| `TaskCharge` | abstract: what an asynchronous task may cost its user |
| `TaskBilling` | one durable task: submission, recovery event and pollers on its row; refines `TaskCharge` |
| `TaskBillingProofs` | its inductive invariants, the safety theorems and the refinement |
| `SubmitOnce` | abstract: what the video studio promises about equal paid requests |
| `VideoSubmission` | submissions, recovery records and identities in several tabs; refines `SubmitOnce` |
| `VideoSubmissionProofs` | its inductive invariant, the safety theorems and the refinement |
| `AuthSession` | login sessions: tabs, refresh runner, cookie and the server's rotation |
| `AuthSessionProofs` | its inductive invariant and the safety theorems |
| `MCBillingSession`, `MCOutbox`, `MCLeaderLease`, `MCTaskBilling`, `MCVideoSubmission`, `MCAuthSession` | instances for TLC |

Definitions keep the names of the functions they model; "map" in `PROJECT.json`
gives the source lines of each. Definitions whose name starts with `Mut` are
deliberately wrong variants of the definition below them, used to show that a
property can fail; the specification itself never uses them.

### BillingSession

One user, one token, one subscription and any number of requests. `sess[r]` is
the `BillingSession` of request `r` together with the place its code has
reached (`at`) and the locals that live across a database operation; `record` is
the pre-consume record; `wallet`, `token`, `subUsed`, `subActive`, `resetDue` are
the rows. `net`, `walletDebt` and `tokenDebt` are history variables: what each
request has taken and not given back, and what was taken without a balance check.

Every action is one database operation together with the local decisions that
precede or follow it, so any other request can run between two of them:

| action | code |
|---|---|
| Arrive, TryWalletStep, CheckOverflow | NewBillingSession, tryWallet, shouldTrust, the fallbacks |
| PreToken, PreFundingWallet, PreFundingSubscription, RollbackToken | preConsume and its rollback |
| ReserveWallet, ReserveSubscription, ReserveToken, RollbackReserve | Reserve, reserveFunding, reserveToken, rollbackFundingReserve |
| SettleWallet, SettleSubscription, SettleToken | Settle |
| Refund, LateRefund, RefundWallet, RefundSubscription, RefundExtra, RefundToken | RefundFailedRequestBilling, Refund, refundWithRetry, RefundSubscriptionPreConsume |
| Crash, PeriodEnds, ResetDueSubscriptions, Expire | the environment and the maintenance task |

`LateRefund` is a refund asked for after the request was billed: `runCall` of
`relay/responses_websocket.go` turns a panic into an error and refunds whatever
session it finds. One that is settled or refunded must stay as it is, also when
only its token step failed; one whose `Settle` failed is refunded.

Every database operation may also fail without effect (`DBFails`); the
subscription refund may fail after its inner transaction committed, because that
is how `RefundSubscriptionPreConsume` nests its transactions. The deployment
modelled has no Redis and no batch updater, so that a quota operation is one SQL
statement.

### Outbox

`row[e]` is a row of `kkai_outbox`; `work[w]` is one execution of
`processClaimedEvent` by a worker lane of any process. Clocks are reduced to two
facts that queries test: `available` (available_at has come) and `stale` (the
lock is older than lockTimeout). Both may become true at any moment, so the
results hold for every clock, skew and pause. Claiming is two steps, SELECT and
UPDATE. With `RowLocks` (MySQL, PostgreSQL) they form a transaction that keeps
other writers of the row out; without (SQLite) anything may happen in between.
`Heartbeat` is the renewal goroutine, `Cancel` the cancelled context, `Crash` and
`Restart` the process. Handlers are external: they may succeed, fail, fail for
good, defer or panic.

`marker` is the redrive key that `last_error` starts with. `Redriven` and
`FailureAudit` write it through `sanitizeKKAIOutboxError`, which turns the keys in
`Redacted` (`sk-...`, `token:...` and the like) into a text that is no key
(`Hidden`); `markFailed` and `markDeferred` append to the `last_error` that the
claim's SELECT read, not to that of the row.

`OrderedDelivery` is the promise without workers, locks and clocks: an event is
handled in numbered attempts, opened only when the events before it have settled;
only the success of the open attempt delivers it, and an attempt that succeeded
is closed by nothing else. The refinement (`Delivery`) maps the fence in
`locked_by` to the open attempt, the fences under which the handler succeeded and
those whose lock was taken over to the successful and the overtaken attempts.

### LeaderLease

`lease` is the row of `kkai_job_leases`, `node[n]` the leadership loop of one
life of a process, `job[<<n, j>>]` the loop of a leader job and the fence its run
has captured. `BeginFenced`/`CommitFenced` are a business transaction that calls
`RequireShopWorkerFenceTx` or `RequireImageWorkerFenceTx` first and keeps the
lease row locked until it commits. `AcquireLost`, `RenewError` and `ReleaseError`
are operations whose answer is an error although the database may have applied
them. With `Timely = FALSE` the lease may expire under a live leader at any
moment; with `Timely = TRUE` leaders renew, and cancelled jobs end, within the TTL.

`FencedTerms` is the promise without the clock, the jobs and the transactions:
terms are numbered, each belongs to one process, and a write is made by the
process that serves the latest term. The refinement (`Terms`) maps fence and
holder of the row to the latest term and its owner; a whole fenced transaction
becomes the one write at its commit.

### TaskBilling

`row` is what the transactions of `model/task_billing.go` read and write of the
`tasks` row: billing state, status, source, charged quota and token quota, target
and whether the upstream id is known. Each of those transactions locks the row and
is one step; each is given as what it leaves in the row (`AcceptedRow`,
`CompletedRow`, ...) and when it applies (`MayPersist`, `MayFail`, ...), and the
three actors use them:

| actor | actions | code |
|---|---|---|
| submitter `sub` | Create, Reserve*, Claim*, Rejected, Unanswered, Accepted, Reset*, MarkUnknown*, Persist*, StoreReceipt, ReceiptFails, PersistAgain*, Settle*, Retry, Stop, Refund*, Fail, Crash | executeTaskSubmission, submitPreparedTask and what they call |
| recovery `event`, `rec` | Load, LoadReceipt, ReceiptConflicts, Rec* | TaskBillingRecoveryHandler.Handle |
| pollers `poll[p]` | Fetch, Update, PollSettle, PollRefund, PollStops | RunTaskPollingOnce, updateVideoSingleTask, sweepTimedOutTasks, tryRealtimeFetch |

Between two steps an actor holds a copy of the row (`rec.task`, `poll[p].quota`)
that may be stale. A submitter's transaction may commit although it reports an
error. `funds` are the accounts, `others` what the user's other requests took
meanwhile. `jobs`, how often the upstream took the task on, and `forgiven`, the
usage of the subscription that the ends of its periods set to zero, are history
variables. A period may end in the reservation, which looks for it, or at any other
time (`NewPeriod`: another request or `ResetDueSubscriptions`); a refund that then
finds less usage than it returns leaves none (`Left`, the floor of
`adjustTaskFunding`).

Assumptions, all named in the module:

- *One handler at a time.* The event is delivered to one worker until its lock
  expires (`Outbox`); the composition with expired locks is planned.
- *`SlowReserve = FALSE`* in the runs: a request needs less than
  `TaskBillingRecoveryDelay` (ten minutes) from writing the row to reserving. With
  `SlowReserve = TRUE` the recovery may fail and complete a row that was reserved
  since it was read, and keep the charge of a failed task
  (`FailedNotClosedCharged` is violated). Of the theorems FailedIsNotClosedCharged,
  ResultsStand and ChargeFollowsTaskTheorem assume it, the others do not.
- The upstream answers with an id only once it has the task; a rejection the
  code classifies as definite means it has not.
- Submitted, queued and in progress are one status: exactly these rows have a
  progress below 100%, which is how the pollers find them. An immediate answer
  with status UNKNOWN is left out.
- The subscription is a limited one, and the token is not deleted before the task
  ends (`adjustTaskToken` skips a deleted token).
- Free, membership and legacy tasks, and the accounting, audit and cache events
  that the same transactions write, are left out.

`TaskCharge` is the promise without the actors: an amount is held from one source
and counted on the token, it may change only after the task was sent, it is
returned at most once, only for a task that was not sent or has failed; the
upstream takes the task on at most once; a result stands. The refinement (`Cost`)
reads the phase and the result off the row, the charge off its quotas, and takes
as money what the accounts hold with the other requests' share added back. An
account is exact, except that of a subscription once a period has ended: a return
may then find less usage than it gives back.

### VideoSubmission and SubmitOnce

`store[u]` is the `localStorage` entry of user `u`: per operation id a record that
is sending, unknown or accepted, and whether its task id is known. `mem[t]` is the
copy in tab `t` with its owner and `storageError`; `user`, `epoch`, `mount` and
`form` are what a submission is checked against: the signed-in user,
`identityEpoch`, the instance of the composer and what it would submit now (a
quote that expired or references that are not ready make it `NotReady`). `sub[o]` is one run of `submit` with what
it captured; `header` is the user whose token the interceptor attached.
`verdict` and `done` are the server's side.

Code between two awaits runs to completion in its tab, but `localStorage` has no
lock: a block that changes records reads them in one step (`ReadRecords`, into
`view[t]`; `reading` are the tabs in such a block) and writes what it made of them in
another, and other tabs and the server work in between. A write that undoes what
another tab wrote since the read sets the history variable `lost`. The repository
says itself that this may happen and that de-duplication across tabs must not be
claimed (docs/kkai/video-studio-redesign/implementation-qa.md:172, prd.md:84,
api-and-state-contract.md:101), so the promises about records are made until then:
GuardsSubmissions, AcceptedIsFinal, and in SubmissionInv RecordKept and
PendingDistinct. The rest holds always, and `AloneSound` says that a tab that is
alone undoes nothing, which makes the promise unconditional there.

| action | code |
|---|---|
| Submit, NotBegun, Checked | `submit` up to the digest, and from the digest to the check of the records |
| ReadRecords, Begin, BeginFails | `begin` |
| Attach, Send, NotSent | the mutation, the request interceptor, and the adapter with `beforeSend` |
| ReceiveReceipt, ReceiveRejected, ReceiveUnknown | the rest of `submit`: `resolve`, or `markUnknown`, by the evidence |
| SwitchIdentity, Rehydrate, ConfirmGenerations | the subscriptions of the store, the notice |
| Reload, Remount, Edit | the user |
| Decide, Finish | the server, external |

`localStorage` may throw at any access in `FaultyTabs`. What is simplified:

- Blocks that only read are one step; sign-ins, remounts and edits come between the
  blocks of their tab, reloads at any time. A storage event may arrive at any time,
  whether or not there was a write.
- The list of generations may confirm what has finished at any time, and need not:
  the page stops polling when nothing on it is active, when it is hidden or after a
  time, so nothing is claimed about when a record is closed.
- Operation ids are random; they are numbered in the order of use. Which accepted
  records are dropped when one is added is left open. `PendingLimit` and
  `AcceptedKept` stand for 100 and 19.
- `createVideoGeneration` also checks an identity of its own, captured later than
  that of `submit`; the check of `beforeSend` implies it.
- An answer may carry a task id only if the server did not refuse the request.

`SubmitOnce` is the promise: a key (user and content) has a place, an operation
takes it before it is sent, is sent once, and gives the place back only if it was
never sent or has been decided. The refinement maps the records that are sending
or unknown to the places held. In `SubmitOnce` two equal requests are never both
undecided, which is what keeps the user from paying twice without knowing.

### AuthSession

`sess[s]` is a row of `user_sessions` (state, generation of its refresh token,
whether the previous one may still be replayed), `cookie` the Refresh Cookie of
the browser, `auth[t]` the store of a tab, `ref[t]` its `refreshPromise` (`current`
says that `authEpoch` has not moved since), `job[t]` a call or a logout that may be
waiting for it, `events` messages between tabs. `lossy` and `ref[t].gone` are history
variables: a refresh was given up with its request on the way; the sessions
that had ended when a refresh began or was superseded.

| action | code |
|---|---|
| Ask, NotAsked, RefreshAuth, RefreshFails, Arrive*, RefreshLost, RefreshRefused | `run` of createRefreshRunner under the browser lock; RefreshAuth, RefreshLoginSession, RotateUserSessionRefresh |
| Resolve, FreshHeaders | resolveAuthentication, bootstrapAuthentication, getFreshAuthHeaders |
| Call, Served, Unauthorized, Redirect | the interceptors of `lib/http-client.ts` |
| SignIn, Rotation, SignOut, AuthLogout, SignedOutOk, SignOutMismatch, SignOutLost | handleLoginSuccess, applyAuthRotation, executeLogout, AuthLogout |
| AuthEvent, Reload | `routes/__root.tsx`, the user |
| WindowEnds, Revoke | time, and revocation from elsewhere |

What is simplified:

- An access token may expire at any moment. `bootstrapState` matters only without
  a session: `None` (ask the server) and `Anonymous` (complete).
- The successor of a refresh token is derived from it, so a replay inside the
  window is given the same successor; the answer AUTH_REFRESH_RACE is therefore
  not reached and is left out, with its waiting and retrying.
- The server's side of a refresh is one step (`RefreshAuth`), or the failed read of
  the session, which the code answers like an invalid token (`RefreshFails`).
- A login is one step: a login that is superseded after its cookie was stored
  (`handleLoginSuccess` discards the bundle then) is left out. A logout reads the cookie when the server handles it. A
  request that was given up before the server saw it counts as never seen; `lossy`
  is set either way, so the properties do not depend on it.
- One message waits for a tab; a newer one replaces it, as if the older had
  passed its limit of one minute.
- Only the tabs in `Busy` sign in, call, rotate and sign out. The tenant check,
  the session cache and the limit on sessions per user are left out.

## 3. Runs

| run | checks | result |
|---|---|---|
| `BillingSources` | SettledCostsActual, SettledTokenMatches, FailedCostsNothing, NeverOverRefunded, the inductive Accounting and the liveness property HeldQuotaResolved: a plain and an image playground request on one wallet, token and subscription, fallbacks in both directions, refunds asked for after billing, a failing operation, crashes, reset and expiry | hold |
| `BillingImageRefund` | RefundReturnsAll | violated |
| `BillingRetriedRefund` | SubscriptionRefundIdempotent | violated |
| `OutboxOrder` | OutboxInv, AggregateOrder, RedriveReplayIgnored, DeliversInOrder (the refinement of `OrderedDelivery`), with row locks, expiring locks, crash, error and redrives by a readable and by a redacted key | hold |
| `OutboxLiveness` | HandledOnceUnlessExpired and EventsSettle, without row locks | hold |
| `OutboxSQLite` | ClaimTakesSelectedRow, without row locks and without any fault | violated |
| `LeaseFence` | FenceNamesOneTerm, OwnedUntilCommit, LeaseInv, WritesAreFenced (the refinement of `FencedTerms`), HandoverIsClean, with leases that expire at any moment | hold |
| `LeaseTimely` | OneLeaderRunsJobs, LeaderReturns, StopEnds, three processes | hold |
| `TaskRecovery` | TaskInv, Conserved, TakenOnce, RefundJustified, FailedNotClosedCharged, ResultStands, ChargeFollowsTask (the refinement of `TaskCharge`), FailureRefunded, HoldDecided: retries, two errors, crashes, a period's end, recovery and two pollers | hold |
| `TaskAcceptance` | AcceptanceDurable, with no failure at all | violated |
| `VideoSubmit` | SubmissionInv, PostedAsSubmitter, OwnRecordsOnly, GuardsSubmissions (the refinement of `SubmitOnce`), AcceptedIsFinal: two tabs without a lock, one leaving and returning, the other remounting and with failing storage; two users with one attempt, or two attempts of one user at one request | hold |
| `AuthRefresh` | ReuseMeansLoss, NeverBackToEnded, RefreshEnds, EndIsNoticed: two tabs, two sessions, one fault (a reload, a lost answer, a refusal or a failed read of the session) | hold |

Run one with `tlc -config <run>.cfg <MC module>`. Several results are checked as
conjuncts of an invariant rather than by name: NoOverdraft and
SubscriptionWithinTotal are parts of Accounting, FailureBudget and
DeliveredMeansHandled of OutboxInv, CapturedOwnTerm of LeaseInv; the proofs state
them separately. WritesFollowTerms and RefundFinal follow from the refinements
(writes carry the latest term; a returned charge does not change again) and are proved
as theorems of their own.

### Bounds

- Billing: two requests are enough for one to change a balance between two steps
  of the other. Amounts are chosen so that one request fits and two do not, that
  estimates are above, at and below the actual cost, and that a subscription runs
  out. Each request may raise its reservation `MaxReserves` times;
  `MaxFailures = 1` failing operation reaches every rollback; one period end and
  one expiry.
- Outbox: two events of one aggregate and two workers are enough for takeover,
  overtaking and a predecessor that is retried. `MaxAttempts = 2` makes both the
  last and a not-last attempt occur; `MaxClaims`, `MaxDefers`, `MaxFaults`,
  `MaxCrashes` and `MaxRedrives` bound a behaviour; two redrives and two keys, one of
  them redacted, make a replay of each. The liveness run allows more
  claims than any behaviour within its other bounds can use, so that the bound
  itself never blocks progress.
- Lease: two processes with two jobs for fencing (jobs of one term overlap those
  of the next), three processes for exclusion and liveness. `MaxTerms` bounds the fence.
- Task: one task, since tasks share only accounts (`Spend` is everything others do
  to them). The subscription is exhausted or not when the task comes; targets and
  actual costs lie below, at and above the reservation, and the wallet holds less
  than everything the task could cost, so that settlements are refused. Two
  attempts (`MaxTries`) make retries happen, two pollers a stale result, two faults
  (`MaxFaults`) an error and the failure of its handling. A second fault is explored
  only where neither other requests nor the end of a period has touched the accounts
  (the constraint `SecondFaultAlone`); the safety properties are proved without it.
  A period ends at most once after something was used (`MaxForgiven = 1`, with a
  subscription of one unit). Deadlock is not
  checked: a task that is finished stops.
- Video: two tabs, two attempts at one content. The tab that leaves and returns
  (three identity changes) is the one in which an old submission can meet its own
  user again; the other tab remounts its composer, which frees the busy flag while
  a submission is on its way, and its storage may fail. The second attempt is made
  only where the second user has not appeared (the constraint
  `TwoUsersOrTwoAttempts`): one attempt is enough for a submission to end in
  somebody else's tab, one user for two equal requests, and users share no records.
  With two attempts the first tab returns only by a reload.
  Reloads are unbounded. With one content `PendingLimit = 2` is never reached; the
  limit is in the proofs.
- Sessions: two sessions one after the other make every mismatch; one tab in use
  and one in the background refresh at the same time. `MaxGen = 1` bounds the
  refreshes nothing forces, those after a 401 of an ended session are not bounded;
  `MaxFaults = 1` is one reload, lost answer, refusal or failed read. Deadlock is not checked:
  once both sessions are used up and everybody is signed out nothing happens.

### Fairness

- `BillingSession!FairSpec`: weak fairness of the steps of each request's
  goroutines. The Go scheduler and the database drivers' timeouts give that; nothing is
  assumed of arrivals, crashes or the clock. The property itself names the ways
  quota may stay taken: the process was lost, the settlement failed, or a
  database operation failed (the code only logs a failed refund).
- `Outbox!FairSpec`: weak fairness of each worker, of its restart (the
  supervisor restarts the process) and of the passing of time. The handler
  returns because it runs under a context with a deadline. Heartbeats are kept
  (`Pauses = FALSE`): a handler that always outlives its lock is retried for ever.
- `LeaderLease!FairSpec`: weak fairness of acquisition (a retry every
  `LeaseRetryInterval`), of the steps of a term, of a run's return and of time,
  and strong fairness of `EndLoop`: Go's `select` chooses uniformly among ready
  cases, so a loop that is offered `ctx.Done()` again and again takes it. Nothing
  makes a process start, stop, crash or renew.
- `TaskBilling!FairSpec`: weak fairness of the recovery alone, which the outbox
  gives (`EventsSettle`). The submitter and the pollers may stop anywhere, so
  FailureRefunded and HoldDecided are what the recovery achieves by itself.
- `VideoSubmission` has no fairness: its properties are safety properties.
- `AuthSession!FairSpec`: strong fairness of the lock's grant (Web Locks are
  granted in the order of the requests, so other tabs cannot pass for ever), weak
  fairness of the server's answers, and of the calls of the tabs in use, whose
  pages poll. Nothing is assumed of messages between tabs, which the code calls
  best-effort.

## 4. Findings

1. **Image refunds are incomplete** (`BillingImageRefund`). `WalletFunding.PreConsume`
   assigns `consumed` (service/funding_source.go:53); `reserveFunding` calls it again
   for each raise of an image reservation, so `Refund` returns only the last raise.
   The comments say a refund returns everything.
2. **A retried subscription refund may be applied twice** (`BillingRetriedRefund`).
   The usage is reduced in a transaction of its own before the record is saved
   (model/subscription.go:1441); when the save fails, `refundWithRetry` reduces again.
   The comments call the operation idempotent.
3. **A late acceptance is dropped** (`TaskAcceptance`). When the recovery delay
   passes while the upstream still answers, the recovery marks the row ambiguous
   and completes it. `PersistTaskSubmissionAcceptance` then refuses without an
   error, and the receipt is stored only after an error (relay/relay_task.go:667,
   678-683): the id of the accepted task is lost and the charge stays, although
   `RecoverTaskSubmissionAcceptance` could restore it. The comment at
   relay/relay_task.go:646 says an accepted task must cross the durable boundary.

4. **The SQLite claim is not a CAS** (`OutboxSQLite`). Without a transaction the
   UPDATE of a claim compares id, status and lock only (service/kkai_outbox.go:411-413),
   so a row that another worker claimed, failed and unlocked since the SELECT is
   claimed with the attempts read before that failure, and before its retry time.
   The comment at service/kkai_outbox.go:431-432 says the conditional updates provide
   the CAS. Delivery is not affected (`OutboxLiveness` has no row locks), the count
   of failures is.

Met while modelling, without a run of their own:

- *Some redrive keys are not remembered.* A key that looks like a credential
  (`sk-incident-42`, `token:7`) is accepted, but redacted before it is stored
  (service/kkai_outbox_redrive.go:84), so a replay with it drives the event again.
  TestKKAIOutboxDeadEventRedriveIsAuditedAndIdempotent (service/kkai_outbox_test.go:682)
  uses a key that is not redacted. RedriveReplayIgnored excludes these keys by name.
- *A refund may meet a new period.* When a task's subscription was reset between
  reservation and refund, the refund reduces usage of the new period that others
  made, or is cut off at zero. Conserved bounds both by what the reset forgave.
- *Two tabs may both be charged.* Without the condition `~lost`, TLC refutes
  GuardsSubmissions: two tabs read the records before either writes. The documents
  quoted above say so.
- *A billed request whose settlement failed is returned in full* when a later error
  asks for its refund (`LateRefund` from "unsettled"): nobody pays for what it used.
- *A database error signs the browser out.* When the session cannot be read, a
  refresh is answered like one with an invalid token and the cookie is cleared
  (service/auth_session.go:288-292), although the session is still good.
- *A stop may skip the leader's shutdown jobs.* When it meets the renewal tick,
  `Renew` fails with the cancelled context and the term ends as lost
  (`RenewError`, service/background_job_leader.go:60): no shutdown jobs, no
  release, although docs/kkai/background-jobs.md:38 says they run before exit.
- *Crashes are not counted.* Attempts grow only in `markFailed`
  (service/kkai_outbox.go:512): a handler that takes the process down is claimed
  again without bound. The code states no bound, so there is nothing to check.
- *A record may lose its task id.* When the write of `resolve` fails and the
  `markUnknown` that follows works, the record stays unknown without an id and
  nothing can confirm it. That is on the safe side: the request stays guarded.
- *The last answer wins the cookie.* A superseded refresh is ignored by its tab,
  but its Set-Cookie is not: a 401 on its way clears the cookie of a session that
  was signed in since.
- *A call may be repeated as another session.* After a mismatch the refresh adopts
  the session of the cookie, and the interceptor repeats the call with its token.

## 5. Proofs

All safety properties of the passing runs, the four refinements among them, are
also proved for every value of the constants (any number of requests, workers,
events, processes, jobs, pollers, tabs, users and sessions, any amounts and
bounds). "theorems" in `PROJECT.json` lists the results.

The refinement proofs have one form: initial states map to initial states, one
lemma per action shows that under the inductive invariant it is a step of the
abstract specification or leaves its variables alone, and a lemma for the
stuttering case serves all the actions that move nothing the abstraction sees.

- **Billing** (`BillingAssumption`: the kinds of constants). The properties speak
  of the end of a request, so they are not inductive. `Accounting` says at every
  point of the code how the session's fields account for `net`: for example that
  while a Reserve waits for its token step the wallet has given
  `preConsumedQuota + delta`. Its parts are `FlagsInv`, `WalletInv`, `TokenInv`
  and `SubscriptionInv`, all about one request; one lemma per outcome of an action
  shows that this request's accounts stay right, `UpdateOne` that other requests
  are not touched, and one lemma per action combines them. What is exact without
  failures is an inequality with them, which is what NeverOverRefunded needs.
- **Outbox** (`OutboxAssumption`). `OutboxInv` ties fences to claims
  (`FencesInv`), locks to their holders or to an expiry (`LocksInv`), successes to
  the lock or the delivery (`SuccessInv`), predecessors to their settlement
  (`OrderInv`) and the attempts a worker has read to those of the row
  (`BudgetInv`, with row locks, which also keeps the redrive key of a row, redacted or
  not, and that of the claims on it). ClaimTakesSelectedRowTheorem assumes `RowLocks`,
  which is where it differs from the run `OutboxSQLite`; RedriveReplayTheorem speaks
  of row-locking claims and keys that are not redacted.
  DeliversInOrderTheorem, the refinement of `OrderedDelivery`, needs no row locks:
  `OrderInv` gives that an event is due when it is claimed and when it is handled,
  `LocksInv` that a success belongs to the open attempt or to one that was
  overtaken, `SuccessInv` that a finalization by the owner of the lock delivers
  exactly what succeeded, and `StaleIsLocked` that a claim overtakes an attempt
  just when a lock was left.
- **Lease** (`LeaseAssumption`). `LeaseInv` is inductive whatever the clock does:
  the fenced properties need no timing. `OneLeaderRunsJobsTheorem` assumes
  `Timely` and strengthens the invariant by "a process in a term holds the lease".
  WritesAreFencedTheorem, the refinement of `FencedTerms`, assumes no timing either:
  OwnedUntilCommit makes a commit a write of the latest term by its owner, and
  `TermShape` that only a process without a term is elected.
- **Task** (`TaskBillingAssumption`: the kinds of constants). `ChargeInv` adds to
  `Conserved` what each transaction needs to find: rows without a reservation are
  not charged (`EmptyInv`, or a second reservation would lose the first), actors
  that settle meet a reserved row (`ReservedInv`, or a settlement would charge an
  unknown source), and from the claim on the row is dispatched, or refunded after
  a failure (`ClaimInv`, which gives RefundJustified and, since a submitter whose
  task was taken on never returns to the claim, TakenOnce). `AdjustFacts`,
  `RefundFacts` and `ReserveFacts` say what the three transactions that move money
  do; one lemma per action shows that it preserves the invariant; `StaysRefunded`
  adds that no transaction leaves refunded, which gives RefundFinal.
  `TaskInv` is `ChargeInv` and, when `SlowReserve = FALSE`, what relates the actors'
  copies of the row to the row: which status goes with which billing state
  (`StatusInv`), where the submitter may still be for a row that has ended
  (`SubmitterInv`), that the row still agrees with the handler's copy wherever a
  decision rests on it, in particular that nobody reserves a row that was read as
  not reserved (`HandlerInv`), and that a poller settles a row that has succeeded
  (`PollerInv`). These four are inductive together
  with `ChargeInv` and give FailedIsNotClosedCharged and ResultsStand. `SourceInv`
  (a reserved row names its source, and the token counts all of the charge or
  nothing) and `TakenInv` (the upstream has
  the task only if the row was sent) complete it for ChargeFollowsTaskTheorem, the
  refinement of `TaskCharge`: `ChargeMoves` and `HoldMoves` say that every
  account moved by the difference of the charges, a subscription that was renewed by
  at most that, so each transaction is a step of `TaskCharge` whatever other requests
  spend. Conserved is exact for wallet and token; a subscription lies between what
  it would be without resets and that plus `forgiven`, the only bound there is once a
  refund may meet usage of a new period.
- **Video** (`VideoAssumption`: kinds of constants, `Ops` are numbers).
  `SubmissionInv` says of stored records and of what a block has read of them that
  they belong to the user who began them (`RecordsOwned`), that accepted means
  accepted by the server (`AcceptedTrue`), that a task id is known only once its
  submission is over (`TaskAfterAnswer`, or a late `markUnknown` could undo a
  confirmation), and that until the POST leaves an equal epoch means an equal user
  and header (`IdentitySound`). Until a write undoes another tab's, an operation has
  its record from `begin` until its outcome is known (`RecordKept`, or a send would
  find no place in `SubmitOnce`) and two unresolved records of a user are for
  different requests (`PendingDistinct`). Both are about what is stored now, and
  a write without a lost update writes what was read, changed in one record; that
  is the step of the proof. GuardsSubmissionsTheorem shows that initial
  states map to initial states and, until then, every action to one of `SubmitOnce`
  or a stutter; NoSecondChargeTheorem says that nothing but a lost update lets two
  equal requests both be charged, and SingleTabTheorem (assuming `Alone`) drops the
  condition, since `AloneSound` shows that one tab loses nothing.
- **Sessions** (`AuthAssumption`). `AuthInv`: with the lock at most one refresh is
  in flight (`LockExclusive`), and as long as nothing was given up every token in
  use is the newest of its session, the cookie's unless the browser is about to
  get its successor (`TokensNewest`); that is why the server never sees an old
  one. That reuse is found only after the replay window, lock or not, is the server's
  own check, carried by the session once its state is "reused". `BundlesNotGone` says that a bundle that will be accepted is for a session
  that was active when its refresh began, which gives NeverBackToEnded.

Only model-checked: the liveness properties HeldQuotaResolved, EventsSettle,
LeaderReturns, StopEnds, FailureRefunded, HoldDecided, RefreshEnds and EndIsNoticed,
because fairness and ENABLED are outside the proof system's reach.

## 6. Not modelled, and the plan

In order of importance:

1. `TaskBilling`, the rest: which amount wins when a submission's settlement meets
   that of the completed task (both carry absolute targets).
2. `QuotaReserve`: Redis copy, database and batch accumulator of a balance, shown
   to implement the atomic balance that `BillingSession` uses.
3. `WalletPayment`: order, webhook, query and manual completion; credited once.
   `MembershipBilling`: allowances per period.
4. `SystemTask`: claim, renewal and takeover, with the lease's notion of a fence
   where the code has one.
5. Composition: outbox workers under the leader lease with
   `RequireImageWorkerFenceTx` checking lease and event; `TaskBilling` with its
   recovery event in `Outbox`.
6. Shop orders and inventory, tenant budgets and withdrawals, rate limits,
   channel retry and cooldown; in the browser the wallet payment flow
   (`features/wallet/hooks/use-wallet-payment-flow.ts`), which polls an order while
   its dialog closes and opens, and the image studio.
7. Of sessions: the Redis cache with its deny fence, the limits per user, the
   advance of `auth_version` with the revocation of other sessions; a refresh in several database steps at the
   server, and one that was given up but reaches it later.

For each: the type invariant and the safety invariants as theorems, liveness with
TLC. Worth adding to the present modules: an abstract chain of refresh tokens
that the server's side of `AuthSession` refines, and an abstract request charge for
`BillingSession`, which would have to allow for its first two findings.

Left out for good: pricing expressions (floating-point formulas; requests bring
their price as an input), format conversion and provider adaptors (data and
I/O), the forms, tables and charts of the front ends (most of the repository's
lines, and no state that outlives a request), one-time migrations and vendored
code.
