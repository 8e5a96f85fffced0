-------------------------------- MODULE Outbox --------------------------------
(***************************************************************************)
(* The transactional outbox: events written with the business transaction  *)
(* and delivered by competing workers under a fenced, renewed row lock     *)
(* (service/kkai_outbox.go, kkai_outbox_lease.go, kkai_outbox_worker.go,   *)
(* kkai_outbox_concurrent.go), and the redrive of dead events              *)
(* (kkai_outbox_redrive.go).                                               *)
(*                                                                         *)
(* A worker is one execution of processClaimedEvent at a time: a lane of   *)
(* kkaiOutboxRuntimeWorker, or one operation of RunConcurrent, in any      *)
(* process.  Time is abstracted to what the queries test: whether          *)
(* available_at has come and whether locked_at is older than lockTimeout.  *)
(* Either may happen at any moment, so the results hold for every clock,   *)
(* every skew between processes and every pause of a worker.               *)
(***************************************************************************)
EXTENDS Integers, FiniteSets

CONSTANTS
    Events,         \* ids of the rows, in the order of the auto-increment
    Workers,
    Aggregate,      \* Aggregate[e]: topic and aggregate_id of the event
    NoAggregate,    \* ... when aggregate_id is empty
    Handles,        \* Handles[w]: events whose topic is registered with w
    Held,           \* legacy events redriveKKAIOutboxDeadEvent refuses
    RedriveKeys,    \* keys kkaiOutboxRedriveKeyPattern accepts
    Redacted,       \* ... in which sanitizeKKAIOutboxError finds a credential (sk-..., token:...)
    NoKey, Hidden,  \* last_error without a marker, and with a redacted one
    RowLocks,       \* claim runs in a transaction that locks the row (not on SQLite)
    Pauses,         \* a live worker may miss its heartbeats for lockTimeout
    MaxAttempts,    \* maxAttempts
    MaxClaims,      \* bound: claims after which no new one is begun
    MaxDefers,      \* bound: deferrals
    MaxFaults,      \* bound: database errors
    MaxCrashes,     \* bound: crashes and shutdowns of workers
    MaxRedrives     \* bound: redrives applied

ASSUME OutboxAssumption ==
    /\ Events \subseteq Nat \ {0}
    /\ Held \subseteq Events
    /\ Handles \in [Workers -> SUBSET Events]
    /\ Redacted \subseteq RedriveKeys
    /\ NoKey \notin RedriveKeys /\ Hidden \notin RedriveKeys \cup {NoKey}
    /\ RowLocks \in BOOLEAN /\ Pauses \in BOOLEAN
    /\ MaxAttempts \in Nat \ {0}
    /\ MaxClaims \in Nat /\ MaxDefers \in Nat /\ MaxFaults \in Nat
    /\ MaxCrashes \in Nat /\ MaxRedrives \in Nat

VARIABLES
    row,        \* kkai_outbox
    work,       \* what each worker is doing
    fences,     \* fences handed out so far: newKKAIOutboxFence never repeats one
    ok,         \* history: fences under which the event was handled successfully
    expired,    \* history: fences whose lock was taken over by a later claim
    failed,     \* history: failures recorded since the event was last (re)driven
    redriven,   \* history: the key of the last redrive of the event
    defers, faults, crashes, redrives

vars == <<row, work, fences, ok, expired, failed, redriven, defers, faults, crashes, redrives>>

(* What follows redrive_key= at the start of last_error.                   *)
Marker == RedriveKeys \cup {NoKey, Hidden}

(* Events and fences are numbered; 0 is no event and the empty locked_by.  *)
NoEvent == 0
NoFence == 0

Row ==
    [status : {"absent", "pending", "delivered", "dead"},
     attempts : Nat,
     available : BOOLEAN,            \* available_at <= now
     lock : Nat,                     \* locked_by; locked_at # 0 exactly when set
     stale : BOOLEAN,                \* locked_at <= now - lockTimeout
     marker : Marker,
     by : Nat]                       \* history: the fence that delivered it

Holding == {"claimed", "checked", "releasing", "running", "returned", "finalize"}

Work ==
    [at : {"idle", "stopped", "claiming"} \cup Holding,
     event : Events \cup {NoEvent}, attempts : Nat, marker : Marker, \* as claim read them
     fence : Nat,
     lost : BOOLEAN,                 \* the heartbeat reported the lock lost
     cancelled : BOOLEAN,            \* ctx is cancelled
     outcome : {"ok", "failed", "permanent", "deferred"}]

TypeOK ==
    /\ row \in [Events -> Row]
    /\ work \in [Workers -> Work]
    /\ \A w \in Workers : work[w].at \notin {"idle", "stopped"} => work[w].event \in Events
    /\ fences \in Nat
    /\ ok \in [Events -> SUBSET Nat] /\ expired \in [Events -> SUBSET Nat]
    /\ failed \in [Events -> Nat] /\ redriven \in [Events -> RedriveKeys \cup {NoKey}]
    /\ defers \in Nat /\ faults \in Nat /\ crashes \in Nat /\ redrives \in Nat

NewRow ==
    [status |-> "absent", attempts |-> 0, available |-> FALSE, lock |-> NoFence,
     stale |-> FALSE, marker |-> NoKey, by |-> NoFence]

Idle ==
    [at |-> "idle", event |-> NoEvent, attempts |-> 0, marker |-> NoKey, fence |-> NoFence,
     lost |-> FALSE, cancelled |-> FALSE, outcome |-> "ok"]

Init ==
    /\ row = [e \in Events |-> NewRow]
    /\ work = [w \in Workers |-> Idle]
    /\ fences = 0
    /\ ok = [e \in Events |-> {}] /\ expired = [e \in Events |-> {}]
    /\ failed = [e \in Events |-> 0] /\ redriven = [e \in Events |-> NoKey]
    /\ defers = 0 /\ faults = 0 /\ crashes = 0 /\ redrives = 0

-----------------------------------------------------------------------------
(* A database operation fails without effect.                              *)
DBFails == faults < MaxFaults /\ faults' = faults + 1

(* Earlier events of the same topic and aggregate.                         *)
Predecessors(e) ==
    {p \in Events : Aggregate[e] # NoAggregate /\ Aggregate[p] = Aggregate[e] /\ p < e}

(* EnqueueKKAIOutboxEvent; a repeated event key changes nothing.  Producers *)
(* of one aggregate are serialised by the business row they update, so     *)
(* their events become visible in the order of their ids.                  *)
Enqueue(e, available) ==
    /\ row[e].status = "absent"
    /\ \A p \in Predecessors(e) : row[p].status # "absent"
    /\ row' = [row EXCEPT ![e] = [NewRow EXCEPT !.status = "pending", !.available = available]]
    /\ UNCHANGED <<work, fences, ok, expired, failed, redriven, defers, faults, crashes, redrives>>

(* available_at comes.                                                     *)
BecomeAvailable(e) ==
    /\ row[e].status = "pending" /\ ~row[e].available
    /\ row' = [row EXCEPT ![e].available = TRUE]
    /\ UNCHANGED <<work, fences, ok, expired, failed, redriven, defers, faults, crashes, redrives>>

(* Its heartbeat goroutine still renews the lock of event e.               *)
Renewing(w, e) == work[w].at \in Holding /\ work[w].fence = row[e].lock /\ ~work[w].lost

(* lockTimeout passes without a renewal.                                   *)
Expire(e) ==
    /\ row[e].lock # NoFence /\ ~row[e].stale
    /\ Pauses \/ ~ \E w \in Workers : Renewing(w, e)
    /\ row' = [row EXCEPT ![e].stale = TRUE]
    /\ UNCHANGED <<work, fences, ok, expired, failed, redriven, defers, faults, crashes, redrives>>

-----------------------------------------------------------------------------
(* Mutant: a stale lock is never taken over.                               *)
MutUnlocked(e) == row[e].lock = NoFence

(* locked_at = 0 OR locked_at <= staleBefore.                              *)
Unlocked(e) == row[e].lock = NoFence \/ row[e].stale

(* Mutant: the predecessor is not looked at.                               *)
MutClaimable(w, e) ==
    e \in Handles[w] /\ row[e].status = "pending" /\ row[e].available /\ Unlocked(e)

(* newKKAIOutboxClaimQuery.                                                *)
Claimable(w, e) ==
    /\ e \in Handles[w]
    /\ row[e].status = "pending" /\ row[e].available /\ Unlocked(e)
    /\ \A p \in Predecessors(e) : row[p].status # "pending"

(* Another transaction holds the row between its SELECT ... FOR UPDATE and *)
(* its UPDATE: nobody else can write it.                                   *)
RowFree(w, e) ==
    RowLocks => \A v \in Workers \ {w} : ~(work[v].at = "claiming" /\ work[v].event = e)

(* claim: the SELECT takes the claimable event with the smallest id.       *)
Select(w) ==
    /\ work[w].at = "idle" /\ fences < MaxClaims
    /\ \E e \in Events :
          /\ Claimable(w, e) /\ RowFree(w, e)
          /\ \A d \in Events : d < e => ~(Claimable(w, d) /\ RowFree(w, d))
          /\ work' = [work EXCEPT ![w] = [@ EXCEPT !.at = "claiming", !.event = e,
                                                    !.attempts = row[e].attempts,
                                                    !.marker = row[e].marker]]
    /\ UNCHANGED <<row, fences, ok, expired, failed, redriven, defers, faults, crashes, redrives>>

(* ProcessBatch or RunConcurrent finds nothing to claim.                   *)
Poll(w) ==
    /\ work[w].at = "idle"
    /\ fences >= MaxClaims \/ ~ \E e \in Events : Claimable(w, e) /\ RowFree(w, e)
    /\ UNCHANGED vars

Stopped == [Idle EXCEPT !.at = "stopped"]

(* The worker is through with the event: the next loop of ProcessBatch or  *)
(* RunConcurrent, or the end of it when ctx is cancelled.                  *)
Through(s) == IF s.cancelled THEN Stopped ELSE Idle

(* Mutant: the UPDATE does not repeat the test on locked_at.               *)
MutMayLock(e) == row[e].status = "pending"

(* The WHERE of claim's UPDATE, which repeats part of the SELECT's.        *)
MayLock(e) == row[e].status = "pending" /\ Unlocked(e)

Lock(r, fence) == [r EXCEPT !.lock = fence, !.stale = FALSE]
Unlock(r) == [r EXCEPT !.lock = NoFence, !.stale = FALSE]

(* claim: the UPDATE sets a new fence; if the row changed meanwhile, the   *)
(* claim returns nothing.                                                  *)
Claim(w) ==
    /\ work[w].at = "claiming"
    /\ LET e == work[w].event
           fence == fences + 1 IN
       \/ /\ MayLock(e)
          /\ fences' = fence
          /\ row' = [row EXCEPT ![e] = Lock(@, fence)]
          /\ expired' = IF row[e].stale THEN [expired EXCEPT ![e] = @ \cup {row[e].lock}] ELSE expired
          /\ work' = [work EXCEPT ![w] = [@ EXCEPT !.at = "claimed", !.fence = fence]]
          /\ UNCHANGED faults
       \/ /\ \/ ~MayLock(e) /\ UNCHANGED faults
             \/ DBFails
          /\ work' = [work EXCEPT ![w] = Through(@)]
          /\ UNCHANGED <<row, fences, expired>>
    /\ UNCHANGED <<ok, failed, redriven, defers, crashes, redrives>>

-----------------------------------------------------------------------------
(* id = ? AND status = pending AND locked_by = fence.                      *)
Fenced(w) ==
    /\ row[work[w].event].status = "pending"
    /\ row[work[w].event].lock = work[w].fence

(* renewKKAIOutboxLease, run by the heartbeat goroutine until the lease is *)
(* stopped; any error counts as a lost lock and cancels the handler.       *)
Heartbeat(w) ==
    /\ work[w].at \in Holding \ {"finalize"} /\ ~work[w].lost
    /\ RowFree(w, work[w].event)
    /\ \/ /\ Fenced(w)
          /\ row' = [row EXCEPT ![work[w].event].stale = FALSE]
          /\ UNCHANGED <<work, faults>>
       \/ /\ \/ ~Fenced(w) /\ UNCHANGED faults
             \/ DBFails
          /\ work' = [work EXCEPT ![w].lost = TRUE]
          /\ UNCHANGED row
    /\ UNCHANGED <<fences, ok, expired, failed, redriven, defers, crashes, redrives>>

WorkerOnly == UNCHANGED <<row, fences, expired, failed, redriven, defers, faults, crashes, redrives>>

(* processClaimedEvent looks at ctx before it starts the handler.          *)
CheckContext(w) ==
    /\ work[w].at = "claimed" /\ ~work[w].cancelled
    /\ work' = [work EXCEPT ![w].at = "checked"]
    /\ WorkerOnly /\ UNCHANGED ok

(* claimState: unstarted -> started.                                       *)
Start(w) ==
    /\ work[w].at = "checked"
    /\ work' = [work EXCEPT ![w].at = "running"]
    /\ WorkerOnly /\ UNCHANGED ok

(* claimState: unstarted -> finished, by the cancellation watch.           *)
CancelUnstarted(w) ==
    /\ work[w].at \in {"claimed", "checked"} /\ work[w].cancelled
    /\ work' = [work EXCEPT ![w].at = "releasing"]
    /\ WorkerOnly /\ UNCHANGED ok

(* releaseUnstartedClaim.                                                  *)
Release(w) ==
    /\ work[w].at = "releasing"
    /\ RowFree(w, work[w].event)
    /\ \/ /\ ~work[w].lost /\ Fenced(w)
          /\ row' = [row EXCEPT ![work[w].event] = [Unlock(@) EXCEPT !.available = FALSE]]
          /\ UNCHANGED faults
       \/ /\ \/ (work[w].lost \/ ~Fenced(w)) /\ UNCHANGED faults
             \/ DBFails
          /\ UNCHANGED row
    /\ work' = [work EXCEPT ![w] = Through(@)]
    /\ UNCHANGED <<fences, ok, expired, failed, redriven, defers, crashes, redrives>>

(* Mutant: the panic is swallowed.                                         *)
MutHandlerError(result) == IF result = "panic" THEN "ok" ELSE result

(* callKKAIOutboxHandler turns a panic into an error.                      *)
HandlerError(result) == IF result = "panic" THEN "failed" ELSE result

(* The handler returns, whether or not its context was cancelled meanwhile.*)
HandlerReturns(w, result) ==
    /\ work[w].at = "running"
    /\ work' = [work EXCEPT ![w] = [@ EXCEPT !.at = "returned", !.outcome = HandlerError(result)]]
    /\ ok' = IF result = "ok" THEN [ok EXCEPT ![work[w].event] = @ \cup {work[w].fence}] ELSE ok
    /\ IF result = "deferred" THEN defers < MaxDefers /\ defers' = defers + 1 ELSE UNCHANGED defers
    /\ UNCHANGED <<row, fences, expired, failed, redriven, faults, crashes, redrives>>

(* lease.stop: a lost lock ends the processing without a write.            *)
AfterLease(s) == IF s.lost THEN Through(s) ELSE [s EXCEPT !.at = "finalize"]

StopLease(w) ==
    /\ work[w].at = "returned"
    /\ work' = [work EXCEPT ![w] = AfterLease(@)]
    /\ WorkerOnly /\ UNCHANGED ok

-----------------------------------------------------------------------------
(* sanitizeKKAIOutboxError: a key that looks like a credential becomes     *)
(* [redacted], which is no accepted key; any other key is left as it is.   *)
Sanitized(marker) == IF marker \in Redacted THEN Hidden ELSE marker

(* Mutant: the new error replaces the redrive marker.                      *)
MutFailureAudit(marker) == NoKey

(* kkaiOutboxFailureAudit: a redrive marker stays the prefix of last_error *)
(* and the new error is appended to it, sanitized again.                   *)
FailureAudit(marker) == Sanitized(marker)

Delivered(r, fence) == [Unlock(r) EXCEPT !.status = "delivered", !.by = fence]

(* markDeferred and markFailed write last_error, and markFailed attempts,  *)
(* from the event as the claim's SELECT read it.                           *)
Deferred(r, marker) == [Unlock(r) EXCEPT !.available = FALSE, !.marker = FailureAudit(marker)]

(* A permanent error, or the last attempt.                                 *)
IsDead(attempts, outcome) == outcome = "permanent" \/ attempts >= MaxAttempts

Failed(r, attempts, marker, outcome) ==
    IF IsDead(attempts, outcome)
    THEN [Unlock(r) EXCEPT !.attempts = attempts, !.marker = FailureAudit(marker),
                           !.available = TRUE, !.status = "dead"]
    ELSE [Unlock(r) EXCEPT !.attempts = attempts, !.marker = FailureAudit(marker),
                           !.available = FALSE]

(* Mutant: the row is updated by id alone.                                 *)
MutMayFinalize(w) == row[work[w].event].status = "pending"

(* The WHERE of markDelivered, markDeferred and markFailed.                *)
MayFinalize(w) == Fenced(w)

(* markDelivered, markDeferred or markFailed.  Without the fence the       *)
(* update matches no row and ErrKKAIOutboxLockLost is returned.  A failing *)
(* dead-letter handler rolls the transaction back.                         *)
Finalize(w) ==
    /\ work[w].at = "finalize"
    /\ RowFree(w, work[w].event)
    /\ LET s == work[w]
           e == s.event IN
       \/ /\ MayFinalize(w) /\ s.outcome = "ok"
          /\ row' = [row EXCEPT ![e] = Delivered(@, s.fence)]
          /\ UNCHANGED <<failed, faults>>
       \/ /\ MayFinalize(w) /\ s.outcome = "deferred"
          /\ row' = [row EXCEPT ![e] = Deferred(@, s.marker)]
          /\ UNCHANGED <<failed, faults>>
       \/ /\ MayFinalize(w) /\ s.outcome \in {"failed", "permanent"}
          /\ row' = [row EXCEPT ![e] = Failed(@, s.attempts + 1, s.marker, s.outcome)]
          /\ failed' = [failed EXCEPT ![e] = @ + 1]
          /\ UNCHANGED faults
       \/ /\ \/ ~MayFinalize(w) /\ UNCHANGED faults
             \/ DBFails
          /\ UNCHANGED <<row, failed>>
    /\ work' = [work EXCEPT ![w] = Through(@)]
    /\ UNCHANGED <<fences, ok, expired, redriven, defers, crashes, redrives>>

-----------------------------------------------------------------------------
(* redriveKKAIOutboxDeadEvent: the key last_error starts with is a replay  *)
(* and does nothing.                                                       *)
MayRedrive(e, key) == row[e].status = "dead" /\ row[e].marker # key /\ e \notin Held

Redriven(r, key) ==
    [Unlock(r) EXCEPT !.status = "pending", !.attempts = 0, !.available = TRUE,
                      !.marker = Sanitized(key)]

Redrive(e, key) ==
    /\ MayRedrive(e, key)
    /\ redrives < MaxRedrives /\ redrives' = redrives + 1
    /\ row' = [row EXCEPT ![e] = Redriven(@, key)]
    /\ failed' = [failed EXCEPT ![e] = 0]
    /\ redriven' = [redriven EXCEPT ![e] = key]
    /\ UNCHANGED <<work, fences, ok, expired, defers, faults, crashes>>

(* The worker's context is cancelled: shutdown, or leadership lost.        *)
Cancel(w) ==
    /\ ~work[w].cancelled /\ work[w].at # "stopped"
    /\ crashes < MaxCrashes /\ crashes' = crashes + 1
    /\ work' = [work EXCEPT ![w] = IF @.at = "idle" THEN Stopped ELSE [@ EXCEPT !.cancelled = TRUE]]
    /\ UNCHANGED <<row, fences, ok, expired, failed, redriven, defers, faults, redrives>>

(* The process dies; a claim transaction in progress is rolled back and    *)
(* the row stays locked until the lock is stale.                           *)
Crash(w) ==
    /\ work[w].at \in {"claiming"} \cup Holding
    /\ crashes < MaxCrashes /\ crashes' = crashes + 1
    /\ work' = [work EXCEPT ![w] = Stopped]
    /\ UNCHANGED <<row, fences, ok, expired, failed, redriven, defers, faults, redrives>>

(* A new process takes the worker's place.                                 *)
Restart(w) ==
    /\ work[w].at = "stopped"
    /\ work' = [work EXCEPT ![w] = Idle]
    /\ UNCHANGED <<row, fences, ok, expired, failed, redriven, defers, faults, crashes, redrives>>

Results == {"ok", "failed", "permanent", "deferred", "panic"}

Process(w) ==
    \/ Select(w) \/ Claim(w) \/ CheckContext(w) \/ Start(w)
    \/ CancelUnstarted(w) \/ Release(w)
    \/ \E result \in Results : HandlerReturns(w, result)
    \/ StopLease(w) \/ Finalize(w)

Next ==
    \/ \E e \in Events : BecomeAvailable(e) \/ Expire(e)
    \/ \E e \in Events, available \in BOOLEAN : Enqueue(e, available)
    \/ \E e \in Events, key \in RedriveKeys : Redrive(e, key)
    \/ \E w \in Workers : Poll(w) \/ Process(w) \/ Heartbeat(w) \/ Cancel(w) \/ Crash(w) \/ Restart(w)

Spec == Init /\ [][Next]_vars

(* Workers and handlers make progress, stopped workers are replaced, and   *)
(* time passes.                                                            *)
FairSpec ==
    /\ Spec
    /\ \A w \in Workers : WF_vars(Process(w)) /\ WF_vars(Restart(w))
    /\ \A e \in Events : WF_vars(BecomeAvailable(e)) /\ WF_vars(Expire(e))

-----------------------------------------------------------------------------
(* An event is marked delivered only by a claim under which its handler    *)
(* really succeeded, however many workers held it before (markDelivered).  *)
DeliveredMeansHandled ==
    \A e \in Events : row[e].status = "delivered" => row[e].by \in ok[e]

(* A handler's effect is repeated only when a lock expired under it: among *)
(* the successful handlings of an event, at most one was never overtaken   *)
(* by a later claim.  Failures, deferrals, releases, shutdowns, database   *)
(* errors and redrives alone never repeat it (claim, processClaimedEvent). *)
HandledOnceUnlessExpired ==
    \A e \in Events : \A f, g \in ok[e] \ expired[e] : f = g

(* Events of one aggregate are handled in order: while a handler runs, and *)
(* until its result is written, no earlier event is pending, unless an     *)
(* operator has redriven it (newKKAIOutboxClaimQuery).                     *)
AggregateOrder ==
    \A w \in Workers : work[w].at \in {"running", "returned", "finalize"} =>
        \A p \in Predecessors(work[w].event) :
            row[p].status \in {"delivered", "dead"} \/ redriven[p] # NoKey

(* Every recorded failure counts against the budget of maxAttempts, and    *)
(* none counts twice, across workers, reclaims and redrives: a pending     *)
(* event has attempts left (markFailed, with row-locking claims).          *)
FailureBudget ==
    RowLocks => \A e \in Events :
        /\ row[e].attempts = failed[e]
        /\ row[e].status = "pending" => failed[e] < MaxAttempts

(* A replayed redrive request does nothing, when its key is not one that   *)
(* sanitizeKKAIOutboxError redacts: the key that brought an event back is  *)
(* remembered through later failures, deferrals and takeovers and cannot   *)
(* bring it back again (redriveKKAIOutboxDeadEvent, kkaiOutboxFailureAudit,*)
(* with row-locking claims).                                               *)
RedriveReplayIgnored ==
    [][RowLocks => \A e \in Events :
          row[e].status = "dead" /\ row'[e].status = "pending" /\ redriven'[e] \notin Redacted
              => redriven'[e] # redriven[e]]_vars

(* A claim takes the row it selected: its attempts and its redrive marker  *)
(* are still those read and its retry delay has passed ("the fenced        *)
(* conditional updates provide the CAS here", claim).                      *)
ClaimTakesSelectedRow ==
    [][\A w \in Workers : work[w].at = "claiming" /\ work'[w].at = "claimed" =>
          LET r == row[work[w].event]
          IN  r.attempts = work[w].attempts /\ r.marker = work[w].marker /\ r.available]_vars

(* Every event is eventually delivered or dead, through crashes, lost      *)
(* locks, database errors and earlier events of its aggregate (FairSpec,   *)
(* with heartbeats kept).                                                  *)
EventsSettle ==
    \A e \in Events : row[e].status = "pending" ~> row[e].status \in {"delivered", "dead"}

(* Each event is delivered once, in the order of its aggregate and by an   *)
(* attempt that succeeded: the claims, heartbeats, finalizations, releases *)
(* and redrives of all workers together behave as OrderedDelivery says     *)
(* (claim, renewKKAIOutboxLease, markDelivered, markFailed).               *)
Delivery == INSTANCE OrderedDelivery WITH
    Before <- [e \in Events |-> Predecessors(e)],
    status <- [e \in Events |-> row[e].status],
    attempt <- [e \in Events |-> row[e].lock],
    succeeded <- ok, overtaken <- expired, last <- fences,
    revived <- [e \in Events |-> redriven[e] # NoKey]

DeliversInOrder == Delivery!DSpec

-----------------------------------------------------------------------------
(***************************************************************************)
(* The inductive invariant behind these properties (OutboxProofs).         *)
(***************************************************************************)

(* Every fence was handed out once, to one claim of one event.             *)
FencesInv ==
    /\ \A e \in Events : row[e].lock <= fences /\ row[e].by <= fences /\ \A f \in ok[e] : 0 < f /\ f <= fences
    /\ \A w \in Workers : work[w].at \in Holding => 0 < work[w].fence /\ work[w].fence <= fences
    /\ \A w, v \in Workers :
          work[w].at \in Holding /\ work[v].at \in Holding /\ work[w].fence = work[v].fence => w = v

(* Only a pending event is locked, and only a delivered one has a deliverer;*)
(* a worker's lock was not taken away unless it expired.                   *)
LocksInv ==
    /\ \A e \in Events :
          /\ row[e].lock # NoFence => row[e].status = "pending"
          /\ row[e].by # NoFence => row[e].status = "delivered"
    /\ \A w \in Workers : work[w].at \in Holding =>
          /\ \A e \in Events : row[e].lock = work[w].fence => e = work[w].event
          /\ row[work[w].event].lock = work[w].fence \/ work[w].fence \in expired[work[w].event]

(* A success that was not overtaken still holds the lock or delivered it.  *)
SuccessInv ==
    /\ \A e \in Events : \A f \in ok[e] \ expired[e] : f = row[e].lock \/ f = row[e].by
    /\ \A w \in Workers : work[w].at \in Holding =>
          \A e \in Events : work[w].fence \in ok[e] <=>
              /\ e = work[w].event
              /\ work[w].at \in {"returned", "finalize"}
              /\ work[w].outcome = "ok"

(* Earlier events of an aggregate were enqueued and settled before.        *)
OrderInv ==
    /\ \A e \in Events : row[e].status # "absent" => \A p \in Predecessors(e) : row[p].status # "absent"
    /\ \A w \in Workers : work[w].at \notin {"idle", "stopped"} =>
          \A p \in Predecessors(work[w].event) :
              row[p].status \in {"delivered", "dead"} \/ redriven[p] # NoKey

(* With row locks the row does not change between SELECT and UPDATE, and   *)
(* the attempts and the marker a worker read are those of the row while it *)
(* is locked; so the marker is that of the last redrive.                   *)
BudgetInv ==
    /\ \A e \in Events : row[e].status = "absent" =>
          row[e].attempts = 0 /\ row[e].marker = NoKey /\ redriven[e] = NoKey
    /\ RowLocks =>
          /\ \A e \in Events : row[e].marker = Sanitized(redriven[e])
          /\ \A w \in Workers : work[w].at = "claiming" =>
                LET r == row[work[w].event]
                IN  r.status = "pending" /\ r.available
                    /\ r.attempts = work[w].attempts /\ r.marker = work[w].marker
          /\ \A w, v \in Workers :
                work[w].at = "claiming" /\ work[v].at = "claiming" /\ work[w].event = work[v].event => w = v
          /\ \A w \in Workers : work[w].at \in Holding /\ row[work[w].event].lock = work[w].fence =>
                LET r == row[work[w].event]
                IN  r.attempts = work[w].attempts /\ r.marker = work[w].marker

(* The inductive invariant.                                                *)
OutboxInv ==
    TypeOK /\ FencesInv /\ LocksInv /\ SuccessInv /\ OrderInv /\ BudgetInv
    /\ DeliveredMeansHandled /\ FailureBudget
=============================================================================
