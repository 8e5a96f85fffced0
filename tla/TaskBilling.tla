------------------------------ MODULE TaskBilling ------------------------------
(***************************************************************************)
(* Durable billing of one asynchronous task: the request that submits it   *)
(* (controller/task_submission.go, relay/relay_task.go), the recovery      *)
(* event written with its row (service/task_billing_recovery.go), and the  *)
(* pollers that bring its result (service/task_polling.go), all working on *)
(* the row through the transactions of model/task_billing.go.              *)
(*                                                                         *)
(* Each transaction locks the task row and is one step.  Between two steps *)
(* the submitter, the recovery handler and a poller hold copies of the row *)
(* that may be stale, and each may stop for good.  Other requests of the   *)
(* same user share only its accounts: Spend is what they take from them.   *)
(* Free, membership and legacy tasks are left out; the subscription is a   *)
(* limited one, and the token is not deleted before the task ends          *)
(* (adjustTaskToken skips a deleted one).                                  *)
(***************************************************************************)
EXTENDS Integers, Sequences

CONSTANTS
    Balance,        \* Balance[a]: what account a holds before the task
    Total,          \* the subscription's AmountTotal
    Order,          \* funding sources in the order the billing preference tries them
    Quota,          \* info.PriceData.Quota: the amount reserved
    Targets,        \* amounts the submission may settle to (authorizedTaskQuota)
    Actuals,        \* amounts the completed task may cost (settleTaskBillingOnComplete)
    BillsToken,     \* not a playground request, which skips the token
    TokenUnlimited, \* the token's UnlimitedQuota
    Pollers,
    SlowReserve,    \* TaskBillingRecoveryDelay may pass before the reservation
    MaxTries,       \* RetryTimes + 1
    MaxFaults,      \* bound: database errors and crashes of the handler
    MaxForgiven     \* bound: usage after the forgetting of which no period ends any more

Sources == {"wallet", "subscription"}
Accounts == Sources \cup {"token"}

ASSUME TaskBillingAssumption ==
    /\ Balance \in [Accounts -> Nat]
    /\ Total \in Nat /\ Balance["subscription"] <= Total
    /\ Order \in Seq(Sources)
    /\ Quota \in Nat /\ Targets \subseteq Nat /\ Actuals \subseteq Nat
    /\ BillsToken \in BOOLEAN /\ TokenUnlimited \in BOOLEAN /\ SlowReserve \in BOOLEAN
    /\ MaxTries \in Nat \ {0} /\ MaxFaults \in Nat /\ MaxForgiven \in Nat

VARIABLES
    row,        \* the tasks row
    funds,      \* users.quota, the subscription's remainder, tokens.remain_quota
    others,     \* what other requests took from each account
    forgiven,   \* history: usage of the subscription that the ends of its periods set to zero
    sub,        \* the submitting request
    event,      \* the task.billing.recover.v1 outbox event
    rec,        \* TaskBillingRecoveryHandler
    poll,       \* polling passes and realtime fetches
    jobs,       \* how often the upstream took the task on
    faults

vars == <<row, funds, others, forgiven, sub, event, rec, poll, jobs, faults>>

NoTarget == -1      \* TargetQuota is nil

Final == {"success", "failure"}

(* Submitted, queued and in progress are one status; exactly the running   *)
(* rows have a progress below 100% and are found by the pollers.           *)
Statuses == {"not_start", "running", "unknown"} \cup Final

Row ==
    [state : {"none", "pending", "reserved", "dispatching", "accepted", "ambiguous", "refunded", "completed"},
     status : Statuses,
     source : Sources \cup {"none"},
     quota : Nat, tokenQuota : Nat, tokenBilling : BOOLEAN,
     target : Nat \cup {NoTarget},
     upstream : BOOLEAN]             \* UpstreamTaskID is set

(* TaskSubmissionAcceptance: the upstream's answer and the amount to settle. *)
Acceptance == [status : Statuses, target : Nat]
NoReceipt == [status |-> "unknown", target |-> 0]

Ended == {"ended", "crashed"}

Submission ==
    [pc : {"start", "reserve", "claim", "dispatch", "reset", "unknown", "persist", "receipt",
           "persistAgain", "settle", "retry", "refund", "fail"} \cup Ended,
     tries : Nat,
     billed : BOOLEAN,               \* relayInfo.Billing is set
     prepaid : BOOLEAN,              \* ... and needsRefundLocked
     acceptance : Acceptance]

Event == [status : {"none", "pending", "delivered", "dead"}, receipt : Acceptance]

Handling ==
    [pc : {"idle", "adjust", "decide", "fail", "complete", "finish"},
     task : Row]                     \* the handler's copy of the row

Polling ==
    [pc : {"idle", "update", "settle", "refund"},
     bills : BOOLEAN,                \* a polling pass, not a realtime fetch
     quota : Nat, result : Final]    \* the quota read, the status to write

TypeOK ==
    /\ row \in Row
    /\ funds \in [Accounts -> Int] /\ others \in [Accounts -> Nat] /\ forgiven \in Nat
    /\ sub \in Submission /\ event \in Event
    /\ rec \in Handling /\ poll \in [Pollers -> Polling]
    /\ jobs \in Nat /\ faults \in Nat

NoRow ==
    [state |-> "none", status |-> "not_start", source |-> "none", quota |-> 0, tokenQuota |-> 0,
     tokenBilling |-> FALSE, target |-> NoTarget, upstream |-> FALSE]

NotPolling == [pc |-> "idle", bills |-> FALSE, quota |-> 0, result |-> "failure"]
NotHandling == [pc |-> "idle", task |-> NoRow]

Init ==
    /\ row = NoRow
    /\ funds = Balance /\ others = [a \in Accounts |-> 0] /\ forgiven = 0
    /\ sub = [pc |-> "start", tries |-> 1, billed |-> FALSE, prepaid |-> FALSE, acceptance |-> NoReceipt]
    /\ event = [status |-> "none", receipt |-> NoReceipt]
    /\ rec = NotHandling
    /\ poll = [p \in Pollers |-> NotPolling]
    /\ jobs = 0 /\ faults = 0

-----------------------------------------------------------------------------
(* The row transactions of model/task_billing.go: what each leaves in the  *)
(* row, and when it applies.                                               *)

(* reserveTaskSubscription charges at least one unit.                      *)
EffectiveQuota(s) == IF s = "subscription" /\ Quota = 0 THEN 1 ELSE Quota

ReservedRow(s) ==
    LET q == EffectiveQuota(s)
        t == IF BillsToken THEN q ELSE 0
    IN  [row EXCEPT !.state = "reserved", !.source = s, !.quota = q,
                    !.tokenQuota = t, !.tokenBilling = t > 0]

(* Mutant: only a task already seen running is marked.                     *)
MutMayMarkAmbiguous == row.state \in {"dispatching", "ambiguous"} /\ row.status = "running"

(* MarkTaskSubmissionAmbiguous.                                            *)
MayMarkAmbiguous == row.state \in {"dispatching", "ambiguous"} /\ row.status \notin Final

AmbiguousRow(target) ==
    [row EXCEPT !.state = "ambiguous", !.status = "unknown",
                !.target = IF @ = NoTarget THEN target ELSE @]

(* PersistTaskSubmissionAcceptance: an accepted row is left as it is.      *)
AcceptedRow(acceptance) ==
    [row EXCEPT !.state = "accepted", !.status = acceptance.status,
                !.target = acceptance.target, !.upstream = TRUE]

MayPersist == row.state \in {"accepted", "dispatching"}
PersistedRow(acceptance) == IF row.state = "accepted" THEN row ELSE AcceptedRow(acceptance)

(* RecoverTaskSubmissionAcceptance.                                        *)
MayRecover ==
    \/ row.upstream /\ row.state = "accepted"
    \/ ~row.upstream /\ row.status \notin Final /\ row.state \in {"dispatching", "ambiguous", "completed"}

RecoveredRow(acceptance) == IF row.upstream THEN row ELSE AcceptedRow(acceptance)

(* FailTaskBeforeSubmission.                                               *)
MayFail == row.state \in {"pending", "reserved", "refunded"} /\ row.status \notin {"success", "unknown"}
FailedRow == [row EXCEPT !.status = "failure"]

(* CompleteTaskBillingRecovery.                                            *)
CompletedRow == IF row.state \in {"refunded", "completed"} THEN row ELSE [row EXCEPT !.state = "completed"]

(* adjustTaskFunding and adjustTaskToken: once the task was dispatched the *)
(* token may be overdrawn, the funding source never.                       *)
Dispatched == {"dispatching", "accepted", "ambiguous", "completed"}

Affordable(delta, tokenDelta) ==
    /\ delta > 0 => funds[row.source] >= delta
    /\ tokenDelta > 0 /\ row.state \notin Dispatched /\ ~TokenUnlimited => funds["token"] >= tokenDelta

(* What a change leaves in a funding source: the usage of a subscription   *)
(* does not fall below zero.                                               *)
Left(s, amount) == IF s = "subscription" /\ amount > Total THEN Total ELSE amount

Moved(held, s, delta, tokenDelta) ==
    [a \in Accounts |-> IF a = s THEN Left(s, held[a] - delta)
                        ELSE IF a = "token" THEN held[a] - tokenDelta ELSE held[a]]

(* Mutant: the row keeps the difference instead of the new amount.         *)
MutAdjustStoresDelta(target) ==
    IF row.state = "refunded" THEN UNCHANGED <<row, funds>>
    ELSE LET tokenTarget == IF row.tokenBilling THEN target ELSE 0
         IN  /\ Affordable(target - row.quota, tokenTarget - row.tokenQuota)
             /\ funds' = Moved(funds, row.source, target - row.quota, tokenTarget - row.tokenQuota)
             /\ row' = [row EXCEPT !.quota = target - @, !.tokenQuota = tokenTarget - @, !.target = NoTarget]

(* Mutant: a refunded task is settled too.                                 *)
MutAdjustRefunded(target) ==
    LET tokenTarget == IF row.tokenBilling THEN target ELSE 0
    IN  /\ Affordable(target - row.quota, tokenTarget - row.tokenQuota)
        /\ funds' = Moved(funds, row.source, target - row.quota, tokenTarget - row.tokenQuota)
        /\ row' = [row EXCEPT !.quota = target, !.tokenQuota = tokenTarget, !.target = NoTarget]

(* AdjustTaskBillingWithAudit.                                             *)
AdjustTaskBilling(target) ==
    IF row.state = "refunded" THEN UNCHANGED <<row, funds>>
    ELSE LET tokenTarget == IF row.tokenBilling THEN target ELSE 0
         IN  /\ Affordable(target - row.quota, tokenTarget - row.tokenQuota)
             /\ funds' = Moved(funds, row.source, target - row.quota, tokenTarget - row.tokenQuota)
             /\ row' = [row EXCEPT !.quota = target, !.tokenQuota = tokenTarget, !.target = NoTarget]

(* It is refused for want of funds.                                        *)
AdjustRefused(target) ==
    /\ row.state # "refunded"
    /\ ~Affordable(target - row.quota, (IF row.tokenBilling THEN target ELSE 0) - row.tokenQuota)

(* Mutants: a dispatched task is refunded like one that was not sent; only *)
(* a task that was not sent is refunded.                                   *)
MutRefundDispatched ==
    \/ row.state \in {"pending", "reserved", "dispatching"}
    \/ row.state \in {"accepted", "ambiguous"} /\ row.status = "failure"
MutRefundUnsentOnly == row.state \in {"pending", "reserved"}

(* RefundTaskBillingWithAudit.                                             *)
taskBillingRefundAllowed ==
    \/ row.state \in {"pending", "reserved"}
    \/ row.state \in {"dispatching", "accepted", "ambiguous"} /\ row.status = "failure"

MayRefund == row.state = "refunded" \/ taskBillingRefundAllowed

(* Mutant: the token's share is returned but not cleared.                  *)
MutRefundKeepsTokenQuota ==
    IF row.state = "refunded" THEN UNCHANGED <<row, funds>>
    ELSE /\ funds' = Moved(funds, row.source, -row.quota, -row.tokenQuota)
         /\ row' = [row EXCEPT !.state = "refunded", !.quota = 0, !.tokenBilling = FALSE, !.target = NoTarget]

RefundTaskBilling ==
    IF row.state = "refunded" THEN UNCHANGED <<row, funds>>
    ELSE /\ funds' = Moved(funds, row.source, -row.quota, -row.tokenQuota)
         /\ row' = [row EXCEPT !.state = "refunded", !.quota = 0, !.tokenQuota = 0,
                               !.tokenBilling = FALSE, !.target = NoTarget]

(* A database operation reports an error; a submitter cannot tell whether  *)
(* its transaction committed.                                              *)
DBFails == faults < MaxFaults /\ faults' = faults + 1

-----------------------------------------------------------------------------
(* The submitting request (executeTaskSubmission, submitPreparedTask).     *)

Goto(pc) == sub' = [sub EXCEPT !.pc = pc]

(* buildProvisionalTask and persistProvisionalTask: the row and its        *)
(* recovery event are written together, or neither is.                     *)
Create ==
    /\ sub.pc = "start" /\ Goto("reserve")
    /\ row' = [NoRow EXCEPT !.state = "pending"]
    /\ event' = [event EXCEPT !.status = "pending"]
    /\ UNCHANGED <<funds, others, forgiven, rec, poll, jobs, faults>>

(* A period of the subscription has ended: maybeResetUserSubscription-     *)
(* WithPlanTx sets its usage to zero.                                      *)
PeriodEnds == forgiven < MaxForgiven /\ funds["subscription"] < Total
Renewed == [funds EXCEPT !["subscription"] = Total]
Forgive == forgiven' = forgiven + (Total - funds["subscription"])

(* ReserveTaskBilling takes the quota from source s and from the token.    *)
CanReserve(held, s) ==
    /\ held[s] >= EffectiveQuota(s)
    /\ BillsToken /\ EffectiveQuota(s) > 0 /\ ~TokenUnlimited => held["token"] >= EffectiveQuota(s)

(* PreConsumeTaskBilling goes to the next source of the preference only    *)
(* when the first has not the quota.                                       *)
Chosen(i) == \A j \in 1..i - 1 : funds[Order[j]] < EffectiveQuota(Order[j])

ReserveFrom(held, s) ==
    LET r == ReservedRow(s)
    IN  /\ CanReserve(held, s)
        /\ row' = r /\ funds' = Moved(held, s, r.quota, r.tokenQuota)

(* reserveTaskSubscription ends a period that is over before it looks.     *)
Reserve ==
    /\ sub.pc = "reserve" /\ row.state = "pending"
    /\ \E i \in 1..Len(Order) :
          /\ Chosen(i)
          /\ \/ ReserveFrom(funds, Order[i]) /\ UNCHANGED forgiven
             \/ Order[i] = "subscription" /\ PeriodEnds /\ ReserveFrom(Renewed, Order[i]) /\ Forgive
          /\ \/ /\ sub' = [sub EXCEPT !.pc = "claim", !.billed = TRUE, !.prepaid = row'.quota > 0]
                /\ UNCHANGED faults
             \/ Goto("retry") /\ DBFails
    /\ UNCHANGED <<others, event, rec, poll, jobs>>

(* Nothing is left, or the transaction fails: the request ends or retries. *)
ReserveFails ==
    /\ sub.pc = "reserve" /\ row.state = "pending"
    /\ \/ /\ \A i \in 1..Len(Order) : ~(Chosen(i) /\ CanReserve(funds, Order[i]))
          /\ Goto("fail") /\ UNCHANGED faults
       \/ Goto("retry") /\ DBFails
    /\ UNCHANGED <<row, funds, others, forgiven, event, rec, poll, jobs>>

(* An earlier attempt or the recovery was here before: a refunded task     *)
(* conflicts, any other is used as it stands.                              *)
ReserveAgain ==
    /\ sub.pc = "reserve" /\ row.state # "pending"
    /\ sub' = IF row.state = "refunded" THEN [sub EXCEPT !.pc = "retry"]
              ELSE [sub EXCEPT !.pc = "claim", !.billed = TRUE, !.prepaid = row.quota > 0]
    /\ UNCHANGED <<row, funds, others, forgiven, event, rec, poll, jobs, faults>>

(* ClaimTaskSubmission; without the claim the outcome is unknown.          *)
Claim ==
    /\ sub.pc = "claim"
    /\ row' = IF row.state = "reserved" THEN [row EXCEPT !.state = "dispatching"] ELSE row
    /\ \/ Goto(IF row.state = "reserved" THEN "dispatch" ELSE "ended") /\ UNCHANGED faults
       \/ Goto("retry") /\ DBFails
    /\ UNCHANGED <<funds, others, forgiven, event, rec, poll, jobs>>

ClaimFails ==
    /\ sub.pc = "claim" /\ Goto("retry") /\ DBFails
    /\ UNCHANGED <<row, funds, others, forgiven, event, rec, poll, jobs>>

(* adaptor.DoRequest and what is made of the response: a failure before    *)
(* sending or a definite rejection, an outcome nobody knows, or a task.    *)
Rejected ==
    /\ sub.pc = "dispatch" /\ Goto("reset")
    /\ UNCHANGED <<row, funds, others, forgiven, event, rec, poll, jobs, faults>>

(* Mutant: an outcome nobody knows is retried like a rejection.            *)
MutUnanswered ==
    /\ sub.pc = "dispatch"
    /\ jobs' \in {jobs, jobs + 1}
    /\ Goto("reset")
    /\ UNCHANGED <<row, funds, others, forgiven, event, rec, poll, faults>>

Unanswered ==
    /\ sub.pc = "dispatch"
    /\ jobs' \in {jobs, jobs + 1}
    /\ sub' = [sub EXCEPT !.pc = "unknown", !.acceptance.target = Quota]
    /\ UNCHANGED <<row, funds, others, forgiven, event, rec, poll, faults>>

Accepted(acceptance) ==
    /\ sub.pc = "dispatch"
    /\ jobs' = jobs + 1
    /\ sub' = [sub EXCEPT !.pc = "persist", !.acceptance = acceptance]
    /\ UNCHANGED <<row, funds, others, forgiven, event, rec, poll, faults>>

(* ResetTaskSubmissionClaim gives the claim back for a retry, if nobody    *)
(* has taken it over.                                                      *)
Reset ==
    /\ sub.pc = "reset" /\ row.state = "dispatching"
    /\ row' = [row EXCEPT !.state = "reserved"]
    /\ \/ Goto("retry") /\ UNCHANGED faults
       \/ sub' = [sub EXCEPT !.pc = "unknown", !.acceptance.target = Quota] /\ DBFails
    /\ UNCHANGED <<funds, others, forgiven, event, rec, poll, jobs>>

ResetFails ==
    /\ sub.pc = "reset"
    /\ (row.state # "dispatching" /\ UNCHANGED faults) \/ DBFails
    /\ sub' = [sub EXCEPT !.pc = "unknown", !.acceptance.target = Quota]
    /\ UNCHANGED <<row, funds, others, forgiven, event, rec, poll, jobs>>

(* markTaskSubmissionUnknown; an error is only logged.                     *)
MarkUnknown ==
    /\ sub.pc = "unknown" /\ Goto("ended")
    /\ row' = IF MayMarkAmbiguous THEN AmbiguousRow(sub.acceptance.target) ELSE row
    /\ UNCHANGED <<funds, others, forgiven, event, rec, poll, jobs, faults>>

MarkUnknownFails ==
    /\ sub.pc = "unknown" /\ Goto("ended") /\ DBFails
    /\ UNCHANGED <<row, funds, others, forgiven, event, rec, poll, jobs>>

(* PersistTaskSubmissionAcceptance, first attempt.                         *)
Persist ==
    /\ sub.pc = "persist"
    /\ row' = IF MayPersist THEN PersistedRow(sub.acceptance) ELSE row
    /\ \/ Goto(IF MayPersist THEN "settle" ELSE "ended") /\ UNCHANGED faults
       \/ Goto("receipt") /\ DBFails
    /\ UNCHANGED <<funds, others, forgiven, event, rec, poll, jobs>>

PersistFails ==
    /\ sub.pc = "persist" /\ Goto("receipt") /\ DBFails
    /\ UNCHANGED <<row, funds, others, forgiven, event, rec, poll, jobs>>

(* persistAcceptedTaskRecoveryReceipt: the event is made due again, unless *)
(* a worker holds it.                                                      *)
StoreReceipt ==
    /\ sub.pc = "receipt" /\ rec.pc = "idle" /\ Goto("persistAgain")
    /\ event' = [status |-> "pending", receipt |-> sub.acceptance]
    /\ UNCHANGED <<row, funds, others, forgiven, rec, poll, jobs, faults>>

ReceiptFails ==
    /\ sub.pc = "receipt" /\ Goto("persistAgain")
    /\ (rec.pc # "idle" /\ UNCHANGED faults) \/ DBFails
    /\ UNCHANGED <<row, funds, others, forgiven, event, rec, poll, jobs>>

(* recoverAcceptedTaskPersistence, whose attempts stop at the first answer.*)
PersistAgain ==
    /\ sub.pc = "persistAgain"
    /\ row' = IF MayPersist THEN PersistedRow(sub.acceptance) ELSE row
    /\ Goto(IF MayPersist THEN "settle" ELSE "unknown")
    /\ UNCHANGED <<funds, others, forgiven, event, rec, poll, jobs, faults>>

PersistAgainFails ==
    /\ sub.pc = "persistAgain" /\ Goto("unknown") /\ DBFails
    /\ UNCHANGED <<row, funds, others, forgiven, event, rec, poll, jobs>>

(* SettleBilling: BillingSession.Settle adjusts the charge to the target.  *)
Settle ==
    /\ sub.pc = "settle" /\ Goto("ended")
    /\ AdjustTaskBilling(sub.acceptance.target)
    /\ UNCHANGED <<others, forgiven, event, rec, poll, jobs, faults>>

SettleFails ==
    /\ sub.pc = "settle" /\ Goto("ended")
    /\ (AdjustRefused(sub.acceptance.target) /\ UNCHANGED faults) \/ DBFails
    /\ UNCHANGED <<row, funds, others, forgiven, event, rec, poll, jobs>>

(* decideTaskRetry: another attempt keeps the row and its reservation.     *)
Retry ==
    /\ sub.pc = "retry" /\ sub.tries < MaxTries
    /\ sub' = [sub EXCEPT !.pc = IF sub.billed THEN "claim" ELSE "reserve", !.tries = @ + 1]
    /\ UNCHANGED <<row, funds, others, forgiven, event, rec, poll, jobs, faults>>

Stop ==
    /\ sub.pc = "retry" /\ Goto(IF sub.prepaid THEN "refund" ELSE "fail")
    /\ UNCHANGED <<row, funds, others, forgiven, event, rec, poll, jobs, faults>>

(* The deferred BillingSession.Refund, whose error is only logged ...      *)
Refund ==
    /\ sub.pc = "refund" /\ Goto("fail")
    /\ MayRefund /\ RefundTaskBilling
    /\ UNCHANGED <<others, forgiven, event, rec, poll, jobs, faults>>

RefundFails ==
    /\ sub.pc = "refund" /\ Goto("fail")
    /\ (~MayRefund /\ UNCHANGED faults) \/ DBFails
    /\ UNCHANGED <<row, funds, others, forgiven, event, rec, poll, jobs>>

(* ... and the deferred FailTaskBeforeSubmission.                          *)
Fail ==
    /\ sub.pc = "fail" /\ Goto("ended")
    /\ row' = IF MayFail THEN FailedRow ELSE row
    /\ UNCHANGED <<funds, others, forgiven, event, rec, poll, jobs, faults>>

(* The process of the request dies.                                        *)
Crash ==
    /\ sub.pc \notin {"start"} \cup Ended /\ Goto("crashed")
    /\ UNCHANGED <<row, funds, others, forgiven, event, rec, poll, jobs, faults>>

-----------------------------------------------------------------------------
(* TaskBillingRecoveryHandler.Handle.  The outbox delivers the event until *)
(* the handler succeeds or fails for good, to one worker at a time.        *)

(* Mutant: the event is due at once.                                       *)
MutDue == TRUE

(* The event becomes due TaskBillingRecoveryDelay after the row was made:  *)
(* late for a request that is still between the row and its reservation,   *)
(* not for one that waits for its upstream.                                *)
Due == SlowReserve \/ row.state # "pending" \/ sub.pc \in {"fail"} \cup Ended

NeedsAdjust(task) ==
    task.target # NoTarget /\ task.state \in {"accepted", "ambiguous"} /\ task.status # "failure"

Loaded(task) == rec' = [pc |-> IF NeedsAdjust(task) THEN "adjust" ELSE "decide", task |-> task]

Load ==
    /\ rec.pc = "idle" /\ event.status = "pending" /\ Due
    /\ event.receipt = NoReceipt /\ Loaded(row)
    /\ UNCHANGED <<row, funds, others, forgiven, sub, event, poll, jobs, faults>>

(* With a receipt the acceptance is restored first.                        *)
LoadReceipt ==
    /\ rec.pc = "idle" /\ event.status = "pending" /\ event.receipt # NoReceipt
    /\ MayRecover
    /\ row' = RecoveredRow(event.receipt) /\ Loaded(row')
    /\ UNCHANGED <<funds, others, forgiven, sub, event, poll, jobs, faults>>

ReceiptConflicts ==
    /\ rec.pc = "idle" /\ event.status = "pending" /\ event.receipt # NoReceipt
    /\ ~MayRecover
    /\ event' = [event EXCEPT !.status = "dead"]
    /\ UNCHANGED <<row, funds, others, forgiven, sub, rec, poll, jobs, faults>>

(* Back to the outbox: deferred, or failed and to be delivered again.      *)
Release == rec' = NotHandling

Step(pc) == rec' = [pc |-> pc, task |-> row']

(* RecalculateTaskQuota settles what the submitter has not.                *)
RecAdjust ==
    /\ rec.pc = "adjust"
    /\ AdjustTaskBilling(rec.task.target) /\ Step("decide")
    /\ UNCHANGED <<others, forgiven, sub, event, poll, jobs, faults>>

RecAdjustFails ==
    /\ rec.pc = "adjust" /\ Release
    /\ AdjustRefused(rec.task.target)
    /\ UNCHANGED <<row, funds, others, forgiven, sub, event, poll, jobs, faults>>

(* The decision is taken on the handler's copy of the row.                 *)
Decides(states) == rec.pc = "decide" /\ rec.task.state \in states

RecFailPending ==
    /\ Decides({"pending"})
    /\ row' = IF MayFail THEN FailedRow ELSE row
    /\ IF MayFail THEN Step("complete") ELSE Release
    /\ UNCHANGED <<funds, others, forgiven, sub, event, poll, jobs, faults>>

RecRefund ==
    /\ \/ Decides({"reserved"})
       \/ Decides({"dispatching", "accepted"}) /\ rec.task.status = "failure"
    /\ \/ MayRefund /\ RefundTaskBilling /\ Step(IF rec.task.state = "reserved" THEN "fail" ELSE "finish")
       \/ ~MayRefund /\ Release /\ UNCHANGED <<row, funds>>
    /\ UNCHANGED <<others, forgiven, sub, event, poll, jobs, faults>>

RecFail ==
    /\ \/ rec.pc = "fail"
       \/ Decides({"refunded"}) /\ rec.task.status \notin Final
    /\ row' = IF MayFail THEN FailedRow ELSE row
    /\ IF MayFail THEN Step("finish") ELSE Release
    /\ UNCHANGED <<funds, others, forgiven, sub, event, poll, jobs, faults>>

(* finishAmbiguousTask.                                                    *)
RecMarkAmbiguous ==
    /\ Decides({"dispatching"}) /\ rec.task.status # "failure"
    /\ row' = IF MayMarkAmbiguous THEN AmbiguousRow(NoTarget) ELSE row
    /\ IF MayMarkAmbiguous THEN Step("complete") ELSE Release
    /\ UNCHANGED <<funds, others, forgiven, sub, event, poll, jobs, faults>>

RecComplete ==
    /\ \/ rec.pc = "complete"
       \/ Decides({"ambiguous"}) /\ ~rec.task.upstream
       \/ Decides({"accepted"}) /\ rec.task.status = "success"
    /\ row' = CompletedRow /\ Step("finish")
    /\ UNCHANGED <<funds, others, forgiven, sub, event, poll, jobs, faults>>

(* The task is still pollable.                                             *)
RecDefer ==
    /\ \/ Decides({"ambiguous"}) /\ rec.task.upstream
       \/ Decides({"accepted"}) /\ rec.task.status \notin Final
    /\ Release
    /\ UNCHANGED <<row, funds, others, forgiven, sub, event, poll, jobs, faults>>

RecFinish ==
    /\ \/ rec.pc = "finish"
       \/ Decides({"completed"})
       \/ Decides({"refunded"}) /\ rec.task.status \in Final
    /\ Release /\ event' = [event EXCEPT !.status = "delivered"]
    /\ UNCHANGED <<row, funds, others, forgiven, sub, poll, jobs, faults>>

(* A transaction fails, the process dies, or the delivery is not recorded: *)
(* the event is delivered again.                                           *)
RecFails ==
    /\ rec.pc # "idle" /\ Release /\ DBFails
    /\ UNCHANGED <<row, funds, others, forgiven, sub, event, poll, jobs>>

Recover ==
    \/ Load \/ LoadReceipt \/ ReceiptConflicts \/ RecAdjust \/ RecAdjustFails \/ RecFailPending
    \/ RecRefund \/ RecFail \/ RecMarkAmbiguous \/ RecComplete \/ RecDefer \/ RecFinish

-----------------------------------------------------------------------------
(* A poller reads a running task and asks its upstream (updateVideoSingle- *)
(* Task), or finds it timed out (sweepTimedOutTasks, a failure); a user's  *)
(* realtime fetch (tryRealtimeFetch) updates the row but does not bill.    *)
Fetch(p, result, bills) ==
    /\ poll[p].pc = "idle" /\ row.status = "running"
    /\ poll' = [poll EXCEPT ![p] = [pc |-> "update", bills |-> bills, quota |-> row.quota, result |-> result]]
    /\ UNCHANGED <<row, funds, others, forgiven, sub, event, rec, jobs, faults>>

PollAt(p, pc) == poll' = [poll EXCEPT ![p] = IF pc = "idle" THEN NotPolling ELSE [@ EXCEPT !.pc = pc]]

(* The winner of the update bills; the refund goes by the quota read.      *)
Billing(p) ==
    IF ~poll[p].bills THEN "idle"
    ELSE IF poll[p].result = "success" THEN "settle"
    ELSE IF poll[p].quota # 0 THEN "refund" ELSE "idle"

(* Mutant: the status is written without comparing the snapshot.           *)
MutUpdate(p) ==
    /\ poll[p].pc = "update"
    /\ row' = [row EXCEPT !.status = poll[p].result] /\ PollAt(p, Billing(p))
    /\ UNCHANGED <<funds, others, forgiven, sub, event, rec, jobs, faults>>

(* UpdateWithStatusPreservingBilling: only over the snapshot it was read   *)
(* from.                                                                   *)
Update(p) ==
    /\ poll[p].pc = "update"
    /\ \/ row.status = "running" /\ row' = [row EXCEPT !.status = poll[p].result] /\ PollAt(p, Billing(p))
       \/ row.status # "running" /\ UNCHANGED row /\ PollAt(p, "idle")
    /\ UNCHANGED <<funds, others, forgiven, sub, event, rec, jobs, faults>>

(* settleTaskBillingOnComplete, when the result says what the task cost.   *)
PollSettle(p, actual) ==
    /\ poll[p].pc = "settle" /\ PollAt(p, "idle")
    /\ AdjustTaskBilling(actual)
    /\ UNCHANGED <<others, forgiven, sub, event, rec, jobs, faults>>

(* RefundTaskQuota.                                                        *)
PollRefund(p) ==
    /\ poll[p].pc = "refund" /\ PollAt(p, "idle")
    /\ MayRefund /\ RefundTaskBilling
    /\ UNCHANGED <<others, forgiven, sub, event, rec, jobs, faults>>

(* The result has no cost, the transaction fails, or the poller dies.      *)
PollStops(p) ==
    /\ poll[p].pc # "idle" /\ PollAt(p, "idle")
    /\ UNCHANGED <<row, funds, others, forgiven, sub, event, rec, jobs, faults>>

(* Other requests of the user.                                             *)
Spend(a) ==
    /\ funds[a] > 0
    /\ funds' = [funds EXCEPT ![a] = @ - 1]
    /\ others' = [others EXCEPT ![a] = @ + 1]
    /\ UNCHANGED <<row, forgiven, sub, event, rec, poll, jobs, faults>>

(* A period ends for another request of the user, or for the reset job     *)
(* (ResetDueSubscriptions).                                                *)
NewPeriod ==
    /\ PeriodEnds /\ Forgive
    /\ funds' = Renewed
    /\ UNCHANGED <<row, others, sub, event, rec, poll, jobs, faults>>

-----------------------------------------------------------------------------
(* What the upstream may answer; a failed task costs nothing.              *)
Answers ==
    {[status |-> s, target |-> t] : s \in {"running", "success"}, t \in Targets}
        \cup {[status |-> "failure", target |-> 0]}

Submit ==
    \/ Create \/ Reserve \/ ReserveFails \/ ReserveAgain \/ Claim \/ ClaimFails
    \/ Rejected \/ Unanswered \/ \E acceptance \in Answers : Accepted(acceptance)
    \/ Reset \/ ResetFails \/ MarkUnknown \/ MarkUnknownFails \/ Persist \/ PersistFails
    \/ StoreReceipt \/ ReceiptFails \/ PersistAgain \/ PersistAgainFails \/ Settle \/ SettleFails
    \/ Retry \/ Stop \/ Refund \/ RefundFails \/ Fail \/ Crash

Poll(p) ==
    \/ \E result \in Final, bills \in BOOLEAN : Fetch(p, result, bills)
    \/ Update(p) \/ PollRefund(p) \/ PollStops(p)
    \/ \E actual \in Actuals : PollSettle(p, actual)

Next ==
    \/ Submit \/ Recover \/ RecFails
    \/ \E p \in Pollers : Poll(p)
    \/ \E a \in Accounts : Spend(a)
    \/ NewPeriod

Spec == Init /\ [][Next]_vars

(* Only the outbox and its handler are sure to go on.                      *)
FairSpec == Spec /\ WF_vars(Recover)

-----------------------------------------------------------------------------
ChargedTo(a) == IF a = "token" THEN row.tokenQuota ELSE IF a = row.source THEN row.quota ELSE 0

(* What an account must hold.  Of a subscription, more by what the ends of *)
(* its periods forgave, less by what was then returned to an unused period.*)
Accounted(a, amount) ==
    IF a = "subscription" THEN Balance[a] <= amount /\ amount <= Balance[a] + forgiven
    ELSE amount = Balance[a]

(* What the row says the task costs has really been taken from each        *)
(* account, once, and nothing else: reservations, settlements and refunds  *)
(* of submitter, recovery and poller never double or get lost, and the     *)
(* ends of a subscription's periods between them change its account by no  *)
(* more than the usage they forgave, which never falls below zero          *)
(* (adjustTaskFunding, adjustTaskToken, reserveTaskSubscription).          *)
Conserved ==
    /\ funds["subscription"] <= Total
    /\ \A a \in Accounts : Accounted(a, funds[a] + others[a] + ChargedTo(a))

(* The upstream takes the task on at most once, over all retries           *)
(* (ClaimTaskSubmission, ResetTaskSubmissionClaim, CanRetry).              *)
TakenOnce == jobs <= 1

(* A task the upstream took on is not given away: its charge is returned   *)
(* only if it failed (taskBillingRefundAllowed).                           *)
RefundJustified == row.state = "refunded" /\ jobs > 0 => row.status = "failure"

(* A failed task is not closed with its charge kept: after completed no    *)
(* refund is allowed any more (CompleteTaskBillingRecovery).               *)
FailedNotClosedCharged == row.state = "completed" /\ row.status = "failure" => row.quota = 0

(* A result stands: neither a late acceptance nor a stale poller or        *)
(* recovery changes a terminal status (TaskSnapshot.Allows).               *)
ResultStands == [][row.status \in Final => row'.status = row.status]_vars

(* A refund is final: the row is not charged or dispatched again, and the  *)
(* accounts keep what was returned, the subscription up to what its periods*)
(* forgave (TaskBillingStateRefunded).                                     *)
RefundFinal ==
    [][row.state = "refunded" =>
          row'.state = "refunded" /\ (\A a \in Accounts : Accounted(a, funds[a] + others[a]))']_vars

(* The charge of a task, as its user sees it (TaskCharge).                 *)
Phase ==
    CASE row.state = "refunded" -> "returned"
      [] row.state # "refunded" /\ row.source = "none" -> "none"
      [] row.state = "reserved" /\ row.source # "none" -> "held"
      [] row.state \notin {"reserved", "refunded"} /\ row.source # "none" -> "sent"

Charges == [a \in Accounts |-> ChargedTo(a)]
Money == [a \in Accounts |-> funds[a] + others[a]]
Result == IF row.status \in Final THEN row.status ELSE "none"

Cost == INSTANCE TaskCharge WITH
    phase <- Phase, source <- row.source, charge <- Charges, money <- Money, result <- Result, taken <- jobs,
    Periodic <- {"subscription"}, renewed <- forgiven > 0

(* Every step of submitter, recovery and pollers is a step of the charge   *)
(* or none: held before the task is sent, settled only after it, returned  *)
(* once and only unsent or failed, from and to the accounts it came from   *)
(* (the transactions of model/task_billing.go).                            *)
ChargeFollowsTask == Cost!CSpec

(* The charge of a failed task is returned in the end, whoever saw it fail *)
(* and whoever stopped on the way (TaskBillingRecoveryHandler.Handle).     *)
FailureRefunded == row.status = "failure" ~> row.quota = 0 /\ row.tokenQuota = 0

(* No hold is forgotten: wherever the submitter stops, the reservation is  *)
(* in the end refunded, or belongs to a task that is accepted, closed, or  *)
(* ambiguous and waiting for funds to be settled.                          *)
HoldDecided ==
    row.state \in {"reserved", "dispatching"} ~>
        \/ row.state \in {"accepted", "refunded", "completed"}
        \/ row.state = "ambiguous" /\ row.target # NoTarget

(* "An accepted upstream task must still cross the durable acceptance      *)
(* boundary" (relay/relay_task.go:646): a request that was answered with a *)
(* task and ended by itself has put the task's id on the row or in the     *)
(* recovery event.                                                         *)
AcceptanceDurable ==
    sub.pc = "ended" /\ sub.acceptance.status # "unknown" => row.upstream \/ event.receipt # NoReceipt

-----------------------------------------------------------------------------
(***************************************************************************)
(* The inductive invariant behind these properties (TaskBillingProofs).    *)
(***************************************************************************)

(* Nothing happens before the row is written.                              *)
StartInv ==
    sub.pc = "start" => row = NoRow /\ event.status = "none" /\ rec.pc = "idle" /\ jobs = 0

(* Past the reservation: dispatching, polling and settling submitters,     *)
(* pollers and handlers never meet a row that is not reserved yet.         *)
Reserved == row.state \notin {"none", "pending"}

ReservedInv ==
    /\ sub.pc \in {"dispatch", "reset", "unknown", "persist", "receipt", "persistAgain", "settle"} => Reserved
    /\ row.status = "running" \/ (\E p \in Pollers : poll[p].pc # "idle") => Reserved
    /\ rec.pc = "adjust" => Reserved /\ rec.task.target # NoTarget

(* Rows without a reservation are not charged.                             *)
EmptyInv == row.state \in {"none", "pending", "refunded"} => row.quota = 0 /\ row.tokenQuota = 0

(* Once the claim is taken the task is refunded only after a failure, and  *)
(* a submitter whose task was taken on never goes back.                    *)
ClaimInv ==
    /\ sub.pc \in {"dispatch", "reset"} \/ jobs > 0 =>
          /\ row.state \in Dispatched \cup {"refunded"}
          /\ row.state = "refunded" => row.status = "failure"
    /\ jobs > 0 =>
          jobs = 1 /\ sub.pc \in {"unknown", "persist", "receipt", "persistAgain", "settle"} \cup Ended

(* Who is charged what, and how often: inductive by itself.                *)
ChargeInv == TypeOK /\ StartInv /\ ReservedInv /\ EmptyInv /\ ClaimInv /\ Conserved

Answered == {"running"} \cup Final      \* what an upstream that took the task on says of it
Gone == {"fail"} \cup Ended             \* the submitter will not reserve any more

(* Every state of the row allows few statuses; a completed row has failed  *)
(* only if it never held a charge.                                         *)
StatusInv ==
    /\ row.state \in {"none", "dispatching"} => row.status = "not_start"
    /\ row.state \in {"pending", "reserved", "refunded"} => row.status \in {"not_start", "failure"}
    /\ row.state = "ambiguous" => row.status = "unknown"
    /\ row.state = "accepted" => row.upstream /\ row.status \in Answered
    /\ row.state = "completed" /\ row.status = "failure" =>
          ~row.upstream /\ row.quota = 0 /\ row.tokenQuota = 0
    /\ row.state = "completed" => row.status \in {"unknown"} \cup Final
    /\ row.upstream => row.state \in {"accepted", "refunded", "completed"}

(* A row that failed before its dispatch has no submitter that goes on     *)
(* with it, and what is persisted as accepted was answered.                *)
SubmitterInv ==
    /\ row.state = "pending" /\ row.status = "failure" => sub.pc \in Gone
    /\ row.state = "reserved" /\ row.status = "failure" => sub.pc \in Ended
    /\ sub.pc \in {"persist", "receipt", "persistAgain", "settle"} => sub.acceptance.status \in Answered
    /\ sub.pc = "settle" => row.upstream
    /\ event.receipt # NoReceipt => event.receipt.status \in Answered

(* The handler's copy is current wherever a decision rests on it, ...      *)
HandlerInv ==
    /\ rec.pc = "decide" /\ rec.task.state = "pending" => row.state = "pending" /\ sub.pc \in Gone
    /\ rec.pc = "decide" /\ rec.task.state = "ambiguous" => row.state = "ambiguous"
    /\ rec.pc = "decide" /\ rec.task.state = "accepted" /\ rec.task.status = "success" => row.status = "success"
    /\ rec.pc = "decide" /\ rec.task.state = "refunded" => row.state = "refunded"
    /\ rec.pc = "fail" => row.state = "refunded"
    /\ rec.pc = "complete" => row.state = "ambiguous" \/ (row.state = "pending" /\ row.status = "failure")
    /\ rec.pc = "adjust" => row.state = "ambiguous" \/ row.upstream

(* ... and a poller settles what it saw succeed.                           *)
PollerInv == \A p \in Pollers : poll[p].pc = "settle" => row.status = "success"

(* A row has a source once it was reserved, and its charge is of one kind. *)
SourceInv ==
    /\ row.state = "none" => sub.pc = "start"
    /\ row.state \in {"none", "pending"} => row.source = "none"
    /\ row.state \in {"reserved", "dispatching", "accepted", "ambiguous"} => row.source \in Sources
    /\ row.state = "completed" => (row.source = "none" <=> row.status = "failure")
    /\ row.source = "none" => row.quota = 0 /\ row.tokenQuota = 0
    /\ row.tokenQuota \in {0, row.quota}

(* Who refunds meets a reservation, and what is known of an answer was     *)
(* taken on by the upstream.                                               *)
TakenInv ==
    /\ sub.prepaid \/ sub.pc = "refund" => Reserved
    /\ rec.pc = "decide" /\ rec.task.state \in {"reserved", "dispatching", "accepted"} => Reserved
    /\ sub.pc \in {"persist", "receipt", "persistAgain", "settle"} \/ event.receipt # NoReceipt \/ row.upstream
          => jobs > 0
    /\ sub.pc \in {"dispatch", "reset"} =>
          row.state \in {"dispatching", "ambiguous"} \/ (row.state = "completed" /\ row.status = "unknown")

(* What the result of a task is worth, when the recovery comes after the   *)
(* reservation.                                                            *)
ResultInv == StatusInv /\ SubmitterInv /\ HandlerInv /\ PollerInv

(* The way of its charge, under the same condition.                        *)
FlowInv == SourceInv /\ TakenInv

(* The inductive invariant.                                                *)
TaskInv == ChargeInv /\ (~SlowReserve => ResultInv /\ FlowInv)
=============================================================================
