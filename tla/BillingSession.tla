---------------------------- MODULE BillingSession ----------------------------
(***************************************************************************)
(* Request billing: the sessions that pre-consume, top up, settle and      *)
(* refund the charge of one relayed request (service/billing_session.go,   *)
(* service/funding_source.go) against the wallet, the token and the        *)
(* subscription of one user (model/quota_reserve.go, model/user_quota.go,  *)
(* model/token.go, model/subscription.go).                                 *)
(*                                                                         *)
(* All requests share one user, one token and one subscription, so that    *)
(* they compete for the same rows.  Every step is one database operation   *)
(* (or a local decision before it); between two steps of a request any     *)
(* other request may run.  Deployment modelled: no Redis and no batch      *)
(* updater, so each quota operation is one conditional UPDATE statement.   *)
(***************************************************************************)
EXTENDS Integers, FiniteSets

CONSTANTS
    Requests,           \* requests of the user
    ImageRequests,      \* those whose body is an image request
    PlaygroundRequests, \* relayInfo.IsPlayground: the token is not charged
    ForcedRequests,     \* relayInfo.ForcePreConsume: no trust bypass
    Preferences,        \* billing preferences a request may arrive with
    WalletInit, TokenInit,
    TokenUnlimited,     \* relayInfo.TokenUnlimited
    TrustQuota,         \* trust threshold; 0 turns the bypass off
    HasSubscription,    \* the user starts with an active subscription
    AllowWalletOverflow,\* ... that allows falling back to the wallet
    SubTotal,           \* its AmountTotal; 0 means unlimited
    PreQuotas,          \* estimates a request may arrive with
    Targets,            \* targets of a later Reserve
    Actuals,            \* quotas a request may really cost
    MaxReserves,        \* bound: Reserve calls per request (relay retries)
    MaxFailures,        \* bound: failing database operations
    MaxResets,          \* bound: ends of the subscription period
    MayExpire           \* whether the subscription may expire

(* common.NormalizeBillingPreference maps every setting to one of these.   *)
AllPreferences == {"subscription_first", "subscription_only", "wallet_first", "wallet_only"}

ASSUME BillingAssumption ==
    /\ ImageRequests \subseteq Requests
    /\ PlaygroundRequests \subseteq Requests
    /\ ForcedRequests \subseteq Requests
    /\ Preferences \subseteq AllPreferences
    /\ WalletInit \in Nat /\ TokenInit \in Nat /\ TrustQuota \in Nat /\ SubTotal \in Nat
    /\ TokenUnlimited \in BOOLEAN /\ HasSubscription \in BOOLEAN
    /\ AllowWalletOverflow \in BOOLEAN /\ MayExpire \in BOOLEAN
    /\ PreQuotas \subseteq Nat /\ Targets \subseteq Nat /\ Actuals \subseteq Nat
    /\ MaxReserves \in Nat /\ MaxFailures \in Nat /\ MaxResets \in Nat

VARIABLES
    wallet,     \* users.quota
    token,      \* tokens.remain_quota
    subUsed,    \* user_subscriptions.amount_used
    subActive,  \* status = active and end_time in the future
    resetDue,   \* next_reset_time has passed
    record,     \* subscription_pre_consume_records by request id
    sess,       \* BillingSession of each request, and where its code stands
    net,        \* history: what each request has taken and not given back
    walletDebt, \* history: wallet quota taken without checking the balance
    tokenDebt,  \* history: token quota taken without checking the balance
    failures,   \* database failures so far
    resets      \* subscription periods ended so far

vars == <<wallet, token, subUsed, subActive, resetDue, record, sess, net,
          walletDebt, tokenDebt, failures, resets>>

(***************************************************************************)
(* "at" is where the request's code stands; the other fields are those of  *)
(* BillingSession, WalletFunding (consumed) and SubscriptionFunding        *)
(* (preConsumed), and the locals that live across database operations.     *)
(***************************************************************************)
Running  == {"tryWallet", "preToken", "preFunding", "rollback", "overflow", "open",
             "reserveToken", "rollbackReserve", "failed", "settleToken",
             "refundFunding", "refundExtra", "refundToken"}
Terminal == {"denied", "done", "unsettled", "lost"}

Session ==
    [at : {"idle"} \cup Running \cup Terminal, pref : AllPreferences,
     quota : Nat,            \* the estimate
     tokenTrusted : BOOLEAN, \* token_quota, read at authentication, exceeds the threshold
     source : {"wallet", "subscription"},
     effective : Nat,        \* effectiveQuota of preConsume
     preConsumedQuota : Nat, tokenConsumed : Nat, extraReserved : Nat,
     trusted : BOOLEAN, fundingSettled : BOOLEAN, settled : BOOLEAN, refunded : BOOLEAN,
     consumed : Int, preConsumed : Nat,
     delta : Int,            \* of the Reserve or Settle in progress
     actual : Nat,           \* argument of Settle
     fallback : BOOLEAN,     \* the failure was "insufficient quota"
     tries : 0..3,           \* attempts of refundWithRetry
     reserves : Nat]         \* Reserve calls so far

NewSession ==
    [at |-> "idle", pref |-> "wallet_only", quota |-> 0, tokenTrusted |-> FALSE,
     source |-> "wallet", effective |-> 0, preConsumedQuota |-> 0, tokenConsumed |-> 0, extraReserved |-> 0,
     trusted |-> FALSE, fundingSettled |-> FALSE, settled |-> FALSE, refunded |-> FALSE,
     consumed |-> 0, preConsumed |-> 0, delta |-> 0, actual |-> 0, fallback |-> FALSE,
     tries |-> 0, reserves |-> 0]

(* Quota taken from the wallet, the token and the subscription.             *)
Net == [wallet : Int, token : Int, sub : Int]

TypeOK ==
    /\ wallet \in Int /\ token \in Int
    /\ subUsed \in Nat /\ subActive \in BOOLEAN /\ resetDue \in BOOLEAN
    /\ record \in [Requests -> {"none", "consumed", "refunded"}]
    /\ sess \in [Requests -> Session]
    /\ net \in [Requests -> Net]
    /\ walletDebt \in Nat /\ tokenDebt \in Nat
    /\ failures \in Nat /\ resets \in Nat

Init ==
    /\ wallet = WalletInit /\ token = TokenInit
    /\ subUsed = 0 /\ subActive = HasSubscription /\ resetDue = FALSE
    /\ record = [r \in Requests |-> "none"]
    /\ sess = [r \in Requests |-> NewSession]
    /\ net = [r \in Requests |-> [wallet |-> 0, token |-> 0, sub |-> 0]]
    /\ walletDebt = 0 /\ tokenDebt = 0
    /\ failures = 0 /\ resets = 0

-----------------------------------------------------------------------------
(***************************************************************************)
(* Database operations on behalf of request r.                             *)
(***************************************************************************)

(* Any database operation may fail without effect, at most MaxFailures     *)
(* times in a behaviour.                                                   *)
DBFails == failures < MaxFailures /\ failures' = failures + 1

(* decreaseUserQuota / increaseUserQuota: unconditional.                   *)
MoveWallet(r, amount) ==
    /\ wallet' = wallet - amount
    /\ net' = [net EXCEPT ![r].wallet = @ + amount]

(* decreaseTokenQuota / increaseTokenQuota: unconditional.                 *)
MoveToken(r, amount) ==
    /\ token' = token - amount
    /\ net' = [net EXCEPT ![r].token = @ + amount]

(* Quota taken with no balance check.                                      *)
UncheckedWallet(amount) == walletDebt' = walletDebt + (IF amount > 0 THEN amount ELSE 0)
UncheckedToken(amount) == tokenDebt' = tokenDebt + (IF amount > 0 THEN amount ELSE 0)

(* UPDATE ... WHERE quota >= amount: reserveUserQuotaDB.                   *)
WalletCovers(amount) == wallet >= amount

(* reserveTokenQuotaDB; an unlimited token skips the balance check.        *)
TokenCovers(amount) == TokenUnlimited \/ token >= amount

(* The bound of PostConsumeUserSubscriptionDelta and of                    *)
(* PreConsumeUserSubscription.                                             *)
SubCovers(used, delta) == SubTotal = 0 \/ used + delta <= SubTotal

(* The new amount_used of PostConsumeUserSubscriptionDelta: a credit is    *)
(* floored at zero.                                                        *)
SubAfter(used, delta) == IF used + delta < 0 THEN 0 ELSE used + delta

(* What the request charges to its token.                                  *)
TokenShare(r, amount) == IF r \in PlaygroundRequests THEN 0 ELSE amount

TokenOnly == UNCHANGED <<wallet, walletDebt, subUsed, subActive, resetDue, record, resets>>
WalletOnly == UNCHANGED <<token, tokenDebt, subUsed, subActive, resetDue, record, resets>>
SubOnly == UNCHANGED <<wallet, token, walletDebt, tokenDebt, subActive, resets>>
LocalOnly == UNCHANGED <<wallet, token, walletDebt, tokenDebt, subUsed, subActive, resetDue,
                         record, net, resets>>

-----------------------------------------------------------------------------
(***************************************************************************)
(* NewBillingSession: choose the funding source and pre-consume.           *)
(***************************************************************************)

At(r, where) == sess[r].at = where

(* trySubscription: a subscription pre-consumes at least 1.                *)
TrySubscription(s) ==
    LET amount == IF s.quota = 0 THEN 1 ELSE s.quota
    IN  [s EXCEPT !.at = "preToken", !.source = "subscription",
                  !.effective = amount, !.trusted = FALSE, !.fallback = FALSE]

TryWallet(s) == [s EXCEPT !.at = "tryWallet", !.source = "wallet", !.fallback = FALSE]

(* The request arrives; the preference decides the first source.  The      *)
(* default preference looks for an active subscription first.              *)
Arrive(r, pref, quota) ==
    /\ At(r, "idle")
    /\ LET s == [sess[r] EXCEPT !.pref = pref, !.quota = quota,
                                !.tokenTrusted = IF TokenUnlimited THEN TRUE
                                                 ELSE token > TrustQuota]
       IN  \/ /\ sess' = [sess EXCEPT ![r] =
                    IF pref = "subscription_only" \/ (pref = "subscription_first" /\ subActive)
                    THEN TrySubscription(s) ELSE TryWallet(s)]
              /\ UNCHANGED failures
           \/ /\ pref = "subscription_first" /\ DBFails
              /\ sess' = [sess EXCEPT ![r] = [s EXCEPT !.at = "denied"]]
    /\ LocalOnly

(* After a failed attempt: only "insufficient quota" falls back, from the  *)
(* wallet to the subscription or, through UserActiveSubscriptions-         *)
(* AllowWalletOverflow, from the subscription to the wallet.               *)
NextSource(s) ==
    CASE s.fallback /\ s.pref = "wallet_first" /\ s.source = "wallet" -> TrySubscription(s)
      [] s.fallback /\ s.pref = "subscription_first" /\ s.source = "subscription" ->
            [s EXCEPT !.at = "overflow"]
      [] OTHER -> [s EXCEPT !.at = "denied"]

(* shouldTrust: only a wallet session whose token and wallet both exceed   *)
(* the threshold.                                                          *)
ShouldTrust(r, userQuota) ==
    /\ r \notin ForcedRequests
    /\ TrustQuota > 0
    /\ sess[r].tokenTrusted
    /\ userQuota > TrustQuota

(* tryWallet reads the balance, refuses an empty or too small one, and     *)
(* otherwise starts preConsume, which reserves nothing when trusted.       *)
TryWalletStep(r) ==
    /\ At(r, "tryWallet")
    /\ \/ /\ sess' = [sess EXCEPT ![r] =
                IF wallet <= 0 \/ wallet < @.quota
                THEN NextSource([@ EXCEPT !.fallback = TRUE])
                ELSE IF ShouldTrust(r, wallet)
                THEN [@ EXCEPT !.at = "open", !.effective = 0, !.trusted = TRUE]
                ELSE IF @.quota = 0
                THEN [@ EXCEPT !.at = "open", !.effective = 0]
                ELSE [@ EXCEPT !.at = "preToken", !.effective = sess[r].quota]]
          /\ UNCHANGED failures
       \/ DBFails /\ sess' = [sess EXCEPT ![r].at = "denied"]
    /\ LocalOnly

(* preConsume, step 1: PreConsumeTokenQuota.                               *)
PreToken(r) ==
    /\ At(r, "preToken")
    /\ LET amount == sess[r].effective
           share == TokenShare(r, amount) IN
       \/ /\ r \in PlaygroundRequests \/ TokenCovers(amount)
          /\ MoveToken(r, share)
          /\ IF TokenUnlimited THEN UncheckedToken(share) ELSE UNCHANGED tokenDebt
          /\ sess' = [sess EXCEPT ![r] = [@ EXCEPT !.at = "preFunding", !.tokenConsumed = amount]]
          /\ UNCHANGED failures
       \/ /\ r \notin PlaygroundRequests
          /\ \/ ~TokenCovers(amount) /\ UNCHANGED failures
             \/ DBFails
          /\ sess' = [sess EXCEPT ![r].at = "denied"]
          /\ UNCHANGED <<token, net, tokenDebt>>
    /\ TokenOnly

(* Mutant: the error is returned without giving the token share back. *)
MutPreFailed(r, s, insufficient) ==
    NextSource([s EXCEPT !.fallback = insufficient, !.tokenConsumed = 0])

(* The session after a pre-consume failed: the token share is given back   *)
(* before the error is returned, except for a playground request.          *)
PreFailed(r, s, insufficient) ==
    LET t == [s EXCEPT !.fallback = insufficient]
    IN  IF r \in PlaygroundRequests
        THEN NextSource([t EXCEPT !.tokenConsumed = 0])
        ELSE [t EXCEPT !.at = "rollback"]

(* preConsume, step 2, wallet: TryReserveUserQuota.                        *)
PreFundingWallet(r) ==
    /\ At(r, "preFunding") /\ sess[r].source = "wallet"
    /\ LET amount == sess[r].effective IN
       \/ /\ WalletCovers(amount)
          /\ MoveWallet(r, amount)
          /\ sess' = [sess EXCEPT ![r] = [@ EXCEPT !.at = "open", !.consumed = amount,
                                                    !.preConsumedQuota = amount]]
          /\ UNCHANGED failures
       \/ /\ ~WalletCovers(amount)
          /\ sess' = [sess EXCEPT ![r] = PreFailed(r, @, TRUE)]
          /\ UNCHANGED <<wallet, net, failures>>
       \/ /\ DBFails
          /\ sess' = [sess EXCEPT ![r] = PreFailed(r, @, FALSE)]
          /\ UNCHANGED <<wallet, net>>
    /\ WalletOnly /\ UNCHANGED walletDebt

(* maybeResetUserSubscriptionWithPlanTx: the usage starts again from zero  *)
(* when the period has ended.                                              *)
PeriodUsage == IF resetDue THEN 0 ELSE subUsed

(* preConsume, step 2, subscription: PreConsumeUserSubscription writes the *)
(* request's record and the usage in one transaction, resetting the usage  *)
(* first when the period has ended.                                        *)
PreFundingSubscription(r) ==
    /\ At(r, "preFunding") /\ sess[r].source = "subscription"
    /\ LET amount == sess[r].effective
           covered == subActive /\ SubCovers(PeriodUsage, amount) IN
       \/ /\ covered
          /\ subUsed' = PeriodUsage + amount
          /\ resetDue' = FALSE
          /\ record' = [record EXCEPT ![r] = "consumed"]
          /\ net' = [net EXCEPT ![r].sub = @ + amount]
          /\ sess' = [sess EXCEPT ![r] = [@ EXCEPT !.at = "open", !.preConsumed = amount,
                                                    !.preConsumedQuota = amount]]
          /\ UNCHANGED failures
       \/ /\ ~covered
          /\ sess' = [sess EXCEPT ![r] = PreFailed(r, @, TRUE)]
          /\ UNCHANGED <<subUsed, resetDue, record, net, failures>>
       \/ /\ DBFails
          /\ sess' = [sess EXCEPT ![r] = PreFailed(r, @, FALSE)]
          /\ UNCHANGED <<subUsed, resetDue, record, net>>
    /\ SubOnly

(* preConsume gives the token share back; a failure is only logged.        *)
RollbackToken(r) ==
    /\ At(r, "rollback")
    /\ \/ MoveToken(r, -sess[r].tokenConsumed) /\ UNCHANGED failures
       \/ DBFails /\ UNCHANGED <<token, net>>
    /\ sess' = [sess EXCEPT ![r] = NextSource([@ EXCEPT !.tokenConsumed = 0])]
    /\ TokenOnly /\ UNCHANGED tokenDebt

(* subscription_first: UserActiveSubscriptionsAllowWalletOverflow is true  *)
(* when no active subscription forbids it.                                 *)
CheckOverflow(r) ==
    /\ At(r, "overflow")
    /\ \/ /\ sess' = [sess EXCEPT ![r] =
                IF subActive => AllowWalletOverflow THEN TryWallet(@)
                ELSE [@ EXCEPT !.at = "denied"]]
          /\ UNCHANGED failures
       \/ DBFails /\ sess' = [sess EXCEPT ![r].at = "denied"]
    /\ LocalOnly

-----------------------------------------------------------------------------
(***************************************************************************)
(* Reserve: the relay loop raises the reservation before an attempt.       *)
(***************************************************************************)

(* The early returns of Reserve, and the bound on retries.                 *)
MayReserve(r, target) ==
    /\ At(r, "open")
    /\ sess[r].trusted => r \in ImageRequests
    /\ target > sess[r].preConsumedQuota
    /\ sess[r].reserves < MaxReserves

ReserveNext(r, s, delta) ==
    [s EXCEPT !.at = "reserveToken", !.delta = delta, !.reserves = @ + 1]

ReserveFailed(s) == [s EXCEPT !.at = "failed", !.reserves = @ + 1]

(* WalletFunding.consumed after reserveFunding: added to, except that      *)
(* WalletFunding.PreConsume, called for an image, overwrites it.           *)
ConsumedAfter(r, s, delta) ==
    IF r \in ImageRequests THEN delta ELSE s.consumed + delta

(* reserveFunding on a wallet.  An image reserves conditionally; any other *)
(* request goes into debt rather than be interrupted.                      *)
ReserveWallet(r, target) ==
    /\ MayReserve(r, target) /\ sess[r].source = "wallet"
    /\ LET delta == target - sess[r].preConsumedQuota
           image == r \in ImageRequests IN
       \/ /\ image => WalletCovers(delta)
          /\ MoveWallet(r, delta)
          /\ IF image THEN UNCHANGED walletDebt ELSE UncheckedWallet(delta)
          /\ sess' = [sess EXCEPT ![r] =
                [ReserveNext(r, @, delta) EXCEPT
                    !.consumed = ConsumedAfter(r, sess[r], delta)]]
          /\ UNCHANGED failures
       \/ /\ \/ image /\ ~WalletCovers(delta) /\ UNCHANGED failures
             \/ DBFails
          /\ sess' = [sess EXCEPT ![r] = ReserveFailed(@)]
          /\ UNCHANGED <<wallet, net, walletDebt>>
    /\ WalletOnly

(* reserveFunding on a subscription: PostConsumeUserSubscriptionDelta.     *)
ReserveSubscription(r, target) ==
    /\ MayReserve(r, target) /\ sess[r].source = "subscription"
    /\ LET delta == target - sess[r].preConsumedQuota IN
       \/ /\ SubCovers(subUsed, delta)
          /\ subUsed' = SubAfter(subUsed, delta)
          /\ net' = [net EXCEPT ![r].sub = @ + delta]
          /\ sess' = [sess EXCEPT ![r] = ReserveNext(r, @, delta)]
          /\ UNCHANGED failures
       \/ /\ \/ ~SubCovers(subUsed, delta) /\ UNCHANGED failures
             \/ DBFails
          /\ sess' = [sess EXCEPT ![r] = ReserveFailed(@)]
          /\ UNCHANGED <<subUsed, net>>
    /\ UNCHANGED <<resetDue, record>> /\ SubOnly

(* Mutant: Reserve forgets to raise extraReserved. *)
MutReservedExtra(r, s) ==
    [s EXCEPT !.at = "open", !.preConsumedQuota = @ + s.delta, !.tokenConsumed = @ + s.delta]

(* The bookkeeping that ends a successful Reserve.                         *)
Reserved(r, s) ==
    [s EXCEPT !.at = "open", !.preConsumedQuota = @ + s.delta,
              !.tokenConsumed = @ + s.delta, !.extraReserved = @ + s.delta,
              !.trusted = IF r \in ImageRequests THEN FALSE ELSE @]

(* reserveToken, then the bookkeeping.                                     *)
ReserveToken(r) ==
    /\ At(r, "reserveToken")
    /\ LET delta == sess[r].delta
           share == TokenShare(r, delta) IN
       \/ /\ r \in PlaygroundRequests \/ TokenCovers(delta)
          /\ MoveToken(r, share)
          /\ IF TokenUnlimited THEN UncheckedToken(share) ELSE UNCHANGED tokenDebt
          /\ sess' = [sess EXCEPT ![r] = Reserved(r, @)]
          /\ UNCHANGED failures
       \/ /\ r \notin PlaygroundRequests
          /\ \/ ~TokenCovers(delta) /\ UNCHANGED failures
             \/ DBFails
          /\ sess' = [sess EXCEPT ![r].at = "rollbackReserve"]
          /\ UNCHANGED <<token, net, tokenDebt>>
    /\ TokenOnly

(* Mutant: the rollback does not lower WalletFunding.consumed. *)
MutRolledBack(s) == [s EXCEPT !.at = "failed"]

(* WalletFunding.consumed no longer counts what the rollback returned.     *)
RolledBack(s) == [s EXCEPT !.at = "failed", !.consumed = @ - s.delta]

(* rollbackFundingReserve; the error then fails the request.               *)
RollbackReserve(r) ==
    /\ At(r, "rollbackReserve")
    /\ LET delta == sess[r].delta
           onWallet == sess[r].source = "wallet" IN
       \/ /\ onWallet /\ MoveWallet(r, -delta)
          /\ sess' = [sess EXCEPT ![r] = RolledBack(@)]
          /\ UNCHANGED <<subUsed, failures>>
       \/ /\ ~onWallet
          /\ subUsed' = SubAfter(subUsed, -delta)
          /\ net' = [net EXCEPT ![r].sub = @ - delta]
          /\ sess' = [sess EXCEPT ![r].at = "failed"]
          /\ UNCHANGED <<wallet, failures>>
       \/ /\ DBFails
          /\ sess' = [sess EXCEPT ![r].at = "failed"]
          /\ UNCHANGED <<wallet, subUsed, net>>
    /\ UNCHANGED <<token, subActive, resetDue, record, walletDebt, tokenDebt, resets>>

-----------------------------------------------------------------------------
(***************************************************************************)
(* Settle: the request succeeded and cost "actual".                        *)
(***************************************************************************)

(* Mutant: the token does not follow the funding source. *)
MutSettleNext(r, s) ==
    [s EXCEPT !.fundingSettled = TRUE, !.at = "done", !.settled = TRUE]

(* The funding source has moved; a playground request has no token step.   *)
SettleNext(r, s) ==
    IF r \in PlaygroundRequests
    THEN [s EXCEPT !.fundingSettled = TRUE, !.at = "done", !.settled = TRUE]
    ELSE [s EXCEPT !.fundingSettled = TRUE, !.at = "settleToken"]

(* WalletFunding.Settle and the early returns of Settle.  An error leaves  *)
(* the session unsettled, and the caller only logs it.                     *)
SettleWallet(r, actual) ==
    /\ At(r, "open") /\ sess[r].source = "wallet"
    /\ LET delta == actual - sess[r].preConsumedQuota
           s == [sess[r] EXCEPT !.actual = actual, !.delta = delta] IN
       \/ /\ delta = 0
          /\ sess' = [sess EXCEPT ![r] = [s EXCEPT !.at = "done", !.settled = TRUE]]
          /\ UNCHANGED <<wallet, net, walletDebt, failures>>
       \/ /\ delta # 0
          /\ MoveWallet(r, delta)
          /\ UncheckedWallet(delta)
          /\ sess' = [sess EXCEPT ![r] = SettleNext(r, s)]
          /\ UNCHANGED failures
       \/ /\ delta # 0 /\ DBFails
          /\ sess' = [sess EXCEPT ![r] = [s EXCEPT !.at = "unsettled"]]
          /\ UNCHANGED <<wallet, net, walletDebt>>
    /\ WalletOnly

(* SubscriptionFunding.Settle: a supplement beyond the total is refused.   *)
SettleSubscription(r, actual) ==
    /\ At(r, "open") /\ sess[r].source = "subscription"
    /\ LET delta == actual - sess[r].preConsumedQuota
           s == [sess[r] EXCEPT !.actual = actual, !.delta = delta]
           after == SubAfter(subUsed, delta)
           covered == SubTotal = 0 \/ after <= SubTotal IN
       \/ /\ delta = 0
          /\ sess' = [sess EXCEPT ![r] = [s EXCEPT !.at = "done", !.settled = TRUE]]
          /\ UNCHANGED <<subUsed, net, failures>>
       \/ /\ delta # 0 /\ covered
          /\ subUsed' = after
          /\ net' = [net EXCEPT ![r].sub = @ + delta]
          /\ sess' = [sess EXCEPT ![r] = SettleNext(r, s)]
          /\ UNCHANGED failures
       \/ /\ delta # 0
          /\ \/ ~covered /\ UNCHANGED failures
             \/ DBFails
          /\ sess' = [sess EXCEPT ![r] = [s EXCEPT !.at = "unsettled"]]
          /\ UNCHANGED <<subUsed, net>>
    /\ UNCHANGED <<resetDue, record>> /\ SubOnly

(* Settle, step 2: the token follows; a failure is logged and the session  *)
(* is settled all the same.                                                *)
SettleToken(r) ==
    /\ At(r, "settleToken")
    /\ \/ /\ MoveToken(r, sess[r].delta)
          /\ UncheckedToken(sess[r].delta)
          /\ UNCHANGED failures
       \/ DBFails /\ UNCHANGED <<token, net, tokenDebt>>
    /\ sess' = [sess EXCEPT ![r] = [@ EXCEPT !.at = "done", !.settled = TRUE]]
    /\ TokenOnly

-----------------------------------------------------------------------------
(***************************************************************************)
(* Refund: the relay loop gave up.                                         *)
(***************************************************************************)

(* Mutant: only a subscription needs a refund. *)
MutNeedsRefund(s) ==
    /\ ~s.settled /\ ~s.refunded /\ ~s.fundingSettled
    /\ s.source = "subscription" /\ s.preConsumed > 0

(* Mutant: a session that was settled is not told apart. *)
MutRefundSettled(s) ==
    /\ ~s.refunded
    /\ \/ s.tokenConsumed > 0
       \/ s.source = "subscription" /\ s.preConsumed > 0

(* needsRefundLocked.                                                      *)
NeedsRefund(s) ==
    /\ ~s.settled /\ ~s.refunded /\ ~s.fundingSettled
    /\ \/ s.tokenConsumed > 0
       \/ s.source = "subscription" /\ s.preConsumed > 0

(* RefundFailedRequestBilling after the last attempt failed, or after a    *)
(* Reserve did; the refund itself runs in a goroutine.                     *)
Refund(r) ==
    /\ At(r, "open") \/ At(r, "failed")
    /\ sess' = [sess EXCEPT ![r] =
          IF NeedsRefund(@) THEN [@ EXCEPT !.at = "refundFunding", !.refunded = TRUE]
          ELSE [@ EXCEPT !.at = "done"]]
    /\ LocalOnly /\ UNCHANGED failures

(* RefundFailedRequestBilling after the request's usage was billed: runCall *)
(* of the responses websocket turns a panic into an error, and Refund finds *)
(* a session that is settled, that was refunded, or whose Settle failed.    *)
LateRefund(r) ==
    /\ sess[r].at \in {"done", "unsettled"}
    /\ sess' = [sess EXCEPT ![r] =
          IF NeedsRefund(@) THEN [@ EXCEPT !.at = "refundFunding", !.refunded = TRUE] ELSE @]
    /\ LocalOnly /\ UNCHANGED failures

(* WalletFunding.Refund: one attempt, because the credit is not idempotent.*)
RefundWallet(r) ==
    /\ At(r, "refundFunding") /\ sess[r].source = "wallet"
    /\ LET amount == IF sess[r].consumed > 0 THEN sess[r].consumed ELSE 0 IN
       \/ MoveWallet(r, -amount) /\ UNCHANGED failures
       \/ amount > 0 /\ DBFails /\ UNCHANGED <<wallet, net>>
    /\ sess' = [sess EXCEPT ![r].at = "refundToken"]
    /\ WalletOnly /\ UNCHANGED walletDebt

(* SubscriptionFunding.Refund: refundWithRetry makes three attempts at     *)
(* RefundSubscriptionPreConsume.  The usage is reduced in a transaction of *)
(* its own (PostConsumeUserSubscriptionDelta on the global handle) before  *)
(* the record is saved, so the save may fail after the usage is reduced;   *)
(* an error may also be reported for a commit that took place.             *)
RefundSubscription(r) ==
    /\ At(r, "refundFunding") /\ sess[r].source = "subscription"
    /\ LET amount == sess[r].preConsumed
           retry == [sess[r] EXCEPT !.tries = @ + 1,
                        !.at = IF sess[r].tries + 1 < 3 THEN "refundFunding" ELSE "refundExtra"]
           reduce == /\ subUsed' = SubAfter(subUsed, -amount)
                     /\ net' = [net EXCEPT ![r].sub = @ - amount]
           mark == record' = [record EXCEPT ![r] = "refunded"] IN
       \/ /\ record[r] = "refunded"
          /\ sess' = [sess EXCEPT ![r].at = "refundExtra"]
          /\ UNCHANGED <<subUsed, net, record, failures>>
       \/ /\ record[r] # "refunded"
          /\ reduce /\ mark
          /\ \/ sess' = [sess EXCEPT ![r].at = "refundExtra"] /\ UNCHANGED failures
             \/ sess' = [sess EXCEPT ![r] = retry] /\ DBFails
       \/ /\ record[r] # "refunded"
          /\ reduce /\ DBFails
          /\ sess' = [sess EXCEPT ![r] = retry] /\ UNCHANGED record
       \/ /\ DBFails
          /\ sess' = [sess EXCEPT ![r] = retry] /\ UNCHANGED <<subUsed, net, record>>
    /\ UNCHANGED resetDue /\ SubOnly

(* Refund's second step: what later Reserves took from the subscription.   *)
RefundExtra(r) ==
    /\ At(r, "refundExtra")
    /\ LET extra == sess[r].extraReserved IN
       \/ /\ subUsed' = SubAfter(subUsed, -extra)
          /\ net' = [net EXCEPT ![r].sub = @ - extra]
          /\ UNCHANGED failures
       \/ extra > 0 /\ DBFails /\ UNCHANGED <<subUsed, net>>
    /\ sess' = [sess EXCEPT ![r].at = "refundToken"]
    /\ UNCHANGED <<resetDue, record>> /\ SubOnly

(* Refund's last step: the token share.                                    *)
RefundToken(r) ==
    /\ At(r, "refundToken")
    /\ LET share == TokenShare(r, sess[r].tokenConsumed) IN
       \/ MoveToken(r, -share) /\ UNCHANGED failures
       \/ share > 0 /\ DBFails /\ UNCHANGED <<token, net>>
    /\ sess' = [sess EXCEPT ![r].at = "done"]
    /\ TokenOnly /\ UNCHANGED tokenDebt

-----------------------------------------------------------------------------
(* The process stops: sessions and pending refund goroutines live only in  *)
(* memory and nothing picks them up again.                                 *)
Crash ==
    /\ \E r \in Requests : sess[r].at \in Running
    /\ sess' = [r \in Requests |->
          IF sess[r].at \in Running \cup {"unsettled"}
          THEN [sess[r] EXCEPT !.at = "lost"] ELSE sess[r]]
    /\ LocalOnly /\ UNCHANGED failures

(* The subscription period ends: next_reset_time passes.                   *)
PeriodEnds ==
    /\ resets < MaxResets /\ subActive /\ ~resetDue
    /\ resetDue' = TRUE /\ resets' = resets + 1
    /\ UNCHANGED <<wallet, token, subUsed, subActive, record, sess, net, walletDebt, tokenDebt, failures>>

(* ResetDueSubscriptions, run by the subscription maintenance task.        *)
ResetDueSubscriptions ==
    /\ resetDue /\ subActive
    /\ subUsed' = 0 /\ resetDue' = FALSE
    /\ UNCHANGED <<wallet, token, subActive, record, sess, net, walletDebt, tokenDebt, failures, resets>>

(* end_time passes.                                                        *)
Expire ==
    /\ MayExpire /\ subActive
    /\ subActive' = FALSE
    /\ UNCHANGED <<wallet, token, subUsed, resetDue, record, sess, net, walletDebt, tokenDebt, failures, resets>>

(* The steps of the goroutines that serve request r.                       *)
Step(r) ==
    \/ TryWalletStep(r) \/ PreToken(r)
    \/ PreFundingWallet(r) \/ PreFundingSubscription(r)
    \/ RollbackToken(r) \/ CheckOverflow(r)
    \/ \E target \in Targets : ReserveWallet(r, target) \/ ReserveSubscription(r, target)
    \/ ReserveToken(r) \/ RollbackReserve(r)
    \/ \E actual \in Actuals : SettleWallet(r, actual) \/ SettleSubscription(r, actual)
    \/ SettleToken(r)
    \/ Refund(r) \/ RefundWallet(r) \/ RefundSubscription(r) \/ RefundExtra(r) \/ RefundToken(r)

(* Every request has ended: nothing is left to do.                         *)
Finished ==
    /\ \A r \in Requests : sess[r].at \in Terminal
    /\ UNCHANGED vars

Next ==
    \/ \E r \in Requests, pref \in Preferences, quota \in PreQuotas : Arrive(r, pref, quota)
    \/ \E r \in Requests : Step(r) \/ LateRefund(r)
    \/ Crash \/ PeriodEnds \/ ResetDueSubscriptions \/ Expire \/ Finished

Spec == Init /\ [][Next]_vars

(* A goroutine that can take its next step eventually takes it; nothing is *)
(* assumed of arrivals, late refunds, crashes or the clock.                *)
FairSpec == Spec /\ \A r \in Requests : WF_vars(Step(r))

-----------------------------------------------------------------------------
(***************************************************************************)
(* What a request may cost.                                                *)
(***************************************************************************)

(* A settled request has cost its funding source exactly what it really    *)
(* used, whatever was pre-consumed, topped up or rolled back before, and   *)
(* even when the token could not follow (Settle).                          *)
SettledCostsActual ==
    \A r \in Requests : sess[r].settled =>
        IF sess[r].source = "wallet"
        THEN net[r].wallet = sess[r].actual /\ net[r].sub = 0
        ELSE net[r].sub = sess[r].actual /\ net[r].wallet = 0

(* Without database failures the token is charged the same amount, and a   *)
(* playground request charges it nothing (Settle, step 2).                 *)
SettledTokenMatches ==
    failures = 0 => \A r \in Requests :
        sess[r].settled => net[r].token = TokenShare(r, sess[r].actual)

NothingTaken(r) == net[r] = [wallet |-> 0, token |-> 0, sub |-> 0]

(* A request that is refused, or that fails and whose refund has run, has  *)
(* cost nothing: not the wallet, the token or the subscription, whichever  *)
(* sources were tried and however far Reserve got (preConsume's rollback,  *)
(* rollbackFundingReserve, Refund).  Image requests are in RefundReturnsAll*)
FailedCostsNothing ==
    failures = 0 => \A r \in Requests \ ImageRequests :
        sess[r].at = "denied" \/ (sess[r].at = "done" /\ ~sess[r].settled) => NothingTaken(r)

(* The same for image requests: Refund "returns all pre-consumed quota"    *)
(* (comments of FundingSource.Refund and BillingSession.Refund).           *)
RefundReturnsAll ==
    failures = 0 => \A r \in ImageRequests :
        sess[r].at = "denied" \/ (sess[r].at = "done" /\ ~sess[r].settled) => NothingTaken(r)

(* Rollbacks and refunds, repeated or failing half-way, never give a       *)
(* request more than it had taken from the wallet and from the token.      *)
NeverOverRefunded ==
    \A r \in Requests : net[r].wallet >= 0 /\ net[r].token >= 0

(* The same for the subscription: RefundSubscriptionPreConsume "is         *)
(* idempotent", so refundWithRetry may repeat it.                          *)
SubscriptionRefundIdempotent ==
    \A r \in Requests : net[r].sub >= 0

(* Competing requests cannot overdraw: a balance is negative by no more    *)
(* than what was taken without a balance check (TryReserveUserQuota,       *)
(* TryReserveTokenQuota; unchecked are debts of Reserve, supplements of    *)
(* Settle and unlimited tokens).                                           *)
NoOverdraft ==
    /\ wallet + walletDebt >= 0
    /\ token + tokenDebt >= 0

(* The usage of a limited subscription stays within its total through      *)
(* competing pre-consumes, top-ups, settlements, resets and refunds.       *)
SubscriptionWithinTotal ==
    SubTotal > 0 => subUsed <= SubTotal

(* Quota held by a request does not stay held: the request is settled, the *)
(* quota is returned, or the process was lost with it (FairSpec).  Image   *)
(* requests and database failures are excepted: see RefundReturnsAll, and  *)
(* refunds that fail are only logged.                                      *)
HeldQuotaResolved ==
    \A r \in Requests \ ImageRequests :
        (sess[r].at \in Running /\ ~NothingTaken(r)) ~>
            \/ sess[r].settled \/ NothingTaken(r)
            \/ sess[r].at \in {"lost", "unsettled"}
            \/ failures > 0

-----------------------------------------------------------------------------
(***************************************************************************)
(* The accounting behind these properties: at every point of the code, how *)
(* the fields of the session account for what the request has taken.  It   *)
(* is inductive (BillingSessionProofs).                                    *)
(***************************************************************************)

BeforeFunding == {"idle", "tryWallet", "preToken", "preFunding", "rollback", "overflow", "denied"}
Reserving     == {"reserveToken", "rollbackReserve"}
Refunding     == {"refundFunding", "refundExtra", "refundToken"}

(* A session is settled or refunded at most once, and only at its end; the *)
(* fields are those of a new session until funding was pre-consumed.       *)
FlagsInv(r, s) ==
    /\ s.settled => s.at = "done" /\ ~s.refunded
    /\ s.at \in BeforeFunding \cup {"open", "failed", "unsettled"} \cup Reserving =>
          ~s.fundingSettled /\ ~s.settled /\ ~s.refunded
    /\ s.at \in {"settleToken", "lost"} \cup Refunding => ~s.settled
    /\ s.at = "settleToken" => r \notin PlaygroundRequests /\ ~s.refunded
    /\ s.at = "tryWallet" => s.source = "wallet"
    /\ s.at = "refundExtra" => s.source = "subscription"
    /\ s.at \in {"preToken", "preFunding"} => s.effective > 0
    /\ s.at \in BeforeFunding =>
          s.preConsumedQuota = 0 /\ s.consumed = 0 /\ s.preConsumed = 0 /\ s.extraReserved = 0
    /\ s.at \in {"idle", "tryWallet", "preToken", "overflow"} => s.tokenConsumed = 0
    /\ s.at = "preFunding" => s.tokenConsumed = s.effective
    /\ s.at \in {"open", "failed", "unsettled", "settleToken"} \cup Reserving =>
          s.tokenConsumed = s.preConsumedQuota
    /\ s.at \in Reserving => s.delta > 0
    /\ s.at = "settleToken" => s.delta = s.actual - s.preConsumedQuota
    /\ s.at \in BeforeFunding \cup {"open", "failed", "unsettled"} \cup Reserving => s.tries = 0
    /\ s.at = "refundFunding" => s.tries < 3
    /\ s.at = "rollback" => r \notin PlaygroundRequests
    /\ s.at \in Refunding => s.refunded
    /\ s.at = "done" => ~NeedsRefund(s)

(* The wallet: preConsumedQuota is what the session holds, and consumed,   *)
(* what a refund returns, never exceeds it.                                *)
WalletInv(r, s, n, fails) ==
    LET held == s.at \in {"open", "failed", "unsettled", "refundFunding"} \cup Reserving IN
    /\ n >= 0
    /\ s.source # "wallet" \/ s.at \in BeforeFunding => n = 0
    /\ s.source = "wallet" =>
          /\ s.at \in {"open", "unsettled"} => n = s.preConsumedQuota
          /\ s.at \in Reserving => n = s.preConsumedQuota + s.delta /\ s.consumed >= s.delta
          /\ held => 0 <= s.consumed /\ s.consumed <= n
          /\ s.settled \/ s.at = "settleToken" => n = s.actual
    /\ s.source = "wallet" /\ r \notin ImageRequests =>
          /\ held => s.consumed = n
          /\ fails = 0 /\ s.at = "failed" => n = s.preConsumedQuota
          /\ fails = 0 /\ (s.at = "refundToken" \/ (s.at = "done" /\ ~s.settled)) => n = 0

(* The token: tokenConsumed, what a refund returns, never exceeds what was *)
(* taken, and is exactly that unless a database operation failed.          *)
TokenInv(r, s, n, fails) ==
    LET share == TokenShare(r, s.tokenConsumed)
        holding == s.at \in {"idle", "unsettled"} \cup Running IN
    /\ n >= 0
    /\ holding => n >= share
    /\ fails = 0 =>
          /\ holding => n = share
          /\ s.settled => n = TokenShare(r, s.actual)
          /\ s.at = "denied" \/ (s.at = "done" /\ ~s.settled) => n = 0

(* The subscription: the request's own record covers the pre-consume, and  *)
(* extraReserved what later Reserves added.                                *)
SubscriptionInv(r, s, n, rec, fails) ==
    LET onSub == s.source = "subscription" IN
    /\ ~onSub \/ s.at \in BeforeFunding => n = 0 /\ s.preConsumed = 0
    /\ s.at \in BeforeFunding \cup {"open", "unsettled"} \cup Reserving => rec # "refunded"
    /\ onSub /\ s.at \in {"open", "failed", "unsettled"} \cup Reserving =>
          s.preConsumed > 0 /\ s.preConsumedQuota = s.preConsumed + s.extraReserved
    /\ onSub /\ s.at \in {"open", "unsettled"} => n = s.preConsumedQuota
    /\ onSub /\ s.at \in Reserving => n = s.preConsumedQuota + s.delta
    /\ onSub /\ (s.settled \/ s.at = "settleToken") => n = s.actual
    /\ onSub /\ fails = 0 =>
          /\ s.at \in {"failed", "refundFunding"} =>
                n = s.preConsumed + s.extraReserved /\ rec # "refunded"
          /\ s.at = "refundExtra" => n = s.extraReserved
          /\ s.at = "refundToken" \/ (s.at = "done" /\ ~s.settled) => n = 0

(* A session s, what its request has taken (n), its record and the number  *)
(* of database failures so far are consistent.                             *)
Accounts(r, s, n, rec, fails) ==
    /\ FlagsInv(r, s)
    /\ WalletInv(r, s, n.wallet, fails)
    /\ TokenInv(r, s, n.token, fails)
    /\ SubscriptionInv(r, s, n.sub, rec, fails)

(* The inductive invariant.                                                *)
Accounting ==
    /\ TypeOK
    /\ SubscriptionWithinTotal
    /\ NoOverdraft
    /\ \A r \in Requests : Accounts(r, sess[r], net[r], record[r], failures)
=============================================================================
