------------------------- MODULE BillingSessionProofs -------------------------
(***************************************************************************)
(* Proofs about BillingSession for any number of requests and any quotas.  *)
(* Accounting is shown to be inductive: every step replaces the session of *)
(* one request by one whose fields account for what the request then       *)
(* holds (UpdateOne), and the properties follow from it.                   *)
(***************************************************************************)
EXTENDS BillingSession, TLAPS

-----------------------------------------------------------------------------
(* Sessions that hold nothing: where a request stands before funding.      *)
Fresh(r, s, n, rec, fails) ==
    /\ ~s.fundingSettled /\ ~s.settled /\ ~s.refunded
    /\ s.preConsumedQuota = 0 /\ s.consumed = 0 /\ s.preConsumed = 0
    /\ s.extraReserved = 0 /\ s.tokenConsumed = 0 /\ s.tries = 0
    /\ n.wallet = 0 /\ n.sub = 0 /\ n.token >= 0
    /\ fails = 0 => n.token = 0
    /\ rec # "refunded"

(* Every database operation fails at most once per step.                   *)
OneFailure(before, after) == after = before \/ after = before + 1

(* A session holding nothing is consistent wherever it stands before       *)
(* funding, provided preConsume starts with a positive amount.             *)
LEMMA FreshAccounts ==
    ASSUME NEW r \in Requests, NEW t \in Session, NEW n \in Net, NEW rec, NEW fails \in Nat,
           Fresh(r, t, n, rec, fails),
           t.at \in {"idle", "tryWallet", "preToken", "overflow", "denied"},
           t.at = "preToken" => t.effective > 0,
           t.at = "tryWallet" => t.source = "wallet"
    PROVE  Accounts(r, t, n, rec, fails)
  <1>1. FlagsInv(r, t)
    BY DEF Fresh, FlagsInv, BeforeFunding, Reserving, Refunding
  <1>2. WalletInv(r, t, n.wallet, fails)
    BY DEF Fresh, WalletInv, Reserving, BeforeFunding
  <1>3. TokenInv(r, t, n.token, fails)
    BY DEF Fresh, TokenInv, TokenShare, Running, Net
  <1>4. SubscriptionInv(r, t, n.sub, rec, fails)
    BY DEF Fresh, SubscriptionInv, BeforeFunding, Reserving
  <1> QED
    BY <1>1, <1>2, <1>3, <1>4 DEF Accounts

(* A further failure does not disturb a consistent session.                *)
LEMMA FailureKeepsAccounts ==
    ASSUME NEW r \in Requests, NEW s \in Session, NEW n \in Net, NEW rec, NEW fails \in Nat,
           Accounts(r, s, n, rec, fails)
    PROVE  Accounts(r, s, n, rec, fails + 1)
  <1>1. fails + 1 # 0
    OBVIOUS
  <1> QED
    BY <1>1 DEF Accounts, FlagsInv, WalletInv, TokenInv, SubscriptionInv

(* trySubscription and tryWallet start from a session that holds nothing.  *)
LEMMA TrySourceFresh ==
    ASSUME NEW r \in Requests, NEW s \in Session, NEW n \in Net, NEW rec, NEW fails \in Nat,
           Fresh(r, s, n, rec, fails)
    PROVE  /\ TrySubscription(s) \in Session /\ Accounts(r, TrySubscription(s), n, rec, fails)
           /\ TryWallet(s) \in Session /\ Accounts(r, TryWallet(s), n, rec, fails)
  <1> DEFINE t == TrySubscription(s)
             w == TryWallet(s)
  <1> DEFINE amount == IF s.quota = 0 THEN 1 ELSE s.quota
  <1>a. amount \in Nat /\ amount > 0
    BY DEF Session
  <1>b. t = [s EXCEPT !.at = "preToken", !.source = "subscription",
                      !.effective = amount, !.trusted = FALSE, !.fallback = FALSE]
    BY DEF TrySubscription
  <1>1. t \in Session /\ Fresh(r, t, n, rec, fails) /\ t.at = "preToken" /\ t.effective > 0
    <2> HIDE DEF t, amount
    <2> QED BY <1>a, <1>b DEF Session, Fresh, Running
  <1>2. w \in Session /\ Fresh(r, w, n, rec, fails) /\ w.at = "tryWallet" /\ w.source = "wallet"
    BY DEF Session, TryWallet, Fresh, Running
  <1>3. Accounts(r, t, n, rec, fails)
    <2> HIDE DEF t
    <2> QED BY <1>1, FreshAccounts
  <1>4. Accounts(r, w, n, rec, fails)
    <2> HIDE DEF w
    <2> QED BY <1>2, FreshAccounts
  <1> QED
    BY <1>1, <1>2, <1>3, <1>4

(* ... and so is one that is refused, or that asks whether it may use the  *)
(* wallet.                                                                 *)
LEMMA StopFresh ==
    ASSUME NEW r \in Requests, NEW s \in Session, NEW n \in Net, NEW rec, NEW fails \in Nat,
           Fresh(r, s, n, rec, fails), NEW where \in {"denied", "overflow"}
    PROVE  /\ [s EXCEPT !.at = where] \in Session
           /\ Accounts(r, [s EXCEPT !.at = where], n, rec, fails)
  <1> DEFINE t == [s EXCEPT !.at = where]
  <1>1. t \in Session /\ Fresh(r, t, n, rec, fails) /\ t.at \in {"denied", "overflow"}
    BY DEF Session, Fresh, Running, Terminal
  <1>2. Accounts(r, t, n, rec, fails)
    <2> HIDE DEF t
    <2> QED BY <1>1, FreshAccounts
  <1> QED
    BY <1>1, <1>2

(* Whatever a failed attempt falls back to, the session holds nothing.     *)
LEMMA NextSourceFresh ==
    ASSUME NEW r \in Requests, NEW s \in Session, NEW n \in Net, NEW rec, NEW fails \in Nat,
           Fresh(r, s, n, rec, fails)
    PROVE  NextSource(s) \in Session /\ Accounts(r, NextSource(s), n, rec, fails)
  BY TrySourceFresh, StopFresh DEF NextSource

(* The balances have their types and bounds.                               *)
Balances ==
    /\ wallet \in Int /\ token \in Int /\ subUsed \in Nat
    /\ subActive \in BOOLEAN /\ resetDue \in BOOLEAN
    /\ walletDebt \in Nat /\ tokenDebt \in Nat /\ resets \in Nat
    /\ NoOverdraft /\ SubscriptionWithinTotal

(* What Accounting says of one request.                                    *)
LEMMA Context ==
    ASSUME Accounting, NEW r \in Requests
    PROVE  /\ sess[r] \in Session /\ net[r] \in Net /\ failures \in Nat
           /\ record[r] \in {"none", "consumed", "refunded"}
           /\ Accounts(r, sess[r], net[r], record[r], failures)
           /\ sess \in [Requests -> Session] /\ net \in [Requests -> Net]
           /\ record = [record EXCEPT ![r] = record[r]]
           /\ net = [net EXCEPT ![r] = net[r]]
           /\ Balances
  BY DEF Accounting, TypeOK, Balances

(* The step gives request r the session t, the holding m and the record    *)
(* rec, and leaves the other requests alone.                               *)
Moves(r, t, m, rec) ==
    /\ sess' = [sess EXCEPT ![r] = t]
    /\ net' = [net EXCEPT ![r] = m]
    /\ record' = [record EXCEPT ![r] = rec]

(* A step that replaces one session by a consistent one, and the balances  *)
(* by typed ones within their bounds, preserves Accounting.                *)
LEMMA UpdateOne ==
    ASSUME Accounting, NEW r \in Requests,
           NEW t \in Session, NEW m \in Net, NEW rec \in {"none", "consumed", "refunded"},
           Moves(r, t, m, rec),
           OneFailure(failures, failures'),
           Accounts(r, t, m, rec, failures'),
           Balances'
    PROVE  Accounting'
  <1>1. TypeOK'
    BY DEF Accounting, TypeOK, OneFailure, Balances, Moves
  <1>2. ASSUME NEW q \in Requests
        PROVE  Accounts(q, sess'[q], net'[q], record'[q], failures')
    <2>1. CASE q = r
      BY <2>1 DEF Accounting, TypeOK, Moves
    <2>2. CASE q # r
      <3>1. sess'[q] = sess[q] /\ net'[q] = net[q] /\ record'[q] = record[q]
        BY <2>2 DEF Accounting, TypeOK, Moves
      <3>2. Accounts(q, sess[q], net[q], record[q], failures) /\ failures \in Nat
            /\ sess[q] \in Session /\ net[q] \in Net
        BY DEF Accounting, TypeOK
      <3>3. Accounts(q, sess[q], net[q], record[q], failures + 1)
        BY <3>2, FailureKeepsAccounts
      <3> QED
        BY <3>1, <3>2, <3>3 DEF OneFailure
    <2> QED
      BY <2>1, <2>2
  <1> QED
    BY <1>1, <1>2 DEF Accounting, Balances


-----------------------------------------------------------------------------
(* The transitions of one session, each with what it moves.                *)

(* Before the token is charged the session holds nothing.                  *)
LEMMA FreshBefore ==
    ASSUME NEW r \in Requests, NEW s \in Session, NEW n \in Net, NEW rec, NEW fails \in Nat,
           Accounts(r, s, n, rec, fails),
           s.at \in {"idle", "tryWallet", "preToken", "overflow"}
    PROVE  Fresh(r, s, n, rec, fails)
  BY DEF Fresh, Accounts, FlagsInv, WalletInv, TokenInv, SubscriptionInv, BeforeFunding,
         Running, Session, TokenShare

(* A trusted session opens holding nothing. *)
LEMMA OpenTrusted ==
    ASSUME NEW r \in Requests, NEW s \in Session, NEW n \in Net, NEW rec, NEW fails \in Nat,
           Accounts(r, s, n, rec, fails),
           s.at = "tryWallet"
    PROVE  /\ [s EXCEPT !.at = "open", !.effective = 0, !.trusted = TRUE] \in Session
           /\ n \in Net
           /\ Accounts(r, [s EXCEPT !.at = "open", !.effective = 0, !.trusted = TRUE], n, rec,
                 fails)
  <1> DEFINE t == [s EXCEPT !.at = "open", !.effective = 0, !.trusted = TRUE]
             m == n
  <1>1. t \in Session
    BY DEF Session, Running, Terminal
  <1>2. m \in Net
    BY DEF Net, Session
  <1>3. FlagsInv(r, t)
    BY DEF Accounts, FlagsInv, Session, BeforeFunding, Reserving, Refunding
  <1>4. WalletInv(r, t, m.wallet, fails)
    BY DEF Accounts, FlagsInv, Session, BeforeFunding, Reserving, Refunding, Net, WalletInv
  <1>5. TokenInv(r, t, m.token, fails)
    BY DEF Accounts, FlagsInv, Session, BeforeFunding, Reserving, Refunding, Net, TokenInv,
       TokenShare, Running
  <1>6. SubscriptionInv(r, t, m.sub, rec, fails)
    BY DEF Accounts, FlagsInv, Session, BeforeFunding, Reserving, Refunding, Net, SubscriptionInv
  <1> QED
    BY <1>1, <1>2, <1>3, <1>4, <1>5, <1>6 DEF Accounts

(* So does one whose estimate is zero. *)
LEMMA OpenFree ==
    ASSUME NEW r \in Requests, NEW s \in Session, NEW n \in Net, NEW rec, NEW fails \in Nat,
           Accounts(r, s, n, rec, fails),
           s.at = "tryWallet"
    PROVE  /\ [s EXCEPT !.at = "open", !.effective = 0] \in Session
           /\ n \in Net
           /\ Accounts(r, [s EXCEPT !.at = "open", !.effective = 0], n, rec, fails)
  <1> DEFINE t == [s EXCEPT !.at = "open", !.effective = 0]
             m == n
  <1>1. t \in Session
    BY DEF Session, Running, Terminal
  <1>2. m \in Net
    BY DEF Net, Session
  <1>3. FlagsInv(r, t)
    BY DEF Accounts, FlagsInv, Session, BeforeFunding, Reserving, Refunding
  <1>4. WalletInv(r, t, m.wallet, fails)
    BY DEF Accounts, FlagsInv, Session, BeforeFunding, Reserving, Refunding, Net, WalletInv
  <1>5. TokenInv(r, t, m.token, fails)
    BY DEF Accounts, FlagsInv, Session, BeforeFunding, Reserving, Refunding, Net, TokenInv,
       TokenShare, Running
  <1>6. SubscriptionInv(r, t, m.sub, rec, fails)
    BY DEF Accounts, FlagsInv, Session, BeforeFunding, Reserving, Refunding, Net, SubscriptionInv
  <1> QED
    BY <1>1, <1>2, <1>3, <1>4, <1>5, <1>6 DEF Accounts

(* Otherwise preConsume starts with the estimate. *)
LEMMA StartPreConsume ==
    ASSUME NEW r \in Requests, NEW s \in Session, NEW n \in Net, NEW rec, NEW fails \in Nat,
           Accounts(r, s, n, rec, fails),
           s.at = "tryWallet", s.quota # 0
    PROVE  /\ [s EXCEPT !.at = "preToken", !.effective = s.quota] \in Session
           /\ n \in Net
           /\ Accounts(r, [s EXCEPT !.at = "preToken", !.effective = s.quota], n, rec, fails)
  <1> DEFINE t == [s EXCEPT !.at = "preToken", !.effective = s.quota]
             m == n
  <1>1. t \in Session
    BY DEF Session, Running, Terminal
  <1>2. m \in Net
    BY DEF Net, Session
  <1>3. FlagsInv(r, t)
    BY DEF Accounts, FlagsInv, Session, BeforeFunding, Reserving, Refunding
  <1>4. WalletInv(r, t, m.wallet, fails)
    BY DEF Accounts, FlagsInv, Session, BeforeFunding, Reserving, Refunding, Net, WalletInv
  <1>5. TokenInv(r, t, m.token, fails)
    BY DEF Accounts, FlagsInv, Session, BeforeFunding, Reserving, Refunding, Net, TokenInv,
       TokenShare, Running
  <1>6. SubscriptionInv(r, t, m.sub, rec, fails)
    BY DEF Accounts, FlagsInv, Session, BeforeFunding, Reserving, Refunding, Net, SubscriptionInv
  <1> QED
    BY <1>1, <1>2, <1>3, <1>4, <1>5, <1>6 DEF Accounts

(* The token is charged its share. *)
LEMMA TokenTaken ==
    ASSUME NEW r \in Requests, NEW s \in Session, NEW n \in Net, NEW rec, NEW fails \in Nat,
           Accounts(r, s, n, rec, fails),
           s.at = "preToken"
    PROVE  /\ [s EXCEPT !.at = "preFunding", !.tokenConsumed = s.effective] \in Session
           /\ [n EXCEPT !.token = @ + TokenShare(r, s.effective)] \in Net
           /\ Accounts(r, [s EXCEPT !.at = "preFunding", !.tokenConsumed = s.effective],
                 [n EXCEPT !.token = @ + TokenShare(r, s.effective)], rec, fails)
  <1> DEFINE t == [s EXCEPT !.at = "preFunding", !.tokenConsumed = s.effective]
             m == [n EXCEPT !.token = @ + TokenShare(r, s.effective)]
  <1>1. t \in Session
    BY DEF Session, Running, Terminal, TokenShare
  <1>2. m \in Net
    BY DEF Net, Session, TokenShare
  <1>3. FlagsInv(r, t)
    BY DEF Accounts, FlagsInv, Session, BeforeFunding, Reserving, Refunding, TokenShare
  <1>4. WalletInv(r, t, m.wallet, fails)
    BY DEF Accounts, FlagsInv, Session, BeforeFunding, Reserving, Refunding, TokenShare, Net,
       WalletInv
  <1>5. TokenInv(r, t, m.token, fails)
    BY DEF Accounts, FlagsInv, Session, BeforeFunding, Reserving, Refunding, TokenShare, Net,
       TokenInv, TokenShare, Running
  <1>6. SubscriptionInv(r, t, m.sub, rec, fails)
    BY DEF Accounts, FlagsInv, Session, BeforeFunding, Reserving, Refunding, TokenShare, Net,
       SubscriptionInv
  <1> QED
    BY <1>1, <1>2, <1>3, <1>4, <1>5, <1>6 DEF Accounts

(* The wallet is charged. *)
LEMMA WalletTaken ==
    ASSUME NEW r \in Requests, NEW s \in Session, NEW n \in Net, NEW rec, NEW fails \in Nat,
           Accounts(r, s, n, rec, fails),
           s.at = "preFunding", s.source = "wallet"
    PROVE  /\ [s EXCEPT !.at = "open", !.consumed = s.effective,
                !.preConsumedQuota = s.effective] \in Session
           /\ [n EXCEPT !.wallet = @ + s.effective] \in Net
           /\ Accounts(r, [s EXCEPT !.at = "open", !.consumed = s.effective,
                 !.preConsumedQuota = s.effective], [n EXCEPT !.wallet = @ + s.effective], rec,
                 fails)
  <1> DEFINE t == [s EXCEPT !.at = "open", !.consumed = s.effective,
                !.preConsumedQuota = s.effective]
             m == [n EXCEPT !.wallet = @ + s.effective]
  <1>0. s.effective \in Int /\ s.effective \in Nat
    BY DEF Session
  <1>1. t \in Session
    BY <1>0 DEF Session, Running, Terminal
  <1>2. m \in Net
    BY DEF Net, Session
  <1>3. FlagsInv(r, t)
    BY DEF Accounts, FlagsInv, Session, BeforeFunding, Reserving, Refunding
  <1>4. WalletInv(r, t, m.wallet, fails)
    BY DEF Accounts, FlagsInv, Session, BeforeFunding, Reserving, Refunding, Net, WalletInv
  <1>5. TokenInv(r, t, m.token, fails)
    BY DEF Accounts, FlagsInv, Session, BeforeFunding, Reserving, Refunding, Net, TokenInv,
       TokenShare, Running
  <1>6. SubscriptionInv(r, t, m.sub, rec, fails)
    BY DEF Accounts, FlagsInv, Session, BeforeFunding, Reserving, Refunding, Net, SubscriptionInv
  <1> QED
    BY <1>1, <1>2, <1>3, <1>4, <1>5, <1>6 DEF Accounts

(* The subscription is charged and the record written. *)
LEMMA SubscriptionTaken ==
    ASSUME NEW r \in Requests, NEW s \in Session, NEW n \in Net, NEW rec, NEW fails \in Nat,
           Accounts(r, s, n, rec, fails),
           s.at = "preFunding", s.source = "subscription"
    PROVE  /\ [s EXCEPT !.at = "open", !.preConsumed = s.effective,
                !.preConsumedQuota = s.effective] \in Session
           /\ [n EXCEPT !.sub = @ + s.effective] \in Net
           /\ Accounts(r, [s EXCEPT !.at = "open", !.preConsumed = s.effective,
                 !.preConsumedQuota = s.effective], [n EXCEPT !.sub = @ + s.effective],
                 "consumed", fails)
  <1> DEFINE t == [s EXCEPT !.at = "open", !.preConsumed = s.effective,
                !.preConsumedQuota = s.effective]
             m == [n EXCEPT !.sub = @ + s.effective]
  <1>1. t \in Session
    BY DEF Session, Running, Terminal
  <1>2. m \in Net
    BY DEF Net, Session
  <1>3. FlagsInv(r, t)
    BY DEF Accounts, FlagsInv, Session, BeforeFunding, Reserving, Refunding
  <1>4. WalletInv(r, t, m.wallet, fails)
    BY DEF Accounts, FlagsInv, Session, BeforeFunding, Reserving, Refunding, Net, WalletInv
  <1>5. TokenInv(r, t, m.token, fails)
    BY DEF Accounts, FlagsInv, Session, BeforeFunding, Reserving, Refunding, Net, TokenInv,
       TokenShare, Running
  <1>6. SubscriptionInv(r, t, m.sub, "consumed", fails)
    BY DEF Accounts, FlagsInv, Session, BeforeFunding, Reserving, Refunding, Net, SubscriptionInv
  <1> QED
    BY <1>1, <1>2, <1>3, <1>4, <1>5, <1>6 DEF Accounts

(* Funding refused: the token is to be rolled back. *)
LEMMA RollbackNeeded ==
    ASSUME NEW r \in Requests, NEW s \in Session, NEW n \in Net, NEW rec, NEW fails \in Nat,
           Accounts(r, s, n, rec, fails),
           s.at = "preFunding", r \notin PlaygroundRequests, NEW b \in BOOLEAN
    PROVE  /\ [[s EXCEPT !.fallback = b] EXCEPT !.at = "rollback"] \in Session
           /\ n \in Net
           /\ Accounts(r, [[s EXCEPT !.fallback = b] EXCEPT !.at = "rollback"], n, rec, fails)
  <1> DEFINE t == [[s EXCEPT !.fallback = b] EXCEPT !.at = "rollback"]
             m == n
  <1>1. t \in Session
    BY DEF Session, Running, Terminal
  <1>2. m \in Net
    BY DEF Net, Session
  <1>3. FlagsInv(r, t)
    BY DEF Accounts, FlagsInv, Session, BeforeFunding, Reserving, Refunding
  <1>4. WalletInv(r, t, m.wallet, fails)
    BY DEF Accounts, FlagsInv, Session, BeforeFunding, Reserving, Refunding, Net, WalletInv
  <1>5. TokenInv(r, t, m.token, fails)
    BY DEF Accounts, FlagsInv, Session, BeforeFunding, Reserving, Refunding, Net, TokenInv,
       TokenShare, Running
  <1>6. SubscriptionInv(r, t, m.sub, rec, fails)
    BY DEF Accounts, FlagsInv, Session, BeforeFunding, Reserving, Refunding, Net, SubscriptionInv
  <1> QED
    BY <1>1, <1>2, <1>3, <1>4, <1>5, <1>6 DEF Accounts

(* Reserve on a wallet; consumed stays within what is held. *)
LEMMA WalletReserved ==
    ASSUME NEW r \in Requests, NEW s \in Session, NEW n \in Net, NEW rec, NEW fails \in Nat,
           Accounts(r, s, n, rec, fails),
           s.at = "open", s.source = "wallet", NEW delta \in Nat \ {0}
    PROVE  /\ [ReserveNext(r, s, delta) EXCEPT !.consumed = ConsumedAfter(r, s,
                delta)] \in Session
           /\ [n EXCEPT !.wallet = @ + delta] \in Net
           /\ Accounts(r, [ReserveNext(r, s, delta) EXCEPT !.consumed = ConsumedAfter(r, s,
                 delta)], [n EXCEPT !.wallet = @ + delta], rec, fails)
  <1> DEFINE t == [ReserveNext(r, s, delta) EXCEPT !.consumed = ConsumedAfter(r, s, delta)]
             m == [n EXCEPT !.wallet = @ + delta]
  <1>0. delta \in Int /\ s.reserves + 1 \in Nat /\ ConsumedAfter(r, s, delta) \in Int
    BY DEF Session, ConsumedAfter
  <1>1. t \in Session
    BY <1>0 DEF Session, Running, Terminal, ReserveNext, ConsumedAfter
  <1>2. m \in Net
    BY DEF Net, Session, ReserveNext, ConsumedAfter
  <1>3. FlagsInv(r, t)
    BY DEF Accounts, FlagsInv, Session, BeforeFunding, Reserving, Refunding, ReserveNext,
       ConsumedAfter
  <1>4. WalletInv(r, t, m.wallet, fails)
    BY DEF Accounts, FlagsInv, Session, BeforeFunding, Reserving, Refunding, ReserveNext,
       ConsumedAfter, Net, WalletInv
  <1>5. TokenInv(r, t, m.token, fails)
    BY DEF Accounts, FlagsInv, Session, BeforeFunding, Reserving, Refunding, ReserveNext,
       ConsumedAfter, Net, TokenInv, TokenShare, Running
  <1>6. SubscriptionInv(r, t, m.sub, rec, fails)
    BY DEF Accounts, FlagsInv, Session, BeforeFunding, Reserving, Refunding, ReserveNext,
       ConsumedAfter, Net, SubscriptionInv
  <1> QED
    BY <1>1, <1>2, <1>3, <1>4, <1>5, <1>6 DEF Accounts

(* Reserve on a subscription. *)
LEMMA SubscriptionReserved ==
    ASSUME NEW r \in Requests, NEW s \in Session, NEW n \in Net, NEW rec, NEW fails \in Nat,
           Accounts(r, s, n, rec, fails),
           s.at = "open", s.source = "subscription", NEW delta \in Nat \ {0}
    PROVE  /\ ReserveNext(r, s, delta) \in Session
           /\ [n EXCEPT !.sub = @ + delta] \in Net
           /\ Accounts(r, ReserveNext(r, s, delta), [n EXCEPT !.sub = @ + delta], rec, fails)
  <1> DEFINE t == ReserveNext(r, s, delta)
             m == [n EXCEPT !.sub = @ + delta]
  <1>0. delta \in Int /\ s.reserves + 1 \in Nat
    BY DEF Session
  <1>1. t \in Session
    BY <1>0 DEF Session, Running, Terminal, ReserveNext
  <1>2. m \in Net
    BY DEF Net, Session, ReserveNext
  <1>3. FlagsInv(r, t)
    BY DEF Accounts, FlagsInv, Session, BeforeFunding, Reserving, Refunding, ReserveNext
  <1>4. WalletInv(r, t, m.wallet, fails)
    BY DEF Accounts, FlagsInv, Session, BeforeFunding, Reserving, Refunding, ReserveNext, Net,
       WalletInv
  <1>5. TokenInv(r, t, m.token, fails)
    BY DEF Accounts, FlagsInv, Session, BeforeFunding, Reserving, Refunding, ReserveNext, Net,
       TokenInv, TokenShare, Running
  <1>6. SubscriptionInv(r, t, m.sub, rec, fails)
    BY DEF Accounts, FlagsInv, Session, BeforeFunding, Reserving, Refunding, ReserveNext, Net,
       SubscriptionInv
  <1> QED
    BY <1>1, <1>2, <1>3, <1>4, <1>5, <1>6 DEF Accounts

(* Reserve refused before anything moved. *)
LEMMA ReserveRefused ==
    ASSUME NEW r \in Requests, NEW s \in Session, NEW n \in Net, NEW rec, NEW fails \in Nat,
           Accounts(r, s, n, rec, fails),
           s.at = "open"
    PROVE  /\ ReserveFailed(s) \in Session
           /\ n \in Net
           /\ Accounts(r, ReserveFailed(s), n, rec, fails)
  <1> DEFINE t == ReserveFailed(s)
             m == n
  <1>0. s.reserves + 1 \in Nat
    BY DEF Session
  <1>1. t \in Session
    BY <1>0 DEF Session, Running, Terminal, ReserveFailed
  <1>2. m \in Net
    BY DEF Net, Session, ReserveFailed
  <1>3. FlagsInv(r, t)
    BY DEF Accounts, FlagsInv, Session, BeforeFunding, Reserving, Refunding, ReserveFailed
  <1>4. WalletInv(r, t, m.wallet, fails)
    BY DEF Accounts, FlagsInv, Session, BeforeFunding, Reserving, Refunding, ReserveFailed, Net,
       WalletInv
  <1>5. TokenInv(r, t, m.token, fails)
    BY DEF Accounts, FlagsInv, Session, BeforeFunding, Reserving, Refunding, ReserveFailed, Net,
       TokenInv, TokenShare, Running
  <1>6. SubscriptionInv(r, t, m.sub, rec, fails)
    BY DEF Accounts, FlagsInv, Session, BeforeFunding, Reserving, Refunding, ReserveFailed, Net,
       SubscriptionInv
  <1> QED
    BY <1>1, <1>2, <1>3, <1>4, <1>5, <1>6 DEF Accounts

(* Reserve completes with the token. *)
LEMMA ReserveDone ==
    ASSUME NEW r \in Requests, NEW s \in Session, NEW n \in Net, NEW rec, NEW fails \in Nat,
           Accounts(r, s, n, rec, fails),
           s.at = "reserveToken"
    PROVE  /\ Reserved(r, s) \in Session
           /\ [n EXCEPT !.token = @ + TokenShare(r, s.delta)] \in Net
           /\ Accounts(r, Reserved(r, s), [n EXCEPT !.token = @ + TokenShare(r, s.delta)], rec,
                 fails)
  <1> DEFINE t == Reserved(r, s)
             m == [n EXCEPT !.token = @ + TokenShare(r, s.delta)]
  <1>0. s.preConsumedQuota + s.delta \in Nat /\ s.tokenConsumed + s.delta \in Nat
                /\ s.extraReserved + s.delta \in Nat
    BY DEF Session, FlagsInv, Accounts, Reserving, Refunding
  <1>1. t \in Session
    BY <1>0 DEF Session, Running, Terminal, TokenShare, Reserved
  <1>2. m \in Net
    BY DEF Net, Session, TokenShare, Reserved
  <1>3. FlagsInv(r, t)
    BY DEF Accounts, FlagsInv, Session, BeforeFunding, Reserving, Refunding, TokenShare, Reserved
  <1>4. WalletInv(r, t, m.wallet, fails)
    BY DEF Accounts, FlagsInv, Session, BeforeFunding, Reserving, Refunding, TokenShare,
       Reserved, Net, WalletInv
  <1>5. TokenInv(r, t, m.token, fails)
    BY DEF Accounts, FlagsInv, Session, BeforeFunding, Reserving, Refunding, TokenShare,
       Reserved, Net, TokenInv, TokenShare, Running
  <1>6. SubscriptionInv(r, t, m.sub, rec, fails)
    BY DEF Accounts, FlagsInv, Session, BeforeFunding, Reserving, Refunding, TokenShare,
       Reserved, Net, SubscriptionInv
  <1> QED
    BY <1>1, <1>2, <1>3, <1>4, <1>5, <1>6 DEF Accounts

(* The token refuses: funding is to be rolled back. *)
LEMMA ReserveTokenRefused ==
    ASSUME NEW r \in Requests, NEW s \in Session, NEW n \in Net, NEW rec, NEW fails \in Nat,
           Accounts(r, s, n, rec, fails),
           s.at = "reserveToken"
    PROVE  /\ [s EXCEPT !.at = "rollbackReserve"] \in Session
           /\ n \in Net
           /\ Accounts(r, [s EXCEPT !.at = "rollbackReserve"], n, rec, fails)
  <1> DEFINE t == [s EXCEPT !.at = "rollbackReserve"]
             m == n
  <1>1. t \in Session
    BY DEF Session, Running, Terminal
  <1>2. m \in Net
    BY DEF Net, Session
  <1>3. FlagsInv(r, t)
    BY DEF Accounts, FlagsInv, Session, BeforeFunding, Reserving, Refunding
  <1>4. WalletInv(r, t, m.wallet, fails)
    BY DEF Accounts, FlagsInv, Session, BeforeFunding, Reserving, Refunding, Net, WalletInv
  <1>5. TokenInv(r, t, m.token, fails)
    BY DEF Accounts, FlagsInv, Session, BeforeFunding, Reserving, Refunding, Net, TokenInv,
       TokenShare, Running
  <1>6. SubscriptionInv(r, t, m.sub, rec, fails)
    BY DEF Accounts, FlagsInv, Session, BeforeFunding, Reserving, Refunding, Net, SubscriptionInv
  <1> QED
    BY <1>1, <1>2, <1>3, <1>4, <1>5, <1>6 DEF Accounts

(* The wallet part of a Reserve is rolled back. *)
LEMMA WalletRolledBack ==
    ASSUME NEW r \in Requests, NEW s \in Session, NEW n \in Net, NEW rec, NEW fails \in Nat,
           Accounts(r, s, n, rec, fails),
           s.at = "rollbackReserve", s.source = "wallet"
    PROVE  /\ RolledBack(s) \in Session
           /\ [n EXCEPT !.wallet = @ + (-s.delta)] \in Net
           /\ Accounts(r, RolledBack(s), [n EXCEPT !.wallet = @ + (-s.delta)], rec, fails)
  <1> DEFINE t == RolledBack(s)
             m == [n EXCEPT !.wallet = @ + (-s.delta)]
  <1>0. s.consumed - s.delta \in Int
    BY DEF Session
  <1>1. t \in Session
    BY <1>0 DEF Session, Running, Terminal, RolledBack
  <1>2. m \in Net
    BY DEF Net, Session, RolledBack
  <1>3. FlagsInv(r, t)
    BY DEF Accounts, FlagsInv, Session, BeforeFunding, Reserving, Refunding, RolledBack
  <1>4. WalletInv(r, t, m.wallet, fails)
    BY DEF Accounts, FlagsInv, Session, BeforeFunding, Reserving, Refunding, RolledBack, Net,
       WalletInv
  <1>5. TokenInv(r, t, m.token, fails)
    BY DEF Accounts, FlagsInv, Session, BeforeFunding, Reserving, Refunding, RolledBack, Net,
       TokenInv, TokenShare, Running
  <1>6. SubscriptionInv(r, t, m.sub, rec, fails)
    BY DEF Accounts, FlagsInv, Session, BeforeFunding, Reserving, Refunding, RolledBack, Net,
       SubscriptionInv
  <1> QED
    BY <1>1, <1>2, <1>3, <1>4, <1>5, <1>6 DEF Accounts

(* The subscription part of a Reserve is rolled back. *)
LEMMA SubscriptionRolledBack ==
    ASSUME NEW r \in Requests, NEW s \in Session, NEW n \in Net, NEW rec, NEW fails \in Nat,
           Accounts(r, s, n, rec, fails),
           s.at = "rollbackReserve", s.source # "wallet"
    PROVE  /\ [s EXCEPT !.at = "failed"] \in Session
           /\ [n EXCEPT !.sub = @ - s.delta] \in Net
           /\ Accounts(r, [s EXCEPT !.at = "failed"], [n EXCEPT !.sub = @ - s.delta], rec, fails)
  <1> DEFINE t == [s EXCEPT !.at = "failed"]
             m == [n EXCEPT !.sub = @ - s.delta]
  <1>1. t \in Session
    BY DEF Session, Running, Terminal
  <1>2. m \in Net
    BY DEF Net, Session
  <1>3. FlagsInv(r, t)
    BY DEF Accounts, FlagsInv, Session, BeforeFunding, Reserving, Refunding
  <1>4. WalletInv(r, t, m.wallet, fails)
    BY DEF Accounts, FlagsInv, Session, BeforeFunding, Reserving, Refunding, Net, WalletInv
  <1>5. TokenInv(r, t, m.token, fails)
    BY DEF Accounts, FlagsInv, Session, BeforeFunding, Reserving, Refunding, Net, TokenInv,
       TokenShare, Running
  <1>6. SubscriptionInv(r, t, m.sub, rec, fails)
    BY DEF Accounts, FlagsInv, Session, BeforeFunding, Reserving, Refunding, Net, SubscriptionInv
  <1> QED
    BY <1>1, <1>2, <1>3, <1>4, <1>5, <1>6 DEF Accounts

(* The rollback of a Reserve fails. *)
LEMMA RollbackLost ==
    ASSUME NEW r \in Requests, NEW s \in Session, NEW n \in Net, NEW rec, NEW fails \in Nat,
           Accounts(r, s, n, rec, fails),
           s.at = "rollbackReserve"
    PROVE  /\ [s EXCEPT !.at = "failed"] \in Session
           /\ n \in Net
           /\ Accounts(r, [s EXCEPT !.at = "failed"], n, rec, fails + 1)
  <1> DEFINE t == [s EXCEPT !.at = "failed"]
             m == n
  <1>1. t \in Session
    BY DEF Session, Running, Terminal
  <1>2. m \in Net
    BY DEF Net, Session
  <1>3. FlagsInv(r, t)
    BY DEF Accounts, FlagsInv, Session, BeforeFunding, Reserving, Refunding
  <1>4. WalletInv(r, t, m.wallet, fails + 1)
    BY DEF Accounts, FlagsInv, Session, BeforeFunding, Reserving, Refunding, Net, WalletInv
  <1>5. TokenInv(r, t, m.token, fails + 1)
    BY DEF Accounts, FlagsInv, Session, BeforeFunding, Reserving, Refunding, Net, TokenInv,
       TokenShare, Running
  <1>6. SubscriptionInv(r, t, m.sub, rec, fails + 1)
    BY DEF Accounts, FlagsInv, Session, BeforeFunding, Reserving, Refunding, Net, SubscriptionInv
  <1> QED
    BY <1>1, <1>2, <1>3, <1>4, <1>5, <1>6 DEF Accounts

(* The request cost what was reserved. *)
LEMMA SettledAtEstimate ==
    ASSUME NEW r \in Requests, NEW s \in Session, NEW n \in Net, NEW rec, NEW fails \in Nat,
           Accounts(r, s, n, rec, fails),
           s.at = "open", NEW actual \in Nat, actual = s.preConsumedQuota
    PROVE  /\ [[s EXCEPT !.actual = actual, !.delta = actual - s.preConsumedQuota]
                EXCEPT !.at = "done", !.settled = TRUE] \in Session
           /\ n \in Net
           /\ Accounts(r, [[s EXCEPT !.actual = actual,
                 !.delta = actual - s.preConsumedQuota] EXCEPT !.at = "done", !.settled = TRUE],
                 n, rec, fails)
  <1> DEFINE t == [[s EXCEPT !.actual = actual, !.delta = actual - s.preConsumedQuota]
                EXCEPT !.at = "done", !.settled = TRUE]
             m == n
  <1>0. actual - s.preConsumedQuota \in Int
    BY DEF Session
  <1>1. t \in Session
    BY <1>0 DEF Session, Running, Terminal
  <1>2. m \in Net
    BY DEF Net, Session
  <1>3. FlagsInv(r, t)
    BY DEF Accounts, FlagsInv, Session, BeforeFunding, Reserving, Refunding, NeedsRefund
  <1>4. WalletInv(r, t, m.wallet, fails)
    BY DEF Accounts, FlagsInv, Session, BeforeFunding, Reserving, Refunding, Net, WalletInv
  <1>5. TokenInv(r, t, m.token, fails)
    BY DEF Accounts, FlagsInv, Session, BeforeFunding, Reserving, Refunding, Net, TokenInv,
       TokenShare, Running
  <1>6. SubscriptionInv(r, t, m.sub, rec, fails)
    BY DEF Accounts, FlagsInv, Session, BeforeFunding, Reserving, Refunding, Net, SubscriptionInv
  <1> QED
    BY <1>1, <1>2, <1>3, <1>4, <1>5, <1>6 DEF Accounts

(* The wallet pays the difference. *)
LEMMA WalletSettled ==
    ASSUME NEW r \in Requests, NEW s \in Session, NEW n \in Net, NEW rec, NEW fails \in Nat,
           Accounts(r, s, n, rec, fails),
           s.at = "open", s.source = "wallet", NEW actual \in Nat
    PROVE  /\ SettleNext(r, [s EXCEPT !.actual = actual,
                !.delta = actual - s.preConsumedQuota]) \in Session
           /\ [n EXCEPT !.wallet = @ + (actual - s.preConsumedQuota)] \in Net
           /\ Accounts(r, SettleNext(r, [s EXCEPT !.actual = actual,
                 !.delta = actual - s.preConsumedQuota]), [n
                 EXCEPT !.wallet = @ + (actual - s.preConsumedQuota)], rec, fails)
  <1> DEFINE t == SettleNext(r, [s EXCEPT !.actual = actual,
                !.delta = actual - s.preConsumedQuota])
             m == [n EXCEPT !.wallet = @ + (actual - s.preConsumedQuota)]
  <1>0. actual - s.preConsumedQuota \in Int
    BY DEF Session
  <1>1. t \in Session
    BY ZenonT(40), <1>0 DEF Session, Running, Terminal, SettleNext
  <1>2. m \in Net
    BY DEF Net, Session, SettleNext
  <1>3. FlagsInv(r, t)
    BY DEF Accounts, FlagsInv, Session, BeforeFunding, Reserving, Refunding, SettleNext, NeedsRefund
  <1>4. WalletInv(r, t, m.wallet, fails)
    BY DEF Accounts, FlagsInv, Session, BeforeFunding, Reserving, Refunding, SettleNext, Net,
       WalletInv
  <1>5. TokenInv(r, t, m.token, fails)
    BY DEF Accounts, FlagsInv, Session, BeforeFunding, Reserving, Refunding, SettleNext, Net,
       TokenInv, TokenShare, Running
  <1>6. SubscriptionInv(r, t, m.sub, rec, fails)
    BY DEF Accounts, FlagsInv, Session, BeforeFunding, Reserving, Refunding, SettleNext, Net,
       SubscriptionInv
  <1> QED
    BY <1>1, <1>2, <1>3, <1>4, <1>5, <1>6 DEF Accounts

(* The subscription pays the difference. *)
LEMMA SubscriptionSettled ==
    ASSUME NEW r \in Requests, NEW s \in Session, NEW n \in Net, NEW rec, NEW fails \in Nat,
           Accounts(r, s, n, rec, fails),
           s.at = "open", s.source = "subscription", NEW actual \in Nat
    PROVE  /\ SettleNext(r, [s EXCEPT !.actual = actual,
                !.delta = actual - s.preConsumedQuota]) \in Session
           /\ [n EXCEPT !.sub = @ + (actual - s.preConsumedQuota)] \in Net
           /\ Accounts(r, SettleNext(r, [s EXCEPT !.actual = actual,
                 !.delta = actual - s.preConsumedQuota]), [n
                 EXCEPT !.sub = @ + (actual - s.preConsumedQuota)], rec, fails)
  <1> DEFINE t == SettleNext(r, [s EXCEPT !.actual = actual,
                !.delta = actual - s.preConsumedQuota])
             m == [n EXCEPT !.sub = @ + (actual - s.preConsumedQuota)]
  <1>0. actual - s.preConsumedQuota \in Int
    BY DEF Session
  <1>1. t \in Session
    BY ZenonT(40), <1>0 DEF Session, Running, Terminal, SettleNext
  <1>2. m \in Net
    BY DEF Net, Session, SettleNext
  <1>3. FlagsInv(r, t)
    BY DEF Accounts, FlagsInv, Session, BeforeFunding, Reserving, Refunding, SettleNext, NeedsRefund
  <1>4. WalletInv(r, t, m.wallet, fails)
    BY DEF Accounts, FlagsInv, Session, BeforeFunding, Reserving, Refunding, SettleNext, Net,
       WalletInv
  <1>5. TokenInv(r, t, m.token, fails)
    BY DEF Accounts, FlagsInv, Session, BeforeFunding, Reserving, Refunding, SettleNext, Net,
       TokenInv, TokenShare, Running
  <1>6. SubscriptionInv(r, t, m.sub, rec, fails)
    BY DEF Accounts, FlagsInv, Session, BeforeFunding, Reserving, Refunding, SettleNext, Net,
       SubscriptionInv
  <1> QED
    BY <1>1, <1>2, <1>3, <1>4, <1>5, <1>6 DEF Accounts

(* The funding source could not be settled. *)
LEMMA SettleRefused ==
    ASSUME NEW r \in Requests, NEW s \in Session, NEW n \in Net, NEW rec, NEW fails \in Nat,
           Accounts(r, s, n, rec, fails),
           s.at = "open", NEW actual \in Nat, NEW delta \in Int
    PROVE  /\ [[s EXCEPT !.actual = actual, !.delta = delta]
                EXCEPT !.at = "unsettled"] \in Session
           /\ n \in Net
           /\ Accounts(r, [[s EXCEPT !.actual = actual, !.delta = delta]
                 EXCEPT !.at = "unsettled"], n, rec, fails)
  <1> DEFINE t == [[s EXCEPT !.actual = actual, !.delta = delta] EXCEPT !.at = "unsettled"]
             m == n
  <1>1. t \in Session
    BY DEF Session, Running, Terminal
  <1>2. m \in Net
    BY DEF Net, Session
  <1>3. FlagsInv(r, t)
    BY DEF Accounts, FlagsInv, Session, BeforeFunding, Reserving, Refunding
  <1>4. WalletInv(r, t, m.wallet, fails)
    BY DEF Accounts, FlagsInv, Session, BeforeFunding, Reserving, Refunding, Net, WalletInv
  <1>5. TokenInv(r, t, m.token, fails)
    BY DEF Accounts, FlagsInv, Session, BeforeFunding, Reserving, Refunding, Net, TokenInv,
       TokenShare, Running
  <1>6. SubscriptionInv(r, t, m.sub, rec, fails)
    BY DEF Accounts, FlagsInv, Session, BeforeFunding, Reserving, Refunding, Net, SubscriptionInv
  <1> QED
    BY <1>1, <1>2, <1>3, <1>4, <1>5, <1>6 DEF Accounts

(* The token pays the difference. *)
LEMMA TokenSettled ==
    ASSUME NEW r \in Requests, NEW s \in Session, NEW n \in Net, NEW rec, NEW fails \in Nat,
           Accounts(r, s, n, rec, fails),
           s.at = "settleToken"
    PROVE  /\ [s EXCEPT !.at = "done", !.settled = TRUE] \in Session
           /\ [n EXCEPT !.token = @ + s.delta] \in Net
           /\ Accounts(r, [s EXCEPT !.at = "done", !.settled = TRUE], [n
                 EXCEPT !.token = @ + s.delta], rec, fails)
  <1> DEFINE t == [s EXCEPT !.at = "done", !.settled = TRUE]
             m == [n EXCEPT !.token = @ + s.delta]
  <1>1. t \in Session
    BY DEF Session, Running, Terminal
  <1>2. m \in Net
    BY DEF Net, Session
  <1>3. FlagsInv(r, t)
    BY DEF Accounts, FlagsInv, Session, BeforeFunding, Reserving, Refunding, NeedsRefund
  <1>4. WalletInv(r, t, m.wallet, fails)
    BY DEF Accounts, FlagsInv, Session, BeforeFunding, Reserving, Refunding, Net, WalletInv
  <1>5. TokenInv(r, t, m.token, fails)
    BY DEF Accounts, FlagsInv, Session, BeforeFunding, Reserving, Refunding, Net, TokenInv,
       TokenShare, Running
  <1>6. SubscriptionInv(r, t, m.sub, rec, fails)
    BY DEF Accounts, FlagsInv, Session, BeforeFunding, Reserving, Refunding, Net, SubscriptionInv
  <1> QED
    BY <1>1, <1>2, <1>3, <1>4, <1>5, <1>6 DEF Accounts

(* The token could not be settled. *)
LEMMA TokenSettleLost ==
    ASSUME NEW r \in Requests, NEW s \in Session, NEW n \in Net, NEW rec, NEW fails \in Nat,
           Accounts(r, s, n, rec, fails),
           s.at = "settleToken"
    PROVE  /\ [s EXCEPT !.at = "done", !.settled = TRUE] \in Session
           /\ n \in Net
           /\ Accounts(r, [s EXCEPT !.at = "done", !.settled = TRUE], n, rec, fails + 1)
  <1> DEFINE t == [s EXCEPT !.at = "done", !.settled = TRUE]
             m == n
  <1>1. t \in Session
    BY DEF Session, Running, Terminal
  <1>2. m \in Net
    BY DEF Net, Session
  <1>3. FlagsInv(r, t)
    BY DEF Accounts, FlagsInv, Session, BeforeFunding, Reserving, Refunding, NeedsRefund
  <1>4. WalletInv(r, t, m.wallet, fails + 1)
    BY DEF Accounts, FlagsInv, Session, BeforeFunding, Reserving, Refunding, Net, WalletInv
  <1>5. TokenInv(r, t, m.token, fails + 1)
    BY DEF Accounts, FlagsInv, Session, BeforeFunding, Reserving, Refunding, Net, TokenInv,
       TokenShare, Running
  <1>6. SubscriptionInv(r, t, m.sub, rec, fails + 1)
    BY DEF Accounts, FlagsInv, Session, BeforeFunding, Reserving, Refunding, Net, SubscriptionInv
  <1> QED
    BY <1>1, <1>2, <1>3, <1>4, <1>5, <1>6 DEF Accounts

(* Refund: something is held. *)
LEMMA RefundStarts ==
    ASSUME NEW r \in Requests, NEW s \in Session, NEW n \in Net, NEW rec, NEW fails \in Nat,
           Accounts(r, s, n, rec, fails),
           s.at \in {"open", "failed", "unsettled"}
    PROVE  /\ [s EXCEPT !.at = "refundFunding", !.refunded = TRUE] \in Session
           /\ n \in Net
           /\ Accounts(r, [s EXCEPT !.at = "refundFunding", !.refunded = TRUE], n, rec, fails)
  <1> DEFINE t == [s EXCEPT !.at = "refundFunding", !.refunded = TRUE]
             m == n
  <1>1. t \in Session
    BY DEF Session, Running, Terminal
  <1>2. m \in Net
    BY DEF Net, Session
  <1>3. FlagsInv(r, t)
    BY DEF Accounts, FlagsInv, Session, BeforeFunding, Reserving, Refunding
  <1>4. WalletInv(r, t, m.wallet, fails)
    BY DEF Accounts, FlagsInv, Session, BeforeFunding, Reserving, Refunding, Net, WalletInv
  <1>5. TokenInv(r, t, m.token, fails)
    BY DEF Accounts, FlagsInv, Session, BeforeFunding, Reserving, Refunding, Net, TokenInv,
       TokenShare, Running
  <1>6. SubscriptionInv(r, t, m.sub, rec, fails)
    BY DEF Accounts, FlagsInv, Session, BeforeFunding, Reserving, Refunding, Net, SubscriptionInv
  <1> QED
    BY <1>1, <1>2, <1>3, <1>4, <1>5, <1>6 DEF Accounts

(* Refund: nothing is held. *)
LEMMA NothingToRefund ==
    ASSUME NEW r \in Requests, NEW s \in Session, NEW n \in Net, NEW rec, NEW fails \in Nat,
           Accounts(r, s, n, rec, fails),
           s.at \in {"open", "failed"}, ~NeedsRefund(s)
    PROVE  /\ [s EXCEPT !.at = "done"] \in Session
           /\ n \in Net
           /\ Accounts(r, [s EXCEPT !.at = "done"], n, rec, fails)
  <1> DEFINE t == [s EXCEPT !.at = "done"]
             m == n
  <1>1. t \in Session
    BY DEF Session, Running, Terminal, NeedsRefund
  <1>2. m \in Net
    BY DEF Net, Session, NeedsRefund
  <1>3. FlagsInv(r, t)
    BY DEF Accounts, FlagsInv, Session, BeforeFunding, Reserving, Refunding, NeedsRefund
  <1>4. WalletInv(r, t, m.wallet, fails)
    BY DEF Accounts, FlagsInv, Session, BeforeFunding, Reserving, Refunding, NeedsRefund, Net,
       WalletInv
  <1>5. TokenInv(r, t, m.token, fails)
    BY DEF Accounts, FlagsInv, Session, BeforeFunding, Reserving, Refunding, NeedsRefund, Net,
       TokenInv, TokenShare, Running
  <1>6. SubscriptionInv(r, t, m.sub, rec, fails)
    BY DEF Accounts, FlagsInv, Session, BeforeFunding, Reserving, Refunding, NeedsRefund, Net,
       SubscriptionInv
  <1> QED
    BY <1>1, <1>2, <1>3, <1>4, <1>5, <1>6 DEF Accounts

(* The wallet is given back what consumed says. *)
LEMMA WalletRefunded ==
    ASSUME NEW r \in Requests, NEW s \in Session, NEW n \in Net, NEW rec, NEW fails \in Nat,
           Accounts(r, s, n, rec, fails),
           s.at = "refundFunding", s.source = "wallet"
    PROVE  /\ [s EXCEPT !.at = "refundToken"] \in Session
           /\ [n EXCEPT !.wallet = @ + (-s.consumed)] \in Net
           /\ Accounts(r, [s EXCEPT !.at = "refundToken"], [n
                 EXCEPT !.wallet = @ + (-s.consumed)], rec, fails)
  <1> DEFINE t == [s EXCEPT !.at = "refundToken"]
             m == [n EXCEPT !.wallet = @ + (-s.consumed)]
  <1>1. t \in Session
    BY DEF Session, Running, Terminal
  <1>2. m \in Net
    BY DEF Net, Session
  <1>3. FlagsInv(r, t)
    BY DEF Accounts, FlagsInv, Session, BeforeFunding, Reserving, Refunding
  <1>4. WalletInv(r, t, m.wallet, fails)
    BY DEF Accounts, FlagsInv, Session, BeforeFunding, Reserving, Refunding, Net, WalletInv
  <1>5. TokenInv(r, t, m.token, fails)
    BY DEF Accounts, FlagsInv, Session, BeforeFunding, Reserving, Refunding, Net, TokenInv,
       TokenShare, Running
  <1>6. SubscriptionInv(r, t, m.sub, rec, fails)
    BY DEF Accounts, FlagsInv, Session, BeforeFunding, Reserving, Refunding, Net, SubscriptionInv
  <1> QED
    BY <1>1, <1>2, <1>3, <1>4, <1>5, <1>6 DEF Accounts

(* The wallet refund fails. *)
LEMMA WalletRefundLost ==
    ASSUME NEW r \in Requests, NEW s \in Session, NEW n \in Net, NEW rec, NEW fails \in Nat,
           Accounts(r, s, n, rec, fails),
           s.at = "refundFunding", s.source = "wallet"
    PROVE  /\ [s EXCEPT !.at = "refundToken"] \in Session
           /\ n \in Net
           /\ Accounts(r, [s EXCEPT !.at = "refundToken"], n, rec, fails + 1)
  <1> DEFINE t == [s EXCEPT !.at = "refundToken"]
             m == n
  <1>1. t \in Session
    BY DEF Session, Running, Terminal
  <1>2. m \in Net
    BY DEF Net, Session
  <1>3. FlagsInv(r, t)
    BY DEF Accounts, FlagsInv, Session, BeforeFunding, Reserving, Refunding
  <1>4. WalletInv(r, t, m.wallet, fails + 1)
    BY DEF Accounts, FlagsInv, Session, BeforeFunding, Reserving, Refunding, Net, WalletInv
  <1>5. TokenInv(r, t, m.token, fails + 1)
    BY DEF Accounts, FlagsInv, Session, BeforeFunding, Reserving, Refunding, Net, TokenInv,
       TokenShare, Running
  <1>6. SubscriptionInv(r, t, m.sub, rec, fails + 1)
    BY DEF Accounts, FlagsInv, Session, BeforeFunding, Reserving, Refunding, Net, SubscriptionInv
  <1> QED
    BY <1>1, <1>2, <1>3, <1>4, <1>5, <1>6 DEF Accounts

(* The subscription refund and its record commit. *)
LEMMA SubscriptionRefunded ==
    ASSUME NEW r \in Requests, NEW s \in Session, NEW n \in Net, NEW rec, NEW fails \in Nat,
           Accounts(r, s, n, rec, fails),
           s.at = "refundFunding", s.source = "subscription", rec # "refunded"
    PROVE  /\ [s EXCEPT !.at = "refundExtra"] \in Session
           /\ [n EXCEPT !.sub = @ - s.preConsumed] \in Net
           /\ Accounts(r, [s EXCEPT !.at = "refundExtra"], [n EXCEPT !.sub = @ - s.preConsumed],
                 "refunded", fails)
  <1> DEFINE t == [s EXCEPT !.at = "refundExtra"]
             m == [n EXCEPT !.sub = @ - s.preConsumed]
  <1>1. t \in Session
    BY DEF Session, Running, Terminal
  <1>2. m \in Net
    BY DEF Net, Session
  <1>3. FlagsInv(r, t)
    BY DEF Accounts, FlagsInv, Session, BeforeFunding, Reserving, Refunding
  <1>4. WalletInv(r, t, m.wallet, fails)
    BY DEF Accounts, FlagsInv, Session, BeforeFunding, Reserving, Refunding, Net, WalletInv
  <1>5. TokenInv(r, t, m.token, fails)
    BY DEF Accounts, FlagsInv, Session, BeforeFunding, Reserving, Refunding, Net, TokenInv,
       TokenShare, Running
  <1>6. SubscriptionInv(r, t, m.sub, "refunded", fails)
    BY DEF Accounts, FlagsInv, Session, BeforeFunding, Reserving, Refunding, Net, SubscriptionInv
  <1> QED
    BY <1>1, <1>2, <1>3, <1>4, <1>5, <1>6 DEF Accounts

(* A retry finds the record refunded: only after a failure. *)
LEMMA AlreadyRefunded ==
    ASSUME NEW r \in Requests, NEW s \in Session, NEW n \in Net, NEW rec, NEW fails \in Nat,
           Accounts(r, s, n, rec, fails),
           s.at = "refundFunding", s.source = "subscription", rec = "refunded"
    PROVE  /\ [s EXCEPT !.at = "refundExtra"] \in Session
           /\ n \in Net
           /\ Accounts(r, [s EXCEPT !.at = "refundExtra"], n, rec, fails)
  <1> DEFINE t == [s EXCEPT !.at = "refundExtra"]
             m == n
  <1>1. t \in Session
    BY DEF Session, Running, Terminal
  <1>2. m \in Net
    BY DEF Net, Session
  <1>3. FlagsInv(r, t)
    BY DEF Accounts, FlagsInv, Session, BeforeFunding, Reserving, Refunding
  <1>4. WalletInv(r, t, m.wallet, fails)
    BY DEF Accounts, FlagsInv, Session, BeforeFunding, Reserving, Refunding, Net, WalletInv
  <1>5. TokenInv(r, t, m.token, fails)
    BY DEF Accounts, FlagsInv, Session, BeforeFunding, Reserving, Refunding, Net, TokenInv,
       TokenShare, Running
  <1>6. SubscriptionInv(r, t, m.sub, rec, fails)
    BY DEF Accounts, FlagsInv, Session, BeforeFunding, Reserving, Refunding, Net, SubscriptionInv
  <1> QED
    BY <1>1, <1>2, <1>3, <1>4, <1>5, <1>6 DEF Accounts

(* An attempt failed, whatever it moved. *)
LEMMA RefundRetried ==
    ASSUME NEW r \in Requests, NEW s \in Session, NEW n \in Net, NEW rec, NEW fails \in Nat,
           Accounts(r, s, n, rec, fails),
           s.at = "refundFunding", s.source = "subscription", NEW k \in Int, NEW rec2
    PROVE  /\ [s EXCEPT !.tries = @ + 1,
                !.at = IF s.tries + 1 < 3 THEN "refundFunding" ELSE "refundExtra"] \in Session
           /\ [n EXCEPT !.sub = @ - k] \in Net
           /\ Accounts(r, [s EXCEPT !.tries = @ + 1,
                 !.at = IF s.tries + 1 < 3 THEN "refundFunding" ELSE "refundExtra"], [n
                 EXCEPT !.sub = @ - k], rec2, fails + 1)
  <1> DEFINE t == [s EXCEPT !.tries = @ + 1,
                !.at = IF s.tries + 1 < 3 THEN "refundFunding" ELSE "refundExtra"]
             m == [n EXCEPT !.sub = @ - k]
  <1>0. s.tries + 1 \in 0..3
    BY DEF Session, FlagsInv, Accounts, Reserving, Refunding
  <1>1. t \in Session
    BY <1>0 DEF Session, Running, Terminal
  <1>2. m \in Net
    BY DEF Net, Session
  <1>3. FlagsInv(r, t)
    BY DEF Accounts, FlagsInv, Session, BeforeFunding, Reserving, Refunding
  <1>4. WalletInv(r, t, m.wallet, fails + 1)
    BY DEF Accounts, FlagsInv, Session, BeforeFunding, Reserving, Refunding, Net, WalletInv
  <1>5. TokenInv(r, t, m.token, fails + 1)
    BY DEF Accounts, FlagsInv, Session, BeforeFunding, Reserving, Refunding, Net, TokenInv,
       TokenShare, Running
  <1>6. SubscriptionInv(r, t, m.sub, rec2, fails + 1)
    BY DEF Accounts, FlagsInv, Session, BeforeFunding, Reserving, Refunding, Net, SubscriptionInv
  <1> QED
    BY <1>1, <1>2, <1>3, <1>4, <1>5, <1>6 DEF Accounts

(* An attempt failed without moving anything. *)
LEMMA RefundRetriedIdle ==
    ASSUME NEW r \in Requests, NEW s \in Session, NEW n \in Net, NEW rec, NEW fails \in Nat,
           Accounts(r, s, n, rec, fails),
           s.at = "refundFunding", s.source = "subscription"
    PROVE  /\ [s EXCEPT !.tries = @ + 1,
                !.at = IF s.tries + 1 < 3 THEN "refundFunding" ELSE "refundExtra"] \in Session
           /\ n \in Net
           /\ Accounts(r, [s EXCEPT !.tries = @ + 1,
                 !.at = IF s.tries + 1 < 3 THEN "refundFunding" ELSE "refundExtra"], n, rec,
                 fails + 1)
  <1> DEFINE t == [s EXCEPT !.tries = @ + 1,
                !.at = IF s.tries + 1 < 3 THEN "refundFunding" ELSE "refundExtra"]
             m == n
  <1>0. s.tries + 1 \in 0..3
    BY DEF Session, FlagsInv, Accounts, Reserving, Refunding
  <1>1. t \in Session
    BY <1>0 DEF Session, Running, Terminal
  <1>2. m \in Net
    BY DEF Net, Session
  <1>3. FlagsInv(r, t)
    BY DEF Accounts, FlagsInv, Session, BeforeFunding, Reserving, Refunding
  <1>4. WalletInv(r, t, m.wallet, fails + 1)
    BY DEF Accounts, FlagsInv, Session, BeforeFunding, Reserving, Refunding, Net, WalletInv
  <1>5. TokenInv(r, t, m.token, fails + 1)
    BY DEF Accounts, FlagsInv, Session, BeforeFunding, Reserving, Refunding, Net, TokenInv,
       TokenShare, Running
  <1>6. SubscriptionInv(r, t, m.sub, rec, fails + 1)
    BY DEF Accounts, FlagsInv, Session, BeforeFunding, Reserving, Refunding, Net, SubscriptionInv
  <1> QED
    BY <1>1, <1>2, <1>3, <1>4, <1>5, <1>6 DEF Accounts

(* What later Reserves took is given back. *)
LEMMA ExtraRefunded ==
    ASSUME NEW r \in Requests, NEW s \in Session, NEW n \in Net, NEW rec, NEW fails \in Nat,
           Accounts(r, s, n, rec, fails),
           s.at = "refundExtra"
    PROVE  /\ [s EXCEPT !.at = "refundToken"] \in Session
           /\ [n EXCEPT !.sub = @ - s.extraReserved] \in Net
           /\ Accounts(r, [s EXCEPT !.at = "refundToken"], [n
                 EXCEPT !.sub = @ - s.extraReserved], rec, fails)
  <1> DEFINE t == [s EXCEPT !.at = "refundToken"]
             m == [n EXCEPT !.sub = @ - s.extraReserved]
  <1>1. t \in Session
    BY DEF Session, Running, Terminal
  <1>2. m \in Net
    BY DEF Net, Session
  <1>3. FlagsInv(r, t)
    BY DEF Accounts, FlagsInv, Session, BeforeFunding, Reserving, Refunding
  <1>4. WalletInv(r, t, m.wallet, fails)
    BY DEF Accounts, FlagsInv, Session, BeforeFunding, Reserving, Refunding, Net, WalletInv
  <1>5. TokenInv(r, t, m.token, fails)
    BY DEF Accounts, FlagsInv, Session, BeforeFunding, Reserving, Refunding, Net, TokenInv,
       TokenShare, Running
  <1>6. SubscriptionInv(r, t, m.sub, rec, fails)
    BY DEF Accounts, FlagsInv, Session, BeforeFunding, Reserving, Refunding, Net, SubscriptionInv
  <1> QED
    BY <1>1, <1>2, <1>3, <1>4, <1>5, <1>6 DEF Accounts

(* That refund fails. *)
LEMMA ExtraRefundLost ==
    ASSUME NEW r \in Requests, NEW s \in Session, NEW n \in Net, NEW rec, NEW fails \in Nat,
           Accounts(r, s, n, rec, fails),
           s.at = "refundExtra"
    PROVE  /\ [s EXCEPT !.at = "refundToken"] \in Session
           /\ n \in Net
           /\ Accounts(r, [s EXCEPT !.at = "refundToken"], n, rec, fails + 1)
  <1> DEFINE t == [s EXCEPT !.at = "refundToken"]
             m == n
  <1>1. t \in Session
    BY DEF Session, Running, Terminal
  <1>2. m \in Net
    BY DEF Net, Session
  <1>3. FlagsInv(r, t)
    BY DEF Accounts, FlagsInv, Session, BeforeFunding, Reserving, Refunding
  <1>4. WalletInv(r, t, m.wallet, fails + 1)
    BY DEF Accounts, FlagsInv, Session, BeforeFunding, Reserving, Refunding, Net, WalletInv
  <1>5. TokenInv(r, t, m.token, fails + 1)
    BY DEF Accounts, FlagsInv, Session, BeforeFunding, Reserving, Refunding, Net, TokenInv,
       TokenShare, Running
  <1>6. SubscriptionInv(r, t, m.sub, rec, fails + 1)
    BY DEF Accounts, FlagsInv, Session, BeforeFunding, Reserving, Refunding, Net, SubscriptionInv
  <1> QED
    BY <1>1, <1>2, <1>3, <1>4, <1>5, <1>6 DEF Accounts

(* The token share is given back. *)
LEMMA TokenRefunded ==
    ASSUME NEW r \in Requests, NEW s \in Session, NEW n \in Net, NEW rec, NEW fails \in Nat,
           Accounts(r, s, n, rec, fails),
           s.at = "refundToken"
    PROVE  /\ [s EXCEPT !.at = "done"] \in Session
           /\ [n EXCEPT !.token = @ + (-TokenShare(r, s.tokenConsumed))] \in Net
           /\ Accounts(r, [s EXCEPT !.at = "done"], [n EXCEPT !.token = @ + (-TokenShare(r,
                 s.tokenConsumed))], rec, fails)
  <1> DEFINE t == [s EXCEPT !.at = "done"]
             m == [n EXCEPT !.token = @ + (-TokenShare(r, s.tokenConsumed))]
  <1>1. t \in Session
    BY DEF Session, Running, Terminal, TokenShare
  <1>2. m \in Net
    BY DEF Net, Session, TokenShare
  <1>3. FlagsInv(r, t)
    BY DEF Accounts, FlagsInv, Session, BeforeFunding, Reserving, Refunding, TokenShare, NeedsRefund
  <1>4. WalletInv(r, t, m.wallet, fails)
    BY DEF Accounts, FlagsInv, Session, BeforeFunding, Reserving, Refunding, TokenShare, Net,
       WalletInv
  <1>5. TokenInv(r, t, m.token, fails)
    BY DEF Accounts, FlagsInv, Session, BeforeFunding, Reserving, Refunding, TokenShare, Net,
       TokenInv, TokenShare, Running
  <1>6. SubscriptionInv(r, t, m.sub, rec, fails)
    BY DEF Accounts, FlagsInv, Session, BeforeFunding, Reserving, Refunding, TokenShare, Net,
       SubscriptionInv
  <1> QED
    BY <1>1, <1>2, <1>3, <1>4, <1>5, <1>6 DEF Accounts

(* That refund fails. *)
LEMMA TokenRefundLost ==
    ASSUME NEW r \in Requests, NEW s \in Session, NEW n \in Net, NEW rec, NEW fails \in Nat,
           Accounts(r, s, n, rec, fails),
           s.at = "refundToken"
    PROVE  /\ [s EXCEPT !.at = "done"] \in Session
           /\ n \in Net
           /\ Accounts(r, [s EXCEPT !.at = "done"], n, rec, fails + 1)
  <1> DEFINE t == [s EXCEPT !.at = "done"]
             m == n
  <1>1. t \in Session
    BY DEF Session, Running, Terminal
  <1>2. m \in Net
    BY DEF Net, Session
  <1>3. FlagsInv(r, t)
    BY DEF Accounts, FlagsInv, Session, BeforeFunding, Reserving, Refunding, NeedsRefund
  <1>4. WalletInv(r, t, m.wallet, fails + 1)
    BY DEF Accounts, FlagsInv, Session, BeforeFunding, Reserving, Refunding, Net, WalletInv
  <1>5. TokenInv(r, t, m.token, fails + 1)
    BY DEF Accounts, FlagsInv, Session, BeforeFunding, Reserving, Refunding, Net, TokenInv,
       TokenShare, Running
  <1>6. SubscriptionInv(r, t, m.sub, rec, fails + 1)
    BY DEF Accounts, FlagsInv, Session, BeforeFunding, Reserving, Refunding, Net, SubscriptionInv
  <1> QED
    BY <1>1, <1>2, <1>3, <1>4, <1>5, <1>6 DEF Accounts

(* A crash leaves what the request holds as it is. *)
LEMMA LostInCrash ==
    ASSUME NEW r \in Requests, NEW s \in Session, NEW n \in Net, NEW rec, NEW fails \in Nat,
           Accounts(r, s, n, rec, fails),
           s.at \in Running \cup {"unsettled"}
    PROVE  /\ [s EXCEPT !.at = "lost"] \in Session
           /\ n \in Net
           /\ Accounts(r, [s EXCEPT !.at = "lost"], n, rec, fails)
  <1> DEFINE t == [s EXCEPT !.at = "lost"]
             m == n
  <1>1. t \in Session
    BY DEF Session, Running, Terminal, Running
  <1>2. m \in Net
    BY DEF Net, Session, Running
  <1>3. FlagsInv(r, t)
    BY DEF Accounts, FlagsInv, Session, BeforeFunding, Reserving, Refunding, Running
  <1>4. WalletInv(r, t, m.wallet, fails)
    BY DEF Accounts, FlagsInv, Session, BeforeFunding, Reserving, Refunding, Running, Net,
       WalletInv
  <1>5. TokenInv(r, t, m.token, fails)
    BY DEF Accounts, FlagsInv, Session, BeforeFunding, Reserving, Refunding, Running, Net,
       TokenInv, TokenShare, Running
  <1>6. SubscriptionInv(r, t, m.sub, rec, fails)
    BY DEF Accounts, FlagsInv, Session, BeforeFunding, Reserving, Refunding, Running, Net,
       SubscriptionInv
  <1> QED
    BY <1>1, <1>2, <1>3, <1>4, <1>5, <1>6 DEF Accounts

(* Funding was refused: a playground request has nothing to roll back.     *)
LEMMA PreConsumeRefused ==
    ASSUME NEW r \in Requests, NEW s \in Session, NEW n \in Net, NEW rec, NEW fails \in Nat,
           Accounts(r, s, n, rec, fails),
           s.at = "preFunding", NEW b \in BOOLEAN
    PROVE  /\ PreFailed(r, s, b) \in Session
           /\ Accounts(r, PreFailed(r, s, b), n, rec, fails)
  <1> DEFINE u == [[s EXCEPT !.fallback = b] EXCEPT !.tokenConsumed = 0]
  <1>1. CASE r \notin PlaygroundRequests
    BY <1>1, RollbackNeeded DEF PreFailed
  <1>2. CASE r \in PlaygroundRequests
    <2>1. u \in Session
      BY DEF Session
    <2>2. Fresh(r, u, n, rec, fails)
      BY <1>2 DEF Fresh, Accounts, FlagsInv, WalletInv, TokenInv, SubscriptionInv,
                  BeforeFunding, Running, Session, TokenShare
    <2>3. NextSource(u) \in Session /\ Accounts(r, NextSource(u), n, rec, fails)
      <3> HIDE DEF u
      <3> QED BY <2>1, <2>2, NextSourceFresh
    <2> QED
      BY <1>2, <2>3 DEF PreFailed
  <1> QED
    BY <1>1, <1>2

(* tryWallet found the balance too small.                                  *)
LEMMA WalletRefused ==
    ASSUME NEW r \in Requests, NEW s \in Session, NEW n \in Net, NEW rec, NEW fails \in Nat,
           Accounts(r, s, n, rec, fails),
           s.at = "tryWallet"
    PROVE  /\ NextSource([s EXCEPT !.fallback = TRUE]) \in Session
           /\ Accounts(r, NextSource([s EXCEPT !.fallback = TRUE]), n, rec, fails)
  <1> DEFINE u == [s EXCEPT !.fallback = TRUE]
  <1>1. Fresh(r, s, n, rec, fails)
    BY FreshBefore
  <1>2. u \in Session /\ Fresh(r, u, n, rec, fails)
    BY <1>1 DEF Session, Fresh
  <1>3. NextSource(u) \in Session /\ Accounts(r, NextSource(u), n, rec, fails)
    <2> HIDE DEF u
    <2> QED BY <1>2, NextSourceFresh
  <1> QED
    BY <1>3

(* preConsume's rollback, whether or not it succeeds.                      *)
LEMMA TokenRolledBack ==
    ASSUME NEW r \in Requests, NEW s \in Session, NEW n \in Net, NEW rec, NEW fails \in Nat,
           Accounts(r, s, n, rec, fails),
           s.at = "rollback"
    PROVE  LET t == NextSource([s EXCEPT !.tokenConsumed = 0])
               m == [n EXCEPT !.token = @ + (-s.tokenConsumed)]
           IN  /\ t \in Session /\ m \in Net
               /\ Accounts(r, t, m, rec, fails)
               /\ Accounts(r, t, n, rec, fails + 1)
  <1> DEFINE u == [s EXCEPT !.tokenConsumed = 0]
             m == [n EXCEPT !.token = @ + (-s.tokenConsumed)]
  <1>1. u \in Session
    BY DEF Session
  <1>2. m \in Net
    BY DEF Net, Session
  <1>3. Fresh(r, u, m, rec, fails) /\ Fresh(r, u, n, rec, fails + 1)
    BY DEF Fresh, Accounts, FlagsInv, WalletInv, TokenInv, SubscriptionInv,
           BeforeFunding, Running, Session, Net, TokenShare
  <1>4. /\ NextSource(u) \in Session
        /\ Accounts(r, NextSource(u), m, rec, fails)
        /\ Accounts(r, NextSource(u), n, rec, fails + 1)
    <2> HIDE DEF u, m
    <2> QED BY <1>1, <1>2, <1>3, NextSourceFresh
  <1> QED
    BY <1>2, <1>4

-----------------------------------------------------------------------------
(* Each step of a request preserves Accounting.                            *)

(* Context of a step, after which at most one more failure has happened.   *)
LEMMA StepContext ==
    ASSUME Accounting, NEW r \in Requests, OneFailure(failures, failures')
    PROVE  /\ failures' \in Nat
           /\ Accounts(r, sess[r], net[r], record[r], failures')
  BY Context, FailureKeepsAccounts DEF OneFailure

(* Arrive preserves Accounting. *)
LEMMA ArriveStep ==
    ASSUME Accounting, NEW r \in Requests, NEW pref \in Preferences, NEW quota \in PreQuotas,
           Arrive(r, pref, quota)
    PROVE  Accounting'
  <1> DEFINE b == IF TokenUnlimited THEN TRUE ELSE token > TrustQuota
             s == [sess[r] EXCEPT !.pref = pref, !.quota = quota, !.tokenTrusted = b]
             n == net[r]
  <1>1. b \in BOOLEAN
    <2>1. (token > TrustQuota) \in BOOLEAN
      OBVIOUS
    <2> QED BY <2>1, Zenon
  <1>2. sess[r] \in Session /\ n \in Net /\ failures \in Nat
        /\ record[r] \in {"none", "consumed", "refunded"} /\ pref \in AllPreferences
                /\ quota \in Nat
    BY BillingAssumption, Context
  <1>9. s \in Session
    <2> HIDE DEF b
    <2> QED BY <1>1, <1>2 DEF Session
  <1>3. Fresh(r, s, n, record[r], failures)
    <2>1. Fresh(r, sess[r], n, record[r], failures)
      BY Context, FreshBefore DEF Arrive, At
    <2> QED
      BY <1>2, <2>1 DEF Fresh, Session
  <1>4. Fresh(r, s, n, record[r], failures')
    BY <1>2, <1>3 DEF Fresh, Arrive, DBFails
  <1>5. PICK t \in {TrySubscription(s), TryWallet(s), [s EXCEPT !.at = "denied"]} :
          sess' = [sess EXCEPT ![r] = t]
    BY DEF Arrive
  <1>6. failures' \in Nat /\ OneFailure(failures, failures')
    BY <1>2 DEF Arrive, DBFails, OneFailure
  <1>7. t \in Session /\ Accounts(r, t, n, record[r], failures')
    <2>1. /\ TrySubscription(s) \in Session /\ Accounts(r, TrySubscription(s), n, record[r],
                failures')
          /\ TryWallet(s) \in Session /\ Accounts(r, TryWallet(s), n, record[r], failures')
      BY <1>2, <1>9, <1>4, <1>6, TrySourceFresh
    <2>2. /\ [s EXCEPT !.at = "denied"] \in Session
          /\ Accounts(r, [s EXCEPT !.at = "denied"], n, record[r], failures')
      BY <1>2, <1>9, <1>4, <1>6, StopFresh
    <2> HIDE DEF s, n
    <2> QED BY <1>5, <2>1, <2>2
  <1>8. Moves(r, t, n, record[r])
    BY <1>5, Context DEF Arrive, LocalOnly, Moves
  <1>10. Balances'
    BY Context DEF Arrive, LocalOnly, Balances, NoOverdraft, SubscriptionWithinTotal
  <1> HIDE DEF s, n
  <1> QED
    BY <1>2, <1>6, <1>7, <1>8, <1>10, UpdateOne

(* TryWalletStep preserves Accounting. *)
LEMMA TryWalletStepStep ==
    ASSUME Accounting, NEW r \in Requests, TryWalletStep(r)
    PROVE  Accounting'
  <1> DEFINE s == sess[r]
             n == net[r]
  <1>1. OneFailure(failures, failures')
    BY DEF TryWalletStep, DBFails, OneFailure, LocalOnly
  <1>2. Balances'
    BY Context, BillingAssumption DEF TryWalletStep, LocalOnly, Balances, NoOverdraft,
       SubscriptionWithinTotal, Session
  <1>3. /\ s \in Session /\ n \in Net /\ failures \in Nat /\ failures' \in Nat
        /\ Accounts(r, s, n, record[r], failures) /\ Accounts(r, s, n, record[r], failures')
        /\ record[r] \in {"none", "consumed", "refunded"}
    BY <1>1, Context, StepContext
  <1>4. CASE Moves(r, NextSource([s EXCEPT !.fallback = TRUE]), n, record[r])
    <2>1. NextSource([s EXCEPT !.fallback = TRUE]) \in Session /\ n \in Net
          /\ Accounts(r, NextSource([s EXCEPT !.fallback = TRUE]), n, record[r], failures')
      BY <1>3, <1>4, WalletRefused DEF TryWalletStep, At
    <2> QED
      BY <1>1, <1>2, <1>3, <2>1, <1>4, UpdateOne
  <1>5. CASE Moves(r, [s EXCEPT !.at = "open", !.effective = 0, !.trusted = TRUE], n, record[r])
    <2>1. [s EXCEPT !.at = "open", !.effective = 0, !.trusted = TRUE] \in Session /\ n \in Net
          /\ Accounts(r, [s EXCEPT !.at = "open", !.effective = 0, !.trusted = TRUE], n,
                record[r], failures')
      BY <1>3, <1>5, OpenTrusted DEF TryWalletStep, At
    <2> QED
      BY <1>1, <1>2, <1>3, <2>1, <1>5, UpdateOne
  <1>6. CASE Moves(r, [s EXCEPT !.at = "open", !.effective = 0], n, record[r])
    <2>1. [s EXCEPT !.at = "open", !.effective = 0] \in Session /\ n \in Net
          /\ Accounts(r, [s EXCEPT !.at = "open", !.effective = 0], n, record[r], failures')
      BY <1>3, <1>6, OpenFree DEF TryWalletStep, At
    <2> QED
      BY <1>1, <1>2, <1>3, <2>1, <1>6, UpdateOne
  <1>7. CASE Moves(r, [s EXCEPT !.at = "preToken", !.effective = s.quota], n, record[r])
                /\ s.quota # 0
    <2>1. [s EXCEPT !.at = "preToken", !.effective = s.quota] \in Session /\ n \in Net
          /\ Accounts(r, [s EXCEPT !.at = "preToken", !.effective = s.quota], n, record[r],
                failures')
      BY <1>3, <1>7, StartPreConsume DEF TryWalletStep, At
    <2> QED
      BY <1>1, <1>2, <1>3, <2>1, <1>7, UpdateOne
  <1>8. CASE Moves(r, [s EXCEPT !.at = "denied"], n, record[r])
    <2>1. [s EXCEPT !.at = "denied"] \in Session /\ n \in Net
          /\ Accounts(r, [s EXCEPT !.at = "denied"], n, record[r], failures')
      BY <1>3, <1>8, FreshBefore, StopFresh DEF TryWalletStep, At
    <2> QED
      BY <1>1, <1>2, <1>3, <2>1, <1>8, UpdateOne
  <1> QED
    BY <1>4, <1>5, <1>6, <1>7, <1>8, Context DEF TryWalletStep, LocalOnly, Moves, At, DBFails

(* PreToken preserves Accounting. *)
LEMMA PreTokenStep ==
    ASSUME Accounting, NEW r \in Requests, PreToken(r)
    PROVE  Accounting'
  <1> DEFINE s == sess[r]
             n == net[r]
  <1>1. OneFailure(failures, failures')
    BY DEF PreToken, DBFails, OneFailure
  <1>2. Balances'
    BY Context, BillingAssumption DEF PreToken, MoveToken, UncheckedToken, TokenCovers,
       TokenShare, TokenOnly, Balances, NoOverdraft, SubscriptionWithinTotal, Session
  <1>3. /\ s \in Session /\ n \in Net /\ failures \in Nat /\ failures' \in Nat
        /\ Accounts(r, s, n, record[r], failures) /\ Accounts(r, s, n, record[r], failures')
        /\ record[r] \in {"none", "consumed", "refunded"}
    BY <1>1, Context, StepContext
  <1>4. CASE Moves(r, [s EXCEPT !.at = "preFunding", !.tokenConsumed = s.effective], [n
                EXCEPT !.token = @ + TokenShare(r, s.effective)], record[r])
    <2>1. [s EXCEPT !.at = "preFunding", !.tokenConsumed = s.effective] \in Session /\ [n
                EXCEPT !.token = @ + TokenShare(r, s.effective)] \in Net
          /\ Accounts(r, [s EXCEPT !.at = "preFunding", !.tokenConsumed = s.effective],
                [n EXCEPT !.token = @ + TokenShare(r, s.effective)], record[r], failures')
      BY <1>3, <1>4, TokenTaken DEF PreToken, At
    <2> QED
      BY <1>1, <1>2, <1>3, <2>1, <1>4, UpdateOne
  <1>5. CASE Moves(r, [s EXCEPT !.at = "denied"], n, record[r])
    <2>1. [s EXCEPT !.at = "denied"] \in Session /\ n \in Net
          /\ Accounts(r, [s EXCEPT !.at = "denied"], n, record[r], failures')
      BY ZenonT(40), <1>3, <1>5, FreshBefore, StopFresh DEF PreToken, At
    <2> QED
      BY <1>1, <1>2, <1>3, <2>1, <1>5, UpdateOne
  <1> QED
    BY <1>4, <1>5, Context DEF PreToken, MoveToken, TokenOnly, Moves, At, DBFails

(* PreFundingWallet preserves Accounting. *)
LEMMA PreFundingWalletStep ==
    ASSUME Accounting, NEW r \in Requests, PreFundingWallet(r)
    PROVE  Accounting'
  <1> DEFINE s == sess[r]
             n == net[r]
  <1>0. wallet' = wallet \/ (wallet >= s.effective /\ wallet' = wallet - s.effective)
    BY DEF PreFundingWallet, MoveWallet, WalletCovers
  <1>e. s.effective \in Nat
    BY Context DEF Session
  <1>1. OneFailure(failures, failures')
    BY DEF PreFundingWallet, DBFails, OneFailure
  <1>2. Balances'
    BY Context, BillingAssumption, <1>0, <1>e DEF PreFundingWallet, WalletOnly, Balances,
       NoOverdraft, SubscriptionWithinTotal
  <1>3. /\ s \in Session /\ n \in Net /\ failures \in Nat /\ failures' \in Nat
        /\ Accounts(r, s, n, record[r], failures) /\ Accounts(r, s, n, record[r], failures')
        /\ record[r] \in {"none", "consumed", "refunded"}
    BY <1>1, Context, StepContext
  <1>4. CASE Moves(r, [s EXCEPT !.at = "open", !.consumed = s.effective,
                !.preConsumedQuota = s.effective], [n EXCEPT !.wallet = @ + s.effective],
                record[r])
    <2>1. [s EXCEPT !.at = "open", !.consumed = s.effective,
                !.preConsumedQuota = s.effective] \in Session /\ [n
                EXCEPT !.wallet = @ + s.effective] \in Net
          /\ Accounts(r, [s EXCEPT !.at = "open", !.consumed = s.effective,
                !.preConsumedQuota = s.effective], [n EXCEPT !.wallet = @ + s.effective],
                record[r], failures')
      BY <1>3, <1>4, WalletTaken DEF PreFundingWallet, At
    <2> QED
      BY <1>1, <1>2, <1>3, <2>1, <1>4, UpdateOne
  <1>5. CASE Moves(r, PreFailed(r, s, TRUE), n, record[r])
    <2>1. PreFailed(r, s, TRUE) \in Session /\ n \in Net
          /\ Accounts(r, PreFailed(r, s, TRUE), n, record[r], failures')
      BY <1>3, <1>5, PreConsumeRefused DEF PreFundingWallet, At
    <2> QED
      BY <1>1, <1>2, <1>3, <2>1, <1>5, UpdateOne
  <1>6. CASE Moves(r, PreFailed(r, s, FALSE), n, record[r])
    <2>1. PreFailed(r, s, FALSE) \in Session /\ n \in Net
          /\ Accounts(r, PreFailed(r, s, FALSE), n, record[r], failures')
      BY <1>3, <1>6, PreConsumeRefused DEF PreFundingWallet, At
    <2> QED
      BY <1>1, <1>2, <1>3, <2>1, <1>6, UpdateOne
  <1> QED
    BY <1>4, <1>5, <1>6, Context, <1>0 DEF PreFundingWallet, MoveWallet, WalletOnly, Moves, At,
       DBFails

(* PreFundingSubscription preserves Accounting. *)
LEMMA PreFundingSubscriptionStep ==
    ASSUME Accounting, NEW r \in Requests, PreFundingSubscription(r)
    PROVE  Accounting'
  <1> DEFINE s == sess[r]
             n == net[r]
  <1>e. s.effective \in Nat /\ PeriodUsage \in Nat
    BY Context DEF Session, Balances, PeriodUsage
  <1>0. \/ subUsed' = subUsed /\ resetDue' = resetDue
        \/ /\ subUsed' = PeriodUsage + s.effective
           /\ SubTotal = 0 \/ PeriodUsage + s.effective <= SubTotal
           /\ resetDue' = FALSE
    BY DEF PreFundingSubscription, SubCovers
  <1>r. resetDue' \in BOOLEAN
    BY <1>0, Context DEF Balances
  <1>1. OneFailure(failures, failures')
    BY DEF PreFundingSubscription, DBFails, OneFailure
  <1>2. Balances'
    BY Context, BillingAssumption, <1>0, <1>e, <1>r DEF PreFundingSubscription, SubOnly,
       Balances, NoOverdraft, SubscriptionWithinTotal
  <1>3. /\ s \in Session /\ n \in Net /\ failures \in Nat /\ failures' \in Nat
        /\ Accounts(r, s, n, record[r], failures) /\ Accounts(r, s, n, record[r], failures')
        /\ record[r] \in {"none", "consumed", "refunded"}
    BY <1>1, Context, StepContext
  <1>4. CASE Moves(r, [s EXCEPT !.at = "open", !.preConsumed = s.effective,
                !.preConsumedQuota = s.effective], [n EXCEPT !.sub = @ + s.effective], "consumed")
    <2>1. [s EXCEPT !.at = "open", !.preConsumed = s.effective,
                !.preConsumedQuota = s.effective] \in Session /\ [n
                EXCEPT !.sub = @ + s.effective] \in Net
          /\ Accounts(r, [s EXCEPT !.at = "open", !.preConsumed = s.effective,
                !.preConsumedQuota = s.effective], [n EXCEPT !.sub = @ + s.effective],
                "consumed", failures')
      BY <1>3, <1>4, SubscriptionTaken DEF PreFundingSubscription, At
    <2> QED
      BY <1>1, <1>2, <1>3, <2>1, <1>4, UpdateOne
  <1>5. CASE Moves(r, PreFailed(r, s, TRUE), n, record[r])
    <2>1. PreFailed(r, s, TRUE) \in Session /\ n \in Net
          /\ Accounts(r, PreFailed(r, s, TRUE), n, record[r], failures')
      BY <1>3, <1>5, PreConsumeRefused DEF PreFundingSubscription, At
    <2> QED
      BY <1>1, <1>2, <1>3, <2>1, <1>5, UpdateOne
  <1>6. CASE Moves(r, PreFailed(r, s, FALSE), n, record[r])
    <2>1. PreFailed(r, s, FALSE) \in Session /\ n \in Net
          /\ Accounts(r, PreFailed(r, s, FALSE), n, record[r], failures')
      BY <1>3, <1>6, PreConsumeRefused DEF PreFundingSubscription, At
    <2> QED
      BY <1>1, <1>2, <1>3, <2>1, <1>6, UpdateOne
  <1> QED
    BY <1>4, <1>5, <1>6, Context, <1>0 DEF PreFundingSubscription, SubOnly, Moves, At, DBFails

(* RollbackToken preserves Accounting. *)
LEMMA RollbackTokenStep ==
    ASSUME Accounting, NEW r \in Requests, RollbackToken(r)
    PROVE  Accounting'
  <1> DEFINE s == sess[r]
             n == net[r]
  <1>1. OneFailure(failures, failures')
    BY DEF RollbackToken, DBFails, OneFailure
  <1>2. Balances'
    BY Context, BillingAssumption DEF RollbackToken, MoveToken, TokenOnly, Balances,
       NoOverdraft, SubscriptionWithinTotal, Session
  <1>3. /\ s \in Session /\ n \in Net /\ failures \in Nat /\ failures' \in Nat
        /\ Accounts(r, s, n, record[r], failures) /\ Accounts(r, s, n, record[r], failures')
        /\ record[r] \in {"none", "consumed", "refunded"}
    BY <1>1, Context, StepContext
  <1>4. CASE Moves(r, NextSource([s EXCEPT !.tokenConsumed = 0]), [n
                EXCEPT !.token = @ + (-s.tokenConsumed)], record[r])
    <2>1. NextSource([s EXCEPT !.tokenConsumed = 0]) \in Session /\ [n
                EXCEPT !.token = @ + (-s.tokenConsumed)] \in Net
          /\ Accounts(r, NextSource([s EXCEPT !.tokenConsumed = 0]), [n
                EXCEPT !.token = @ + (-s.tokenConsumed)], record[r], failures')
      BY <1>3, <1>4, TokenRolledBack DEF RollbackToken, At
    <2> QED
      BY <1>1, <1>2, <1>3, <2>1, <1>4, UpdateOne
  <1>5. CASE Moves(r, NextSource([s EXCEPT !.tokenConsumed = 0]), n, record[r])
                /\ failures' = failures + 1
    <2>1. NextSource([s EXCEPT !.tokenConsumed = 0]) \in Session /\ n \in Net
          /\ Accounts(r, NextSource([s EXCEPT !.tokenConsumed = 0]), n, record[r], failures')
      BY <1>3, <1>5, TokenRolledBack DEF RollbackToken, At
    <2> QED
      BY <1>1, <1>2, <1>3, <2>1, <1>5, UpdateOne
  <1> QED
    BY <1>4, <1>5, Context DEF RollbackToken, MoveToken, TokenOnly, Moves, At, DBFails

(* CheckOverflow preserves Accounting. *)
LEMMA CheckOverflowStep ==
    ASSUME Accounting, NEW r \in Requests, CheckOverflow(r)
    PROVE  Accounting'
  <1> DEFINE s == sess[r]
             n == net[r]
  <1>1. OneFailure(failures, failures')
    BY DEF CheckOverflow, DBFails, OneFailure, LocalOnly
  <1>2. Balances'
    BY Context, BillingAssumption DEF CheckOverflow, LocalOnly, Balances, NoOverdraft,
       SubscriptionWithinTotal, Session
  <1>3. /\ s \in Session /\ n \in Net /\ failures \in Nat /\ failures' \in Nat
        /\ Accounts(r, s, n, record[r], failures) /\ Accounts(r, s, n, record[r], failures')
        /\ record[r] \in {"none", "consumed", "refunded"}
    BY <1>1, Context, StepContext
  <1>4. CASE Moves(r, TryWallet(s), n, record[r])
    <2>1. TryWallet(s) \in Session /\ n \in Net
          /\ Accounts(r, TryWallet(s), n, record[r], failures')
      BY <1>3, <1>4, FreshBefore, TrySourceFresh DEF CheckOverflow, At
    <2> QED
      BY <1>1, <1>2, <1>3, <2>1, <1>4, UpdateOne
  <1>5. CASE Moves(r, [s EXCEPT !.at = "denied"], n, record[r])
    <2>1. [s EXCEPT !.at = "denied"] \in Session /\ n \in Net
          /\ Accounts(r, [s EXCEPT !.at = "denied"], n, record[r], failures')
      BY ZenonT(60), <1>3, <1>5, FreshBefore, StopFresh DEF CheckOverflow, At
    <2> QED
      BY <1>1, <1>2, <1>3, <2>1, <1>5, UpdateOne
  <1> QED
    BY <1>4, <1>5, Context DEF CheckOverflow, LocalOnly, Moves, At, DBFails

(* ReserveWallet preserves Accounting. *)
LEMMA ReserveWalletStep ==
    ASSUME Accounting, NEW r \in Requests, NEW target \in Targets, ReserveWallet(r, target)
    PROVE  Accounting'
  <1> DEFINE s == sess[r]
             n == net[r]
  <1>0. target - s.preConsumedQuota \in Nat \ {0}
    BY Context, BillingAssumption DEF Session, ReserveWallet, ReserveSubscription, MayReserve
  <1>1. OneFailure(failures, failures')
    BY DEF ReserveWallet, DBFails, OneFailure
  <1>2. Balances'
    BY Context, BillingAssumption, <1>0 DEF ReserveWallet, MayReserve, MoveWallet, WalletCovers,
       UncheckedWallet, WalletOnly, Balances, NoOverdraft, SubscriptionWithinTotal
  <1>3. /\ s \in Session /\ n \in Net /\ failures \in Nat /\ failures' \in Nat
        /\ Accounts(r, s, n, record[r], failures) /\ Accounts(r, s, n, record[r], failures')
        /\ record[r] \in {"none", "consumed", "refunded"}
    BY <1>1, Context, StepContext
  <1>4. CASE Moves(r, [ReserveNext(r, s, target - s.preConsumedQuota)
                EXCEPT !.consumed = ConsumedAfter(r, s, target - s.preConsumedQuota)], [n
                EXCEPT !.wallet = @ + (target - s.preConsumedQuota)], record[r])
    <2>1. [ReserveNext(r, s, target - s.preConsumedQuota) EXCEPT !.consumed = ConsumedAfter(r,
                s, target - s.preConsumedQuota)] \in Session /\ [n
                EXCEPT !.wallet = @ + (target - s.preConsumedQuota)] \in Net
          /\ Accounts(r, [ReserveNext(r, s, target - s.preConsumedQuota)
                EXCEPT !.consumed = ConsumedAfter(r, s, target - s.preConsumedQuota)], [n
                EXCEPT !.wallet = @ + (target - s.preConsumedQuota)], record[r], failures')
      BY <1>3, <1>4, <1>0, WalletReserved DEF ReserveWallet, MayReserve, At
    <2> QED
      BY <1>1, <1>2, <1>3, <2>1, <1>4, UpdateOne
  <1>5. CASE Moves(r, ReserveFailed(s), n, record[r])
    <2>1. ReserveFailed(s) \in Session /\ n \in Net
          /\ Accounts(r, ReserveFailed(s), n, record[r], failures')
      BY <1>3, <1>5, ReserveRefused DEF ReserveWallet, MayReserve, At
    <2> QED
      BY <1>1, <1>2, <1>3, <2>1, <1>5, UpdateOne
  <1> QED
    BY <1>4, <1>5, Context, <1>0 DEF ReserveWallet, MayReserve, MoveWallet, WalletOnly, Moves,
       At, DBFails

(* ReserveSubscription preserves Accounting. *)
LEMMA ReserveSubscriptionStep ==
    ASSUME Accounting, NEW r \in Requests, NEW target \in Targets, ReserveSubscription(r, target)
    PROVE  Accounting'
  <1> DEFINE s == sess[r]
             n == net[r]
  <1>0. target - s.preConsumedQuota \in Nat \ {0}
    BY Context, BillingAssumption DEF Session, ReserveWallet, ReserveSubscription, MayReserve
  <1>1. OneFailure(failures, failures')
    BY DEF ReserveSubscription, DBFails, OneFailure
  <1>2. Balances'
    BY Context, BillingAssumption, <1>0 DEF ReserveSubscription, MayReserve, SubCovers,
       SubAfter, SubOnly, Balances, NoOverdraft, SubscriptionWithinTotal
  <1>3. /\ s \in Session /\ n \in Net /\ failures \in Nat /\ failures' \in Nat
        /\ Accounts(r, s, n, record[r], failures) /\ Accounts(r, s, n, record[r], failures')
        /\ record[r] \in {"none", "consumed", "refunded"}
    BY <1>1, Context, StepContext
  <1>4. CASE Moves(r, ReserveNext(r, s, target - s.preConsumedQuota), [n
                EXCEPT !.sub = @ + (target - s.preConsumedQuota)], record[r])
    <2>1. ReserveNext(r, s, target - s.preConsumedQuota) \in Session /\ [n
                EXCEPT !.sub = @ + (target - s.preConsumedQuota)] \in Net
          /\ Accounts(r, ReserveNext(r, s, target - s.preConsumedQuota), [n
                EXCEPT !.sub = @ + (target - s.preConsumedQuota)], record[r], failures')
      BY <1>3, <1>4, <1>0, SubscriptionReserved DEF ReserveSubscription, MayReserve, At
    <2> QED
      BY <1>1, <1>2, <1>3, <2>1, <1>4, UpdateOne
  <1>5. CASE Moves(r, ReserveFailed(s), n, record[r])
    <2>1. ReserveFailed(s) \in Session /\ n \in Net
          /\ Accounts(r, ReserveFailed(s), n, record[r], failures')
      BY <1>3, <1>5, ReserveRefused DEF ReserveSubscription, MayReserve, At
    <2> QED
      BY <1>1, <1>2, <1>3, <2>1, <1>5, UpdateOne
  <1> QED
    BY <1>4, <1>5, Context, <1>0 DEF ReserveSubscription, MayReserve, SubOnly, Moves, At, DBFails

(* ReserveToken preserves Accounting. *)
LEMMA ReserveTokenStep ==
    ASSUME Accounting, NEW r \in Requests, ReserveToken(r)
    PROVE  Accounting'
  <1> DEFINE s == sess[r]
             n == net[r]
  <1>0. s.delta \in Int /\ (s.at \in Reserving => s.delta > 0)
    BY Context DEF Session, Accounts, FlagsInv
  <1>1. OneFailure(failures, failures')
    BY DEF ReserveToken, DBFails, OneFailure
  <1>2. Balances'
    BY Context, BillingAssumption, <1>0 DEF ReserveToken, MoveToken, UncheckedToken,
       TokenCovers, TokenShare, TokenOnly, Balances, NoOverdraft, SubscriptionWithinTotal,
       Reserving, At
  <1>3. /\ s \in Session /\ n \in Net /\ failures \in Nat /\ failures' \in Nat
        /\ Accounts(r, s, n, record[r], failures) /\ Accounts(r, s, n, record[r], failures')
        /\ record[r] \in {"none", "consumed", "refunded"}
    BY <1>1, Context, StepContext
  <1>4. CASE Moves(r, Reserved(r, s), [n EXCEPT !.token = @ + TokenShare(r, s.delta)], record[r])
    <2>1. Reserved(r, s) \in Session /\ [n EXCEPT !.token = @ + TokenShare(r, s.delta)] \in Net
          /\ Accounts(r, Reserved(r, s), [n EXCEPT !.token = @ + TokenShare(r, s.delta)],
                record[r], failures')
      BY <1>3, <1>4, ReserveDone DEF ReserveToken, At
    <2> QED
      BY <1>1, <1>2, <1>3, <2>1, <1>4, UpdateOne
  <1>5. CASE Moves(r, [s EXCEPT !.at = "rollbackReserve"], n, record[r])
    <2>1. [s EXCEPT !.at = "rollbackReserve"] \in Session /\ n \in Net
          /\ Accounts(r, [s EXCEPT !.at = "rollbackReserve"], n, record[r], failures')
      BY <1>3, <1>5, ReserveTokenRefused DEF ReserveToken, At
    <2> QED
      BY <1>1, <1>2, <1>3, <2>1, <1>5, UpdateOne
  <1> QED
    BY <1>4, <1>5, Context, <1>0 DEF ReserveToken, MoveToken, TokenOnly, Moves, At, DBFails

(* RollbackReserve preserves Accounting. *)
LEMMA RollbackReserveStep ==
    ASSUME Accounting, NEW r \in Requests, RollbackReserve(r)
    PROVE  Accounting'
  <1> DEFINE s == sess[r]
             n == net[r]
  <1>0. s.delta \in Int /\ (s.at \in Reserving => s.delta > 0)
    BY Context DEF Session, Accounts, FlagsInv
  <1>1. OneFailure(failures, failures')
    BY DEF RollbackReserve, DBFails, OneFailure
  <1>2. Balances'
    BY Context, BillingAssumption, <1>0 DEF RollbackReserve, MoveWallet, SubAfter, Balances,
       NoOverdraft, SubscriptionWithinTotal, Reserving, At
  <1>3. /\ s \in Session /\ n \in Net /\ failures \in Nat /\ failures' \in Nat
        /\ Accounts(r, s, n, record[r], failures) /\ Accounts(r, s, n, record[r], failures')
        /\ record[r] \in {"none", "consumed", "refunded"}
    BY <1>1, Context, StepContext
  <1>4. CASE Moves(r, RolledBack(s), [n EXCEPT !.wallet = @ + (-s.delta)], record[r])
                /\ s.source = "wallet"
    <2>1. RolledBack(s) \in Session /\ [n EXCEPT !.wallet = @ + (-s.delta)] \in Net
          /\ Accounts(r, RolledBack(s), [n EXCEPT !.wallet = @ + (-s.delta)], record[r],
                failures')
      BY <1>3, <1>4, WalletRolledBack DEF RollbackReserve, At
    <2> QED
      BY <1>1, <1>2, <1>3, <2>1, <1>4, UpdateOne
  <1>5. CASE Moves(r, [s EXCEPT !.at = "failed"], [n EXCEPT !.sub = @ - s.delta], record[r])
                /\ s.source # "wallet"
    <2>1. [s EXCEPT !.at = "failed"] \in Session /\ [n EXCEPT !.sub = @ - s.delta] \in Net
          /\ Accounts(r, [s EXCEPT !.at = "failed"], [n EXCEPT !.sub = @ - s.delta], record[r],
                failures')
      BY <1>3, <1>5, SubscriptionRolledBack DEF RollbackReserve, At
    <2> QED
      BY <1>1, <1>2, <1>3, <2>1, <1>5, UpdateOne
  <1>6. CASE Moves(r, [s EXCEPT !.at = "failed"], n, record[r]) /\ failures' = failures + 1
    <2>1. [s EXCEPT !.at = "failed"] \in Session /\ n \in Net
          /\ Accounts(r, [s EXCEPT !.at = "failed"], n, record[r], failures')
      BY <1>3, <1>6, RollbackLost DEF RollbackReserve, At
    <2> QED
      BY <1>1, <1>2, <1>3, <2>1, <1>6, UpdateOne
  <1> QED
    <2>1. CASE s.source = "wallet"
      BY <1>4, <1>5, <1>6, <2>1, Context, <1>0 DEF RollbackReserve, MoveWallet, Moves, At, DBFails
    <2>2. CASE s.source # "wallet"
      BY <1>4, <1>5, <1>6, <2>2, Context, <1>0 DEF RollbackReserve, MoveWallet, Moves, At, DBFails
    <2> QED BY <2>1, <2>2

(* SettleWallet preserves Accounting. *)
LEMMA SettleWalletStep ==
    ASSUME Accounting, NEW r \in Requests, NEW actual \in Actuals, SettleWallet(r, actual)
    PROVE  Accounting'
  <1> DEFINE s == sess[r]
             n == net[r]
  <1>0. actual \in Nat /\ s.preConsumedQuota \in Nat /\ actual - s.preConsumedQuota \in Int
    BY Context, BillingAssumption DEF Session
  <1>1. OneFailure(failures, failures')
    BY DEF SettleWallet, DBFails, OneFailure
  <1>2. Balances'
    BY Context, BillingAssumption, <1>0 DEF SettleWallet, MoveWallet, UncheckedWallet,
       WalletOnly, Balances, NoOverdraft, SubscriptionWithinTotal
  <1>3. /\ s \in Session /\ n \in Net /\ failures \in Nat /\ failures' \in Nat
        /\ Accounts(r, s, n, record[r], failures) /\ Accounts(r, s, n, record[r], failures')
        /\ record[r] \in {"none", "consumed", "refunded"}
    BY <1>1, Context, StepContext
  <1>4. CASE Moves(r, [[s EXCEPT !.actual = actual,
                !.delta = actual - s.preConsumedQuota] EXCEPT !.at = "done", !.settled = TRUE],
                n, record[r]) /\ actual = s.preConsumedQuota
    <2>1. [[s EXCEPT !.actual = actual, !.delta = actual - s.preConsumedQuota]
                EXCEPT !.at = "done", !.settled = TRUE] \in Session /\ n \in Net
          /\ Accounts(r, [[s EXCEPT !.actual = actual,
                !.delta = actual - s.preConsumedQuota] EXCEPT !.at = "done", !.settled = TRUE],
                n, record[r], failures')
      BY <1>3, <1>4, <1>0, SettledAtEstimate DEF SettleWallet, At
    <2> QED
      BY <1>1, <1>2, <1>3, <2>1, <1>4, UpdateOne
  <1>5. CASE Moves(r, SettleNext(r, [s EXCEPT !.actual = actual,
                !.delta = actual - s.preConsumedQuota]), [n
                EXCEPT !.wallet = @ + (actual - s.preConsumedQuota)], record[r])
    <2>1. SettleNext(r, [s EXCEPT !.actual = actual,
                !.delta = actual - s.preConsumedQuota]) \in Session /\ [n
                EXCEPT !.wallet = @ + (actual - s.preConsumedQuota)] \in Net
          /\ Accounts(r, SettleNext(r, [s EXCEPT !.actual = actual,
                !.delta = actual - s.preConsumedQuota]), [n
                EXCEPT !.wallet = @ + (actual - s.preConsumedQuota)], record[r], failures')
      BY <1>3, <1>5, <1>0, WalletSettled DEF SettleWallet, At
    <2> QED
      BY <1>1, <1>2, <1>3, <2>1, <1>5, UpdateOne
  <1>6. CASE Moves(r, [[s EXCEPT !.actual = actual,
                !.delta = actual - s.preConsumedQuota] EXCEPT !.at = "unsettled"], n, record[r])
    <2>1. [[s EXCEPT !.actual = actual, !.delta = actual - s.preConsumedQuota]
                EXCEPT !.at = "unsettled"] \in Session /\ n \in Net
          /\ Accounts(r, [[s EXCEPT !.actual = actual,
                !.delta = actual - s.preConsumedQuota] EXCEPT !.at = "unsettled"], n, record[r],
                failures')
      BY <1>3, <1>6, <1>0, SettleRefused DEF SettleWallet, At
    <2> QED
      BY <1>1, <1>2, <1>3, <2>1, <1>6, UpdateOne
  <1> QED
    BY <1>4, <1>5, <1>6, Context, <1>0 DEF SettleWallet, MoveWallet, WalletOnly, Moves, At,
       DBFails

(* SettleSubscription preserves Accounting. *)
LEMMA SettleSubscriptionStep ==
    ASSUME Accounting, NEW r \in Requests, NEW actual \in Actuals, SettleSubscription(r, actual)
    PROVE  Accounting'
  <1> DEFINE s == sess[r]
             n == net[r]
  <1>0. actual \in Nat /\ s.preConsumedQuota \in Nat /\ actual - s.preConsumedQuota \in Int
    BY Context, BillingAssumption DEF Session
  <1>1. OneFailure(failures, failures')
    BY DEF SettleSubscription, DBFails, OneFailure
  <1>2. Balances'
    BY Context, BillingAssumption, <1>0 DEF SettleSubscription, SubAfter, SubOnly, Balances,
       NoOverdraft, SubscriptionWithinTotal
  <1>3. /\ s \in Session /\ n \in Net /\ failures \in Nat /\ failures' \in Nat
        /\ Accounts(r, s, n, record[r], failures) /\ Accounts(r, s, n, record[r], failures')
        /\ record[r] \in {"none", "consumed", "refunded"}
    BY <1>1, Context, StepContext
  <1>4. CASE Moves(r, [[s EXCEPT !.actual = actual,
                !.delta = actual - s.preConsumedQuota] EXCEPT !.at = "done", !.settled = TRUE],
                n, record[r]) /\ actual = s.preConsumedQuota
    <2>1. [[s EXCEPT !.actual = actual, !.delta = actual - s.preConsumedQuota]
                EXCEPT !.at = "done", !.settled = TRUE] \in Session /\ n \in Net
          /\ Accounts(r, [[s EXCEPT !.actual = actual,
                !.delta = actual - s.preConsumedQuota] EXCEPT !.at = "done", !.settled = TRUE],
                n, record[r], failures')
      BY <1>3, <1>4, <1>0, SettledAtEstimate DEF SettleSubscription, At
    <2> QED
      BY <1>1, <1>2, <1>3, <2>1, <1>4, UpdateOne
  <1>5. CASE Moves(r, SettleNext(r, [s EXCEPT !.actual = actual,
                !.delta = actual - s.preConsumedQuota]), [n
                EXCEPT !.sub = @ + (actual - s.preConsumedQuota)], record[r])
    <2>1. SettleNext(r, [s EXCEPT !.actual = actual,
                !.delta = actual - s.preConsumedQuota]) \in Session /\ [n
                EXCEPT !.sub = @ + (actual - s.preConsumedQuota)] \in Net
          /\ Accounts(r, SettleNext(r, [s EXCEPT !.actual = actual,
                !.delta = actual - s.preConsumedQuota]), [n
                EXCEPT !.sub = @ + (actual - s.preConsumedQuota)], record[r], failures')
      BY <1>3, <1>5, <1>0, SubscriptionSettled DEF SettleSubscription, At
    <2> QED
      BY <1>1, <1>2, <1>3, <2>1, <1>5, UpdateOne
  <1>6. CASE Moves(r, [[s EXCEPT !.actual = actual,
                !.delta = actual - s.preConsumedQuota] EXCEPT !.at = "unsettled"], n, record[r])
    <2>1. [[s EXCEPT !.actual = actual, !.delta = actual - s.preConsumedQuota]
                EXCEPT !.at = "unsettled"] \in Session /\ n \in Net
          /\ Accounts(r, [[s EXCEPT !.actual = actual,
                !.delta = actual - s.preConsumedQuota] EXCEPT !.at = "unsettled"], n, record[r],
                failures')
      BY <1>3, <1>6, <1>0, SettleRefused DEF SettleSubscription, At
    <2> QED
      BY <1>1, <1>2, <1>3, <2>1, <1>6, UpdateOne
  <1> QED
    BY <1>4, <1>5, <1>6, Context, <1>0 DEF SettleSubscription, SubOnly, Moves, At, DBFails

(* SettleToken preserves Accounting. *)
LEMMA SettleTokenStep ==
    ASSUME Accounting, NEW r \in Requests, SettleToken(r)
    PROVE  Accounting'
  <1> DEFINE s == sess[r]
             n == net[r]
  <1>0. s.delta \in Int /\ (s.at \in Reserving => s.delta > 0)
    BY Context DEF Session, Accounts, FlagsInv
  <1>1. OneFailure(failures, failures')
    BY DEF SettleToken, DBFails, OneFailure
  <1>2. Balances'
    BY Context, BillingAssumption, <1>0 DEF SettleToken, MoveToken, UncheckedToken, TokenOnly,
       Balances, NoOverdraft, SubscriptionWithinTotal
  <1>3. /\ s \in Session /\ n \in Net /\ failures \in Nat /\ failures' \in Nat
        /\ Accounts(r, s, n, record[r], failures) /\ Accounts(r, s, n, record[r], failures')
        /\ record[r] \in {"none", "consumed", "refunded"}
    BY <1>1, Context, StepContext
  <1>4. CASE Moves(r, [s EXCEPT !.at = "done", !.settled = TRUE], [n
                EXCEPT !.token = @ + s.delta], record[r])
    <2>1. [s EXCEPT !.at = "done", !.settled = TRUE] \in Session /\ [n
                EXCEPT !.token = @ + s.delta] \in Net
          /\ Accounts(r, [s EXCEPT !.at = "done", !.settled = TRUE], [n
                EXCEPT !.token = @ + s.delta], record[r], failures')
      BY <1>3, <1>4, TokenSettled DEF SettleToken, At
    <2> QED
      BY <1>1, <1>2, <1>3, <2>1, <1>4, UpdateOne
  <1>5. CASE Moves(r, [s EXCEPT !.at = "done", !.settled = TRUE], n, record[r])
                /\ failures' = failures + 1
    <2>1. [s EXCEPT !.at = "done", !.settled = TRUE] \in Session /\ n \in Net
          /\ Accounts(r, [s EXCEPT !.at = "done", !.settled = TRUE], n, record[r], failures')
      BY <1>3, <1>5, TokenSettleLost DEF SettleToken, At
    <2> QED
      BY <1>1, <1>2, <1>3, <2>1, <1>5, UpdateOne
  <1> QED
    BY <1>4, <1>5, Context, <1>0 DEF SettleToken, MoveToken, TokenOnly, Moves, At, DBFails

(* Refund preserves Accounting. *)
LEMMA RefundStep ==
    ASSUME Accounting, NEW r \in Requests, Refund(r)
    PROVE  Accounting'
  <1> DEFINE s == sess[r]
             n == net[r]
  <1>1. OneFailure(failures, failures')
    BY DEF Refund, DBFails, OneFailure, LocalOnly
  <1>2. Balances'
    BY Context, BillingAssumption DEF Refund, LocalOnly, Balances, NoOverdraft,
       SubscriptionWithinTotal, Session
  <1>3. /\ s \in Session /\ n \in Net /\ failures \in Nat /\ failures' \in Nat
        /\ Accounts(r, s, n, record[r], failures) /\ Accounts(r, s, n, record[r], failures')
        /\ record[r] \in {"none", "consumed", "refunded"}
    BY <1>1, Context, StepContext
  <1>4. CASE Moves(r, [s EXCEPT !.at = "refundFunding", !.refunded = TRUE], n, record[r])
    <2>1. [s EXCEPT !.at = "refundFunding", !.refunded = TRUE] \in Session /\ n \in Net
          /\ Accounts(r, [s EXCEPT !.at = "refundFunding", !.refunded = TRUE], n, record[r],
                failures')
      BY <1>3, <1>4, RefundStarts DEF Refund, At
    <2> QED
      BY <1>1, <1>2, <1>3, <2>1, <1>4, UpdateOne
  <1>5. CASE Moves(r, [s EXCEPT !.at = "done"], n, record[r]) /\ ~NeedsRefund(s)
    <2>1. [s EXCEPT !.at = "done"] \in Session /\ n \in Net
          /\ Accounts(r, [s EXCEPT !.at = "done"], n, record[r], failures')
      BY <1>3, <1>5, NothingToRefund DEF Refund, At
    <2> QED
      BY <1>1, <1>2, <1>3, <2>1, <1>5, UpdateOne
  <1> QED
    BY <1>4, <1>5, Context DEF Refund, LocalOnly, Moves, At, DBFails

(* A session that is over needs no refund, so that a late call does        *)
(* nothing; one whose Settle failed is refunded like an open one.          *)
LEMMA LateRefundStep ==
    ASSUME Accounting, NEW r \in Requests, LateRefund(r)
    PROVE  Accounting'
  <1> DEFINE s == sess[r]
             n == net[r]
             t == [s EXCEPT !.at = "refundFunding", !.refunded = TRUE]
  <1>1. OneFailure(failures, failures')
    BY DEF LateRefund, DBFails, OneFailure, LocalOnly
  <1>2. Balances'
    BY Context, BillingAssumption DEF LateRefund, LocalOnly, Balances, NoOverdraft,
       SubscriptionWithinTotal, Session
  <1>3. /\ s \in Session /\ n \in Net /\ failures \in Nat /\ failures' \in Nat
        /\ Accounts(r, s, n, record[r], failures) /\ Accounts(r, s, n, record[r], failures')
        /\ record[r] \in {"none", "consumed", "refunded"}
    BY <1>1, Context, StepContext
  <1>4. CASE NeedsRefund(s)
    <2>1. s.at = "unsettled"
      BY <1>3, <1>4 DEF LateRefund, Accounts, FlagsInv
    <2>2. t \in Session /\ n \in Net /\ Accounts(r, t, n, record[r], failures')
      BY <1>3, <2>1, RefundStarts
    <2>3. Moves(r, t, n, record[r])
      BY <1>4, Context DEF LateRefund, LocalOnly, Moves
    <2> QED
      BY <1>1, <1>2, <1>3, <2>2, <2>3, UpdateOne
  <1>5. CASE ~NeedsRefund(s)
    <2>1. Moves(r, s, n, record[r])
      BY <1>5, Context DEF LateRefund, LocalOnly, Moves
    <2> QED
      BY <1>1, <1>2, <1>3, <2>1, UpdateOne
  <1> QED
    BY <1>4, <1>5

(* RefundWallet preserves Accounting. *)
LEMMA RefundWalletStep ==
    ASSUME Accounting, NEW r \in Requests, RefundWallet(r)
    PROVE  Accounting'
  <1> DEFINE s == sess[r]
             n == net[r]
  <1>0. s.consumed \in Int /\ (At(r, "refundFunding") /\ s.source = "wallet" => s.consumed >= 0)
    BY Context DEF Session, Accounts, WalletInv, At
  <1>1. OneFailure(failures, failures')
    BY DEF RefundWallet, DBFails, OneFailure
  <1>2. Balances'
    BY Context, BillingAssumption, <1>0 DEF RefundWallet, MoveWallet, WalletOnly, Balances,
       NoOverdraft, SubscriptionWithinTotal
  <1>3. /\ s \in Session /\ n \in Net /\ failures \in Nat /\ failures' \in Nat
        /\ Accounts(r, s, n, record[r], failures) /\ Accounts(r, s, n, record[r], failures')
        /\ record[r] \in {"none", "consumed", "refunded"}
    BY <1>1, Context, StepContext
  <1>4. CASE Moves(r, [s EXCEPT !.at = "refundToken"], [n EXCEPT !.wallet = @ + (-s.consumed)],
                record[r])
    <2>1. [s EXCEPT !.at = "refundToken"] \in Session /\ [n
                EXCEPT !.wallet = @ + (-s.consumed)] \in Net
          /\ Accounts(r, [s EXCEPT !.at = "refundToken"], [n
                EXCEPT !.wallet = @ + (-s.consumed)], record[r], failures')
      BY <1>3, <1>4, WalletRefunded DEF RefundWallet, At
    <2> QED
      BY <1>1, <1>2, <1>3, <2>1, <1>4, UpdateOne
  <1>5. CASE Moves(r, [s EXCEPT !.at = "refundToken"], n, record[r]) /\ failures' = failures + 1
    <2>1. [s EXCEPT !.at = "refundToken"] \in Session /\ n \in Net
          /\ Accounts(r, [s EXCEPT !.at = "refundToken"], n, record[r], failures')
      BY <1>3, <1>5, WalletRefundLost DEF RefundWallet, At
    <2> QED
      BY <1>1, <1>2, <1>3, <2>1, <1>5, UpdateOne
  <1> QED
    BY <1>4, <1>5, Context, <1>0 DEF RefundWallet, MoveWallet, WalletOnly, Moves, At, DBFails

(* RefundSubscription preserves Accounting. *)
LEMMA RefundSubscriptionStep ==
    ASSUME Accounting, NEW r \in Requests, RefundSubscription(r)
    PROVE  Accounting'
  <1> DEFINE s == sess[r]
             n == net[r]
  <1>0. s.preConsumed \in Nat /\ s.preConsumed \in Int /\ s.extraReserved \in Nat
                /\ s.tokenConsumed \in Nat
    BY Context DEF Session
  <1>1. OneFailure(failures, failures')
    BY DEF RefundSubscription, DBFails, OneFailure
  <1>2. Balances'
    BY Context, BillingAssumption, <1>0 DEF RefundSubscription, SubAfter, SubOnly, Balances,
       NoOverdraft, SubscriptionWithinTotal
  <1>3. /\ s \in Session /\ n \in Net /\ failures \in Nat /\ failures' \in Nat
        /\ Accounts(r, s, n, record[r], failures) /\ Accounts(r, s, n, record[r], failures')
        /\ record[r] \in {"none", "consumed", "refunded"}
    BY <1>1, Context, StepContext
  <1>4. CASE Moves(r, [s EXCEPT !.at = "refundExtra"], n, record[r]) /\ record[r] = "refunded"
    <2>1. [s EXCEPT !.at = "refundExtra"] \in Session /\ n \in Net
          /\ Accounts(r, [s EXCEPT !.at = "refundExtra"], n, record[r], failures')
      BY <1>3, <1>4, AlreadyRefunded DEF RefundSubscription, At
    <2> QED
      BY <1>1, <1>2, <1>3, <2>1, <1>4, UpdateOne
  <1>5. CASE Moves(r, [s EXCEPT !.at = "refundExtra"], [n EXCEPT !.sub = @ - s.preConsumed],
                "refunded") /\ record[r] # "refunded"
    <2>1. [s EXCEPT !.at = "refundExtra"] \in Session /\ [n
                EXCEPT !.sub = @ - s.preConsumed] \in Net
          /\ Accounts(r, [s EXCEPT !.at = "refundExtra"], [n EXCEPT !.sub = @ - s.preConsumed],
                "refunded", failures')
      BY <1>3, <1>5, SubscriptionRefunded DEF RefundSubscription, At
    <2> QED
      BY <1>1, <1>2, <1>3, <2>1, <1>5, UpdateOne
  <1>6. CASE Moves(r, [s EXCEPT !.tries = @ + 1,
                !.at = IF s.tries + 1 < 3 THEN "refundFunding" ELSE "refundExtra"], [n
                EXCEPT !.sub = @ - s.preConsumed], "refunded") /\ failures' = failures + 1
    <2>1. [s EXCEPT !.tries = @ + 1,
                !.at = IF s.tries + 1 < 3 THEN "refundFunding" ELSE "refundExtra"] \in Session /\ [n EXCEPT !.sub = @ - s.preConsumed] \in Net
          /\ Accounts(r, [s EXCEPT !.tries = @ + 1,
                !.at = IF s.tries + 1 < 3 THEN "refundFunding" ELSE "refundExtra"], [n
                EXCEPT !.sub = @ - s.preConsumed], "refunded", failures')
      BY <1>3, <1>6, <1>0, RefundRetried DEF RefundSubscription, At
    <2> QED
      BY <1>1, <1>2, <1>3, <2>1, <1>6, UpdateOne
  <1>7. CASE Moves(r, [s EXCEPT !.tries = @ + 1,
                !.at = IF s.tries + 1 < 3 THEN "refundFunding" ELSE "refundExtra"], [n
                EXCEPT !.sub = @ - s.preConsumed], record[r]) /\ failures' = failures + 1
    <2>1. [s EXCEPT !.tries = @ + 1,
                !.at = IF s.tries + 1 < 3 THEN "refundFunding" ELSE "refundExtra"] \in Session /\ [n EXCEPT !.sub = @ - s.preConsumed] \in Net
          /\ Accounts(r, [s EXCEPT !.tries = @ + 1,
                !.at = IF s.tries + 1 < 3 THEN "refundFunding" ELSE "refundExtra"], [n
                EXCEPT !.sub = @ - s.preConsumed], record[r], failures')
      BY <1>3, <1>7, <1>0, RefundRetried DEF RefundSubscription, At
    <2> QED
      BY <1>1, <1>2, <1>3, <2>1, <1>7, UpdateOne
  <1>8. CASE Moves(r, [s EXCEPT !.tries = @ + 1,
                !.at = IF s.tries + 1 < 3 THEN "refundFunding" ELSE "refundExtra"], n,
                record[r]) /\ failures' = failures + 1
    <2>1. [s EXCEPT !.tries = @ + 1,
                !.at = IF s.tries + 1 < 3 THEN "refundFunding" ELSE "refundExtra"] \in Session /\ n \in Net
          /\ Accounts(r, [s EXCEPT !.tries = @ + 1,
                !.at = IF s.tries + 1 < 3 THEN "refundFunding" ELSE "refundExtra"], n,
                record[r], failures')
      BY <1>3, <1>8, <1>0, RefundRetriedIdle DEF RefundSubscription, At
    <2> QED
      BY <1>1, <1>2, <1>3, <2>1, <1>8, UpdateOne
  <1> QED
    BY <1>4, <1>5, <1>6, <1>7, <1>8, Context, <1>0 DEF RefundSubscription, SubOnly, Moves, At,
       DBFails

(* RefundExtra preserves Accounting. *)
LEMMA RefundExtraStep ==
    ASSUME Accounting, NEW r \in Requests, RefundExtra(r)
    PROVE  Accounting'
  <1> DEFINE s == sess[r]
             n == net[r]
  <1>0. s.preConsumed \in Nat /\ s.preConsumed \in Int /\ s.extraReserved \in Nat
                /\ s.tokenConsumed \in Nat
    BY Context DEF Session
  <1>1. OneFailure(failures, failures')
    BY DEF RefundExtra, DBFails, OneFailure
  <1>2. Balances'
    BY Context, BillingAssumption, <1>0 DEF RefundExtra, SubAfter, SubOnly, Balances,
       NoOverdraft, SubscriptionWithinTotal
  <1>3. /\ s \in Session /\ n \in Net /\ failures \in Nat /\ failures' \in Nat
        /\ Accounts(r, s, n, record[r], failures) /\ Accounts(r, s, n, record[r], failures')
        /\ record[r] \in {"none", "consumed", "refunded"}
    BY <1>1, Context, StepContext
  <1>4. CASE Moves(r, [s EXCEPT !.at = "refundToken"], [n EXCEPT !.sub = @ - s.extraReserved],
                record[r])
    <2>1. [s EXCEPT !.at = "refundToken"] \in Session /\ [n
                EXCEPT !.sub = @ - s.extraReserved] \in Net
          /\ Accounts(r, [s EXCEPT !.at = "refundToken"], [n
                EXCEPT !.sub = @ - s.extraReserved], record[r], failures')
      BY <1>3, <1>4, ExtraRefunded DEF RefundExtra, At
    <2> QED
      BY <1>1, <1>2, <1>3, <2>1, <1>4, UpdateOne
  <1>5. CASE Moves(r, [s EXCEPT !.at = "refundToken"], n, record[r]) /\ failures' = failures + 1
    <2>1. [s EXCEPT !.at = "refundToken"] \in Session /\ n \in Net
          /\ Accounts(r, [s EXCEPT !.at = "refundToken"], n, record[r], failures')
      BY <1>3, <1>5, ExtraRefundLost DEF RefundExtra, At
    <2> QED
      BY <1>1, <1>2, <1>3, <2>1, <1>5, UpdateOne
  <1> QED
    BY <1>4, <1>5, Context, <1>0 DEF RefundExtra, SubOnly, Moves, At, DBFails

(* RefundToken preserves Accounting. *)
LEMMA RefundTokenStep ==
    ASSUME Accounting, NEW r \in Requests, RefundToken(r)
    PROVE  Accounting'
  <1> DEFINE s == sess[r]
             n == net[r]
  <1>0. s.preConsumed \in Nat /\ s.preConsumed \in Int /\ s.extraReserved \in Nat
                /\ s.tokenConsumed \in Nat
    BY Context DEF Session
  <1>1. OneFailure(failures, failures')
    BY DEF RefundToken, DBFails, OneFailure
  <1>2. Balances'
    BY Context, BillingAssumption, <1>0 DEF RefundToken, MoveToken, TokenShare, TokenOnly,
       Balances, NoOverdraft, SubscriptionWithinTotal
  <1>3. /\ s \in Session /\ n \in Net /\ failures \in Nat /\ failures' \in Nat
        /\ Accounts(r, s, n, record[r], failures) /\ Accounts(r, s, n, record[r], failures')
        /\ record[r] \in {"none", "consumed", "refunded"}
    BY <1>1, Context, StepContext
  <1>4. CASE Moves(r, [s EXCEPT !.at = "done"], [n EXCEPT !.token = @ + (-TokenShare(r,
                s.tokenConsumed))], record[r])
    <2>1. [s EXCEPT !.at = "done"] \in Session /\ [n EXCEPT !.token = @ + (-TokenShare(r,
                s.tokenConsumed))] \in Net
          /\ Accounts(r, [s EXCEPT !.at = "done"], [n EXCEPT !.token = @ + (-TokenShare(r,
                s.tokenConsumed))], record[r], failures')
      BY <1>3, <1>4, TokenRefunded DEF RefundToken, At
    <2> QED
      BY <1>1, <1>2, <1>3, <2>1, <1>4, UpdateOne
  <1>5. CASE Moves(r, [s EXCEPT !.at = "done"], n, record[r]) /\ failures' = failures + 1
    <2>1. [s EXCEPT !.at = "done"] \in Session /\ n \in Net
          /\ Accounts(r, [s EXCEPT !.at = "done"], n, record[r], failures')
      BY <1>3, <1>5, TokenRefundLost DEF RefundToken, At
    <2> QED
      BY <1>1, <1>2, <1>3, <2>1, <1>5, UpdateOne
  <1> QED
    BY <1>4, <1>5, Context, <1>0 DEF RefundToken, MoveToken, TokenOnly, Moves, At, DBFails

(* A crash stops every running session where it is.                        *)
LEMMA CrashStep ==
    ASSUME Accounting, Crash
    PROVE  Accounting'
  <1>1. ASSUME NEW q \in Requests
        PROVE  sess'[q] \in Session /\ Accounts(q, sess'[q], net'[q], record'[q], failures')
    <2>1. CASE sess[q].at \in Running \cup {"unsettled"}
      <3>1. sess'[q] = [sess[q] EXCEPT !.at = "lost"]
        BY <2>1 DEF Crash
      <3>2. UNCHANGED <<net, record, failures>>
        BY DEF Crash, LocalOnly
      <3> QED
        BY <2>1, <3>1, <3>2, Context, LostInCrash
    <2>2. CASE sess[q].at \notin Running \cup {"unsettled"}
      BY <2>2, Context DEF Crash, LocalOnly
    <2> QED
      BY <2>1, <2>2
  <1>2. sess' \in [Requests -> Session]
    BY <1>1 DEF Crash
  <1> QED
    BY <1>1, <1>2 DEF Accounting, Crash, LocalOnly, TypeOK, NoOverdraft, SubscriptionWithinTotal

(* The clock and the maintenance task touch the subscription only, and a   *)
(* reset never takes its usage past the total.                             *)
LEMMA ClockStep ==
    ASSUME Accounting, PeriodEnds \/ ResetDueSubscriptions \/ Expire \/ UNCHANGED vars
    PROVE  Accounting'
  <1>1. UNCHANGED <<sess, net, record, failures>>
    BY DEF PeriodEnds, ResetDueSubscriptions, Expire, vars
  <1>2. Accounting => TypeOK /\ Balances
    BY DEF Accounting, TypeOK, Balances
  <1>3. resetDue' \in BOOLEAN /\ subActive' \in BOOLEAN
    BY <1>2 DEF PeriodEnds, ResetDueSubscriptions, Expire, vars, Balances
  <1>4. Balances'
    BY <1>2, <1>3, BillingAssumption
    DEF PeriodEnds, ResetDueSubscriptions, Expire, vars, Balances, NoOverdraft,
                SubscriptionWithinTotal
  <1>5. TypeOK'
    BY <1>1, <1>2, <1>4 DEF TypeOK, Balances
  <1> QED
    BY <1>1, <1>4, <1>5 DEF Accounting, Balances

(* Initially no request holds anything.                                    *)
LEMMA InitAccounting == Init => Accounting
  <1> SUFFICES ASSUME Init PROVE Accounting
    OBVIOUS
  <1> DEFINE none == [wallet |-> 0, token |-> 0, sub |-> 0]
  <1>1. NewSession \in Session /\ none \in Net
    BY DEF NewSession, Session, AllPreferences, Net
  <1>a. subActive \in BOOLEAN /\ resetDue \in BOOLEAN
    BY BillingAssumption DEF Init
  <1>2. TypeOK
    BY <1>1, <1>a, BillingAssumption DEF Init, TypeOK
  <1>3. NoOverdraft /\ SubscriptionWithinTotal
    BY BillingAssumption DEF Init, NoOverdraft, SubscriptionWithinTotal
  <1>4. ASSUME NEW r \in Requests
        PROVE  Accounts(r, sess[r], net[r], record[r], failures)
    <2>1. sess[r] = NewSession /\ net[r] = none /\ record[r] = "none" /\ failures = 0
      BY DEF Init
    <2>2. Fresh(r, NewSession, none, "none", 0) /\ NewSession.at = "idle"
      BY DEF Fresh, NewSession
    <2> HIDE DEF none
    <2> QED
      BY <1>1, <2>1, <2>2, FreshAccounts
  <1> QED
    BY <1>2, <1>3, <1>4 DEF Accounting

(* The inductive invariant of the billing sessions.                        *)
THEOREM AccountingInvariant == Spec => []Accounting
  <1>1. Init => Accounting
    BY InitAccounting
  <1>2. Accounting /\ [Next]_vars => Accounting'
    <2> SUFFICES ASSUME Accounting, [Next]_vars PROVE Accounting'
      OBVIOUS
    <2>1. ASSUME NEW r \in Requests, Step(r) PROVE Accounting'
      <3>1. CASE TryWalletStep(r) \/ PreToken(r) \/ PreFundingWallet(r) \/ PreFundingSubscription(r)
                 \/ RollbackToken(r) \/ CheckOverflow(r)
        BY <3>1, TryWalletStepStep, PreTokenStep, PreFundingWalletStep,
           PreFundingSubscriptionStep,
           RollbackTokenStep, CheckOverflowStep
      <3>2. CASE (\E target \in Targets : ReserveWallet(r, target) \/ ReserveSubscription(r,
                target))
                 \/ ReserveToken(r) \/ RollbackReserve(r)
        BY <3>2, ReserveWalletStep, ReserveSubscriptionStep, ReserveTokenStep, RollbackReserveStep
      <3>3. CASE (\E actual \in Actuals : SettleWallet(r, actual) \/ SettleSubscription(r,
                actual))
                 \/ SettleToken(r)
        BY <3>3, SettleWalletStep, SettleSubscriptionStep, SettleTokenStep
      <3>4. CASE Refund(r) \/ RefundWallet(r) \/ RefundSubscription(r) \/ RefundExtra(r)
                 \/ RefundToken(r)
        BY <3>4, RefundStep, RefundWalletStep, RefundSubscriptionStep, RefundExtraStep,
           RefundTokenStep
      <3> QED
        BY <2>1, <3>1, <3>2, <3>3, <3>4 DEF Step
    <2>2. ASSUME NEW r \in Requests, NEW pref \in Preferences, NEW quota \in PreQuotas,
                 Arrive(r, pref, quota)
          PROVE  Accounting'
      BY <2>2, ArriveStep
    <2>3. CASE Crash
      BY <2>3, CrashStep
    <2>4. CASE PeriodEnds \/ ResetDueSubscriptions \/ Expire \/ UNCHANGED vars
      BY <2>4, ClockStep
    <2>5. ASSUME NEW r \in Requests, LateRefund(r) PROVE Accounting'
      BY <2>5, LateRefundStep
    <2> QED
      BY <2>1, <2>2, <2>3, <2>4, <2>5 DEF Next, Finished
  <1> QED
    BY <1>1, <1>2, PTL DEF Spec

(* Every state variable of the sessions and of the balances has its type.  *)
THEOREM TypeCorrect == Spec => []TypeOK
  <1>1. Accounting => TypeOK
    BY DEF Accounting
  <1> QED
    BY <1>1, AccountingInvariant, PTL

(* A settled request has cost its source exactly what it used (Settle), for*)
(* any number of competing requests, retries, failures and crashes.        *)
THEOREM SettledCostsActualTheorem == Spec => []SettledCostsActual
  <1>1. Accounting => SettledCostsActual
    BY Context DEF SettledCostsActual, Accounting, Accounts, WalletInv, SubscriptionInv, Session
  <1> QED
    BY <1>1, AccountingInvariant, PTL

(* Without database failures its token has paid the same (Settle, step 2). *)
THEOREM SettledTokenMatchesTheorem == Spec => []SettledTokenMatches
  <1>1. Accounting => SettledTokenMatches
    BY DEF SettledTokenMatches, Accounting, Accounts, TokenInv
  <1> QED
    BY <1>1, AccountingInvariant, PTL

(* Without database failures a refused or failed request (other than an    *)
(* image request) has cost nothing at all (preConsume, Reserve, Refund).   *)
THEOREM FailedCostsNothingTheorem == Spec => []FailedCostsNothing
  <1>1. ASSUME Accounting, failures = 0, NEW r \in Requests, r \notin ImageRequests,
               sess[r].at = "denied" \/ (sess[r].at = "done" /\ ~sess[r].settled)
        PROVE  NothingTaken(r)
    <2>1. sess[r] \in Session /\ net[r] \in Net /\ Accounts(r, sess[r], net[r], record[r],
                failures)
      BY <1>1, Context
    <2>2. net[r].wallet = 0
      BY <1>1, <2>1 DEF Accounts, WalletInv, BeforeFunding, Session
    <2>3. net[r].token = 0
      BY <1>1, <2>1 DEF Accounts, TokenInv
    <2>4. net[r].sub = 0
      BY <1>1, <2>1 DEF Accounts, SubscriptionInv, BeforeFunding, Session
    <2> QED
      BY <2>1, <2>2, <2>3, <2>4 DEF NothingTaken, Net
  <1>2. Accounting => FailedCostsNothing
    BY <1>1 DEF FailedCostsNothing
  <1> QED
    BY <1>2, AccountingInvariant, PTL

(* No request gets back more wallet or token quota than it had taken,      *)
(* whatever fails (rollbackFundingReserve, Refund).                        *)
THEOREM NeverOverRefundedTheorem == Spec => []NeverOverRefunded
  <1>1. Accounting => NeverOverRefunded
    BY DEF NeverOverRefunded, Accounting, Accounts, WalletInv, TokenInv
  <1> QED
    BY <1>1, AccountingInvariant, PTL

(* Competing requests overdraw neither the wallet nor the token            *)
(* (TryReserveUserQuota, TryReserveTokenQuota).                            *)
THEOREM NoOverdraftTheorem == Spec => []NoOverdraft
  <1>1. Accounting => NoOverdraft
    BY DEF Accounting
  <1> QED
    BY <1>1, AccountingInvariant, PTL

(* The usage of a limited subscription stays within its total              *)
(* (PreConsumeUserSubscription, PostConsumeUserSubscriptionDelta).         *)
THEOREM SubscriptionWithinTotalTheorem == Spec => []SubscriptionWithinTotal
  <1>1. Accounting => SubscriptionWithinTotal
    BY DEF Accounting
  <1> QED
    BY <1>1, AccountingInvariant, PTL
=============================================================================
