--------------------------- MODULE TaskBillingProofs ---------------------------
(***************************************************************************)
(* Proofs about TaskBilling, for every balance, preference, quota, set of  *)
(* pollers and bound: ChargeInv is inductive, and the charge of a task is  *)
(* conserved, its upstream taken on at most once and its refund justified  *)
(* and final.  With the recovery after the reservation TaskInv is          *)
(* inductive too: results stand, a failed task is not closed with its      *)
(* charge kept, and the whole billing of a task implements TaskCharge.     *)
(***************************************************************************)
EXTENDS TaskBilling, TLAPS

USE TaskBillingAssumption

(* The amounts of a row and the source they came from are untouched.       *)
SameAmounts == row'.quota = row.quota /\ row'.tokenQuota = row.tokenQuota /\ row'.source = row.source

-----------------------------------------------------------------------------
(* A step that leaves the accounts and the amounts of the row alone        *)
(* conserves the charge.                                                   *)
LEMMA ConservedSame ==
    ASSUME Conserved, SameAmounts, UNCHANGED <<funds, others, forgiven>>
    PROVE  Conserved'
  BY DEF Conserved, Accounted, SameAmounts, ChargedTo

(* What a movement leaves: the subscription never holds more than its      *)
(* total, and only a return to it may be cut short, to its total.          *)
IsMoved(m, held, s, d, t) ==
    /\ m \in [Accounts -> Int] /\ m["subscription"] <= Total
    /\ \A a \in Accounts : a # s => m[a] = held[a] - (IF a = "token" THEN t ELSE 0)
    /\ \A a \in Accounts : a = s =>
          \/ m[a] = held[a] - d
          \/ a = "subscription" /\ m[a] = Total /\ Total <= held[a] - d

(* Moved is such a movement.                                               *)
LEMMA MovedFacts ==
    ASSUME NEW held \in [Accounts -> Int], held["subscription"] <= Total,
           NEW s \in Sources \cup {"none"}, NEW d \in Int, NEW t \in Int,
           NEW m, m = Moved(held, s, d, t)
    PROVE  IsMoved(m, held, s, d, t)
<1>1. m = [a \in Accounts |-> IF a = s THEN Left(s, held[a] - d)
                              ELSE IF a = "token" THEN held[a] - t ELSE held[a]]
  BY DEF Moved
<1>2. \A a \in Accounts : held[a] \in Int
  OBVIOUS
<1>3. \A x \in Int : /\ Left(s, x) \in Int
                     /\ Left(s, x) = x \/ (s = "subscription" /\ Left(s, x) = Total /\ Total <= x)
                     /\ s = "subscription" => Left(s, x) <= Total
  BY DEF Left
<1>4. \A a \in Accounts : held[a] - d \in Int /\ held[a] - t \in Int
  BY <1>2
<1>5. m \in [Accounts -> Int]
  BY <1>1, <1>2, <1>3, <1>4
<1>6. "subscription" \in Accounts /\ "subscription" # "token" /\ "token" \notin Sources \cup {"none"}
  BY DEF Accounts, Sources
<1>7. m["subscription"] <= Total
  BY <1>1, <1>2, <1>3, <1>4, <1>6
<1>8. \A a \in Accounts : a # s => m[a] = held[a] - (IF a = "token" THEN t ELSE 0)
  BY <1>1, <1>2
<1>9. \A a \in Accounts : a = s =>
        \/ m[a] = held[a] - d
        \/ a = "subscription" /\ m[a] = Total /\ Total <= held[a] - d
  <2> SUFFICES ASSUME NEW a \in Accounts, a = s
               PROVE  \/ m[a] = held[a] - d
                      \/ a = "subscription" /\ m[a] = Total /\ Total <= held[a] - d
    OBVIOUS
  <2>1. m[a] = Left(s, held[a] - d)
    BY <1>1
  <2>2. QED
    BY <1>3, <1>4, <2>1
<1>10. QED
  BY <1>5, <1>7, <1>8, <1>9 DEF IsMoved

(* A movement between the row's source, the token and the task.            *)
LEMMA SourceMoves ==
    ASSUME TypeOK, Conserved, NEW d \in Int, NEW t \in Int, funds' = Moved(funds, row.source, d, t)
    PROVE  IsMoved(funds', funds, row.source, d, t)
<1>1. row.source \in Sources \cup {"none"} /\ funds \in [Accounts -> Int] /\ funds["subscription"] <= Total
  BY DEF TypeOK, Row, Conserved
<1>2. PICK s \in Sources \cup {"none"} : s = row.source
  BY <1>1
<1>3. PICK held \in [Accounts -> Int] : held = funds
  BY <1>1
<1>4. PICK m : m = funds'
  OBVIOUS
<1>5. held["subscription"] <= Total /\ m = Moved(held, s, d, t)
  BY <1>1, <1>2, <1>3, <1>4
<1>6. IsMoved(m, held, s, d, t)
  BY <1>5, MovedFacts
<1>7. QED
  BY <1>2, <1>3, <1>4, <1>6

(* A movement that the row records keeps the account in order.             *)
LEMMA AccountKept ==
    ASSUME NEW b \in Nat, NEW u \in Nat, NEW c \in Nat, NEW n \in Nat, NEW f \in Nat,
           NEW x \in Int, NEW y \in Int, b <= Total,
           b <= x + u + c, x + u + c <= b + f,
           y = x - (n - c) \/ (y = Total /\ Total <= x - (n - c))
    PROVE  b <= y + u + n /\ y + u + n <= b + f
  OBVIOUS

(* A return to an account that is in order is cut short only if a period   *)
(* has ended.                                                              *)
LEMMA CutShort ==
    ASSUME NEW b \in Nat, NEW u \in Nat, NEW c \in Nat, NEW n \in Nat, NEW f \in Nat,
           NEW x \in Int, NEW y \in Int, b <= Total, x <= Total,
           b <= x + u + c, x + u + c <= b + f,
           y = x - (n - c) \/ (y = Total /\ Total <= x - (n - c))
    PROVE  y + u = x + u + c - n \/ (f > 0 /\ x + u <= y + u /\ y + u <= x + u + c - n)
  OBVIOUS

(* Settling (AdjustTaskBilling) moves the difference and records it.       *)
LEMMA AdjustFacts ==
    ASSUME TypeOK, Conserved, EmptyInv, Reserved, UNCHANGED <<others, forgiven>>,
           NEW target \in Nat, AdjustTaskBilling(target)
    PROVE  /\ row' \in Row /\ funds' \in [Accounts -> Int]
           /\ Conserved' /\ EmptyInv'
           /\ row'.state = row.state /\ row'.status = row.status
<1>1. CASE row.state = "refunded"
  <2>1. UNCHANGED <<row, funds>>
    BY <1>1 DEF AdjustTaskBilling
  <2>2. QED
    BY <2>1, ConservedSame DEF TypeOK, EmptyInv, SameAmounts
<1>2. CASE row.state # "refunded"
  <2> DEFINE token == IF row.tokenBilling THEN target ELSE 0
  <2>1. /\ funds' = Moved(funds, row.source, target - row.quota, token - row.tokenQuota)
        /\ row' = [row EXCEPT !.quota = target, !.tokenQuota = token, !.target = NoTarget]
    BY <1>2 DEF AdjustTaskBilling
  <2>2. /\ row.quota \in Nat /\ row.tokenQuota \in Nat /\ token \in Nat
        /\ row.source \in Sources \cup {"none"} /\ row \in Row
    BY DEF TypeOK, Row
  <2>3. /\ row' \in Row /\ row'.state = row.state /\ row'.status = row.status
        /\ row'.quota = target /\ row'.tokenQuota = token /\ row'.source = row.source
    BY <2>1, <2>2 DEF Row
  <2>m. PICK d \in Int, t \in Int : /\ d = target - row.quota /\ t = token - row.tokenQuota
                                     /\ IsMoved(funds', funds, row.source, d, t)
    <3>1. PICK d \in Int : d = target - row.quota
      BY <2>2
    <3>2. PICK t \in Int : t = token - row.tokenQuota
      BY <2>2
    <3>3. IsMoved(funds', funds, row.source, d, t)
      BY <2>1, <3>1, <3>2, SourceMoves
    <3>4. QED
      BY <3>1, <3>2, <3>3
  <2> HIDE DEF token
  <2>4. funds' \in [Accounts -> Int]
    BY <2>m DEF IsMoved
  <2>5. Conserved'
    <3>m. /\ funds' \in [Accounts -> Int] /\ funds'["subscription"] <= Total
          /\ \A a \in Accounts : a # row.source => funds'[a] = funds[a] - (IF a = "token" THEN t ELSE 0)
          /\ \A a \in Accounts : a = row.source =>
                \/ funds'[a] = funds[a] - d
                \/ a = "subscription" /\ funds'[a] = Total /\ Total <= funds[a] - d
      BY <2>m DEF IsMoved
    <3> SUFFICES ASSUME NEW a \in Accounts
                 PROVE  Accounted(a, funds[a] + others[a] + ChargedTo(a))'
      BY <3>m DEF Conserved
    <3>1. /\ Accounted(a, funds[a] + others[a] + ChargedTo(a))
          /\ funds[a] \in Int /\ others[a] \in Nat /\ forgiven \in Nat /\ Balance[a] \in Nat
      BY DEF Conserved, TypeOK
    <3>2. "token" # row.source /\ "token" # "subscription" /\ others' = others /\ forgiven' = forgiven
      BY <2>2 DEF Sources
    <3>3. CASE a # row.source
      <4>1. /\ ChargedTo(a) = (IF a = "token" THEN row.tokenQuota ELSE 0)
            /\ ChargedTo(a)' = (IF a = "token" THEN token ELSE 0)
        BY <3>2, <3>3, <2>3 DEF ChargedTo
      <4>2. funds'[a] = funds[a] - (IF a = "token" THEN t ELSE 0)
        BY <3>3, <3>m
      <4>3. funds'[a] + others'[a] + ChargedTo(a)' = funds[a] + others[a] + ChargedTo(a)
        BY SMTT(60), <3>1, <3>2, <4>1, <4>2, <2>m, <2>2
      <4>4. QED
        BY <3>1, <3>2, <4>3 DEF Accounted
    <3>4. CASE a = row.source
      <4>1. ChargedTo(a) = row.quota /\ ChargedTo(a)' = target /\ funds'[a] \in Int
        BY <3>2, <3>4, <3>m, <2>3 DEF ChargedTo
      <4>2. CASE a # "subscription"
        <5>1. funds'[a] = funds[a] - d /\ funds[a] + others[a] + row.quota = Balance[a]
          BY <3>1, <3>4, <3>m, <4>1, <4>2 DEF Accounted
        <5>2. funds'[a] + others'[a] + target = Balance[a]
          BY SMTT(60), <3>1, <3>2, <5>1, <2>m, <2>2
        <5>3. QED
          BY <4>1, <4>2, <5>2 DEF Accounted
      <4>3. CASE a = "subscription"
        <5>1. Balance[a] <= Total /\ Balance[a] <= funds[a] + others[a] + row.quota
              /\ funds[a] + others[a] + row.quota <= Balance[a] + forgiven
          BY <3>1, <4>1, <4>3 DEF Accounted
        <5>2. funds'[a] = funds[a] - (target - row.quota)
              \/ (funds'[a] = Total /\ Total <= funds[a] - (target - row.quota))
          BY <3>1, <3>4, <4>3, <3>m, <2>m, <2>2
        <5>3. Balance[a] <= funds'[a] + others[a] + target /\ funds'[a] + others[a] + target <= Balance[a] + forgiven
          BY <3>1, <4>1, <5>1, <5>2, <2>2, AccountKept
        <5>4. QED
          BY <3>2, <4>1, <4>3, <5>3 DEF Accounted
      <4>4. QED
        BY <4>2, <4>3
    <3>5. QED
      BY <3>3, <3>4
  <2>6. EmptyInv'
    BY <1>2, <2>3 DEF EmptyInv, Reserved
  <2>7. QED
    BY <2>3, <2>4, <2>5, <2>6
<1>3. QED
  BY <1>1, <1>2

(* A refund (RefundTaskBilling) returns everything the row says.           *)
LEMMA RefundFacts ==
    ASSUME TypeOK, Conserved, EmptyInv, UNCHANGED <<others, forgiven>>, RefundTaskBilling
    PROVE  /\ row' \in Row /\ funds' \in [Accounts -> Int]
           /\ Conserved' /\ EmptyInv'
           /\ row'.state = "refunded" /\ row'.status = row.status
<1>1. CASE row.state = "refunded"
  <2>1. UNCHANGED <<row, funds>>
    BY <1>1 DEF RefundTaskBilling
  <2>2. QED
    BY <1>1, <2>1, ConservedSame DEF TypeOK, EmptyInv, SameAmounts
<1>2. CASE row.state # "refunded"
  <2>1. /\ funds' = Moved(funds, row.source, -row.quota, -row.tokenQuota)
        /\ row' = [row EXCEPT !.state = "refunded", !.quota = 0, !.tokenQuota = 0,
                              !.tokenBilling = FALSE, !.target = NoTarget]
    BY <1>2 DEF RefundTaskBilling
  <2>2. /\ row.quota \in Nat /\ row.tokenQuota \in Nat
        /\ row.source \in Sources \cup {"none"} /\ row \in Row
    BY DEF TypeOK, Row
  <2>3. /\ row' \in Row /\ row'.state = "refunded" /\ row'.status = row.status
        /\ row'.quota = 0 /\ row'.tokenQuota = 0 /\ row'.source = row.source
    BY <2>1, <2>2 DEF Row
  <2>m. PICK d \in Int, t \in Int : /\ d = 0 - row.quota /\ t = 0 - row.tokenQuota
                                     /\ IsMoved(funds', funds, row.source, d, t)
    <3>1. PICK d \in Int : d = -row.quota /\ d = 0 - row.quota
      BY <2>2
    <3>2. PICK t \in Int : t = -row.tokenQuota /\ t = 0 - row.tokenQuota
      BY <2>2
    <3>3. IsMoved(funds', funds, row.source, d, t)
      BY <2>1, <3>1, <3>2, SourceMoves
    <3>4. QED
      BY <3>1, <3>2, <3>3
  <2>4. funds' \in [Accounts -> Int]
    BY <2>m DEF IsMoved
  <2>5. Conserved'
    <3>m. /\ funds' \in [Accounts -> Int] /\ funds'["subscription"] <= Total
          /\ \A a \in Accounts : a # row.source => funds'[a] = funds[a] - (IF a = "token" THEN t ELSE 0)
          /\ \A a \in Accounts : a = row.source =>
                \/ funds'[a] = funds[a] - d
                \/ a = "subscription" /\ funds'[a] = Total /\ Total <= funds[a] - d
      BY <2>m DEF IsMoved
    <3> SUFFICES ASSUME NEW a \in Accounts
                 PROVE  Accounted(a, funds[a] + others[a] + ChargedTo(a))'
      BY <3>m DEF Conserved
    <3>1. /\ Accounted(a, funds[a] + others[a] + ChargedTo(a))
          /\ funds[a] \in Int /\ others[a] \in Nat /\ forgiven \in Nat /\ Balance[a] \in Nat
      BY DEF Conserved, TypeOK
    <3>2. "token" # row.source /\ "token" # "subscription" /\ others' = others /\ forgiven' = forgiven
      BY <2>2 DEF Sources
    <3>3. CASE a # row.source
      <4>1. /\ ChargedTo(a) = (IF a = "token" THEN row.tokenQuota ELSE 0)
            /\ ChargedTo(a)' = (IF a = "token" THEN 0 ELSE 0)
        BY <3>2, <3>3, <2>3 DEF ChargedTo
      <4>2. funds'[a] = funds[a] - (IF a = "token" THEN t ELSE 0)
        BY <3>3, <3>m
      <4>3. funds'[a] + others'[a] + ChargedTo(a)' = funds[a] + others[a] + ChargedTo(a)
        BY SMTT(60), <3>1, <3>2, <4>1, <4>2, <2>m, <2>2
      <4>4. QED
        BY <3>1, <3>2, <4>3 DEF Accounted
    <3>4. CASE a = row.source
      <4>1. ChargedTo(a) = row.quota /\ ChargedTo(a)' = 0 /\ funds'[a] \in Int
        BY <3>2, <3>4, <3>m, <2>3 DEF ChargedTo
      <4>2. CASE a # "subscription"
        <5>1. funds'[a] = funds[a] - d /\ funds[a] + others[a] + row.quota = Balance[a]
          BY <3>1, <3>4, <3>m, <4>1, <4>2 DEF Accounted
        <5>2. funds'[a] + others'[a] + 0 = Balance[a]
          BY SMTT(60), <3>1, <3>2, <5>1, <2>m, <2>2
        <5>3. QED
          BY <4>1, <4>2, <5>2 DEF Accounted
      <4>3. CASE a = "subscription"
        <5>1. Balance[a] <= Total /\ Balance[a] <= funds[a] + others[a] + row.quota
              /\ funds[a] + others[a] + row.quota <= Balance[a] + forgiven
          BY <3>1, <4>1, <4>3 DEF Accounted
        <5>2. funds'[a] = funds[a] - (0 - row.quota)
              \/ (funds'[a] = Total /\ Total <= funds[a] - (0 - row.quota))
          BY <3>1, <3>4, <4>3, <3>m, <2>m, <2>2
        <5>3. Balance[a] <= funds'[a] + others[a] + 0 /\ funds'[a] + others[a] + 0 <= Balance[a] + forgiven
          <6>1. PICK n \in Nat : n = 0
            OBVIOUS
          <6>2. funds'[a] = funds[a] - (n - row.quota)
                \/ (funds'[a] = Total /\ Total <= funds[a] - (n - row.quota))
            BY <5>2, <6>1
          <6>3. Balance[a] <= funds'[a] + others[a] + n /\ funds'[a] + others[a] + n <= Balance[a] + forgiven
            BY <3>1, <4>1, <5>1, <6>2, <2>2, AccountKept
          <6>4. QED
            BY <6>1, <6>3
        <5>4. QED
          BY <3>2, <4>1, <4>3, <5>3 DEF Accounted
      <4>4. QED
        BY <4>2, <4>3
    <3>5. QED
      BY <3>3, <3>4
  <2>6. EmptyInv'
    BY <2>3 DEF EmptyInv
  <2>7. QED
    BY <2>3, <2>4, <2>5, <2>6
<1>3. QED
  BY <1>1, <1>2

(* A reservation (ReserveFrom) takes what it records.                      *)
LEMMA ReserveMoves ==
    ASSUME TypeOK, EmptyInv, row.state = "pending", UNCHANGED others,
           NEW held \in [Accounts -> Int], held["subscription"] <= Total,
           NEW s \in Sources, ReserveFrom(held, s)
    PROVE  /\ row' \in Row /\ row'.state = "reserved" /\ row'.status = row.status
           /\ funds' \in [Accounts -> Int] /\ funds'["subscription"] <= Total
           /\ \A a \in Accounts : funds'[a] + others'[a] + ChargedTo(a)' = held[a] + others[a]
<1> DEFINE q == EffectiveQuota(s)
           token == IF BillsToken THEN q ELSE 0
<1>1. q \in Nat /\ token \in Nat
  BY DEF EffectiveQuota
<1>2. /\ row' = [row EXCEPT !.state = "reserved", !.source = s, !.quota = q,
                            !.tokenQuota = token, !.tokenBilling = token > 0]
  BY DEF ReserveFrom, ReservedRow
<1>3. row \in Row /\ row.quota = 0 /\ row.tokenQuota = 0
  BY DEF TypeOK, EmptyInv
<1>4. /\ row' \in Row /\ row'.state = "reserved" /\ row'.status = row.status
      /\ row'.quota = q /\ row'.tokenQuota = token /\ row'.source = s
  <2> HIDE DEF q, token
  <2>1. CASE token > 0
    <3>1. (token > 0) = TRUE
      BY <2>1
    <3>2. QED
      BY <1>1, <1>2, <1>3, <3>1 DEF Row
  <2>2. CASE ~(token > 0)
    <3>1. (token > 0) = FALSE
      BY <2>2
    <3>2. QED
      BY <1>1, <1>2, <1>3, <3>1 DEF Row
  <2>3. QED
    BY <2>1, <2>2
<1>5. funds' = Moved(held, s, q, token) /\ held[s] >= q
  BY <1>2, <1>4 DEF ReserveFrom, CanReserve
<1>6. /\ funds' \in [Accounts -> Int] /\ funds'["subscription"] <= Total
      /\ \A a \in Accounts : a # s => funds'[a] = held[a] - (IF a = "token" THEN token ELSE 0)
      /\ \A a \in Accounts : a = s =>
            \/ funds'[a] = held[a] - q
            \/ a = "subscription" /\ funds'[a] = Total /\ Total <= held[a] - q
  <2> HIDE DEF q, token
  <2>1. PICK m : m = funds'
    OBVIOUS
  <2>2. IsMoved(m, held, s, q, token)
    BY <1>1, <1>5, <2>1, MovedFacts
  <2>3. QED
    BY <2>1, <2>2 DEF IsMoved
<1>7. ASSUME NEW a \in Accounts
      PROVE  funds'[a] + others'[a] + ChargedTo(a)' = held[a] + others[a]
  <2> HIDE DEF q, token
  <2>1. held[a] \in Int /\ others[a] \in Nat /\ others' = others
    BY DEF TypeOK
  <2>2. "token" # s
    BY DEF Sources
  <2>3. funds'[a] = held[a] - (IF a = s THEN q ELSE IF a = "token" THEN token ELSE 0)
    BY <1>1, <1>5, <1>6, <2>1, <2>2
  <2>4. QED
    BY <2>1, <2>2, <2>3, <1>1, <1>4 DEF ChargedTo
<1>8. QED
  BY <1>4, <1>6, <1>7

(* From accounts in order it leaves accounts in order.                     *)
LEMMA ReserveFacts ==
    ASSUME TypeOK, EmptyInv, row.state = "pending", UNCHANGED others, forgiven' \in Nat,
           NEW held \in [Accounts -> Int], held["subscription"] <= Total,
           \A a \in Accounts :
              IF a = "subscription" THEN Balance[a] <= held[a] + others[a] /\ held[a] + others[a] <= Balance[a] + forgiven'
              ELSE held[a] + others[a] = Balance[a],
           NEW s \in Sources, ReserveFrom(held, s)
    PROVE  /\ row' \in Row /\ funds' \in [Accounts -> Int] /\ Conserved'
           /\ row'.state = "reserved" /\ row'.status = row.status
<1>1. /\ row' \in Row /\ row'.state = "reserved" /\ row'.status = row.status
      /\ funds' \in [Accounts -> Int] /\ funds'["subscription"] <= Total
      /\ \A a \in Accounts : funds'[a] + others'[a] + ChargedTo(a)' = held[a] + others[a]
  BY ReserveMoves
<1>2. ASSUME NEW a \in Accounts
      PROVE  Accounted(a, funds[a] + others[a] + ChargedTo(a))'
  BY <1>1 DEF Accounted
<1>3. QED
  BY <1>1, <1>2 DEF Conserved

-----------------------------------------------------------------------------
(* The inductive invariant holds initially.                                *)
LEMMA InitInv == Init => ChargeInv
  BY DEF Init, ChargeInv, TypeOK, Row, Submission, Event, Handling, Polling, Acceptance, Statuses,
     Final, Ended, NoRow, NoReceipt, NotHandling, NotPolling, StartInv, ReservedInv, Reserved,
     EmptyInv, ClaimInv, Conserved, Accounted, ChargedTo, Accounts, Sources

-----------------------------------------------------------------------------
(* The steps that change no account, one lemma per action.                 *)

(* The idle handler is well typed ...                                      *)
LEMMA NotHandlingType == NotHandling \in Handling
  BY DEF NotHandling, Handling, NoRow, Row, Statuses

(* ... and so is the idle poller.                                          *)
LEMMA NotPollingType == NotPolling \in Polling
  BY DEF NotPolling, Polling, Final

(* MarkTaskSubmissionAmbiguous keeps the amounts of the row ...            *)
LEMMA AmbiguousRowType ==
    ASSUME TypeOK, NEW target \in Nat \cup {NoTarget}
    PROVE  /\ AmbiguousRow(target) \in Row
           /\ AmbiguousRow(target).quota = row.quota
           /\ AmbiguousRow(target).tokenQuota = row.tokenQuota
           /\ AmbiguousRow(target).source = row.source
<1> DEFINE t == IF row.target = NoTarget THEN target ELSE row.target
<1>1. row \in Row /\ t \in Nat \cup {NoTarget}
  BY DEF TypeOK, Row
<1>2. AmbiguousRow(target) = [row EXCEPT !.state = "ambiguous", !.status = "unknown", !.target = t]
  BY <1>1 DEF AmbiguousRow, Row
<1>3. QED
  BY <1>1, <1>2 DEF Row, Statuses

(* ... and so does the acceptance.                                         *)
LEMMA AcceptedRowType ==
    ASSUME TypeOK, NEW acceptance \in Acceptance
    PROVE  /\ AcceptedRow(acceptance) \in Row
           /\ AcceptedRow(acceptance).quota = row.quota
           /\ AcceptedRow(acceptance).tokenQuota = row.tokenQuota
           /\ AcceptedRow(acceptance).source = row.source
<1>1. row \in Row /\ acceptance.status \in Statuses /\ acceptance.target \in Nat
  BY DEF TypeOK, Acceptance
<1>2. QED
  BY <1>1 DEF AcceptedRow, Row

(* A failed reservation leaves the row pending or unknown to the request.  *)
LEMMA ReserveFailsStep == ChargeInv /\ ReserveFails => ChargeInv'
<1> SUFFICES ASSUME ChargeInv, ReserveFails PROVE ChargeInv'
  OBVIOUS
<1>1. sub' \in Submission
  BY DEF ChargeInv, TypeOK, ReserveFails, Goto, DBFails, Submission, Acceptance, Statuses, Ended
<1>2. TypeOK'
  BY <1>1 DEF ChargeInv, TypeOK, ReserveFails, DBFails
<1>3. StartInv' /\ ReservedInv' /\ EmptyInv' /\ ClaimInv'
  BY SMTT(60) DEF ChargeInv, ReserveFails, Goto, DBFails, TypeOK, Row, Submission, Handling, Final, Ended,
     StartInv, ReservedInv, EmptyInv, ClaimInv, Reserved, Dispatched, NoRow
<1>4. Conserved'
  BY ConservedSame DEF ChargeInv, SameAmounts, ReserveFails
<1>5. QED
  BY <1>2, <1>3, <1>4 DEF ChargeInv

(* A claim whose transaction failed is retried.                            *)
LEMMA ClaimFailsStep == ChargeInv /\ ClaimFails => ChargeInv'
<1> SUFFICES ASSUME ChargeInv, ClaimFails PROVE ChargeInv'
  OBVIOUS
<1>1. sub' \in Submission
  BY DEF ChargeInv, TypeOK, ClaimFails, Goto, DBFails, Submission, Acceptance, Statuses, Ended
<1>2. TypeOK'
  BY <1>1 DEF ChargeInv, TypeOK, ClaimFails, DBFails
<1>3. StartInv' /\ ReservedInv' /\ EmptyInv' /\ ClaimInv'
  BY DEF ChargeInv, ClaimFails, Goto, DBFails, TypeOK, Row, Submission, Handling, Final, Ended,
     StartInv, ReservedInv, EmptyInv, ClaimInv, Reserved, Dispatched, NoRow
<1>4. Conserved'
  BY ConservedSame DEF ChargeInv, SameAmounts, ClaimFails
<1>5. QED
  BY <1>2, <1>3, <1>4 DEF ChargeInv

(* A definite rejection gives the claim back.                              *)
LEMMA RejectedStep == ChargeInv /\ Rejected => ChargeInv'
<1> SUFFICES ASSUME ChargeInv, Rejected PROVE ChargeInv'
  OBVIOUS
<1>1. sub' \in Submission
  BY DEF ChargeInv, TypeOK, Rejected, Goto, Submission, Acceptance, Statuses, Ended
<1>2. TypeOK'
  BY <1>1 DEF ChargeInv, TypeOK, Rejected
<1>3. StartInv' /\ ReservedInv' /\ EmptyInv' /\ ClaimInv'
  BY DEF ChargeInv, Rejected, Goto, TypeOK, Row, Submission, Handling, Final, Ended, StartInv,
     ReservedInv, EmptyInv, ClaimInv, Reserved, Dispatched, NoRow
<1>4. Conserved'
  BY ConservedSame DEF ChargeInv, SameAmounts, Rejected
<1>5. QED
  BY <1>2, <1>3, <1>4 DEF ChargeInv

(* The one step that may take the task on unseen: jobs was 0 until now.    *)
LEMMA UnansweredStep == ChargeInv /\ Unanswered => ChargeInv'
<1> SUFFICES ASSUME ChargeInv, Unanswered PROVE ChargeInv'
  OBVIOUS
<1>1. sub' \in Submission
  BY DEF ChargeInv, TypeOK, Unanswered, Submission, Acceptance, Statuses, Ended
<1>2. TypeOK'
  BY <1>1 DEF ChargeInv, TypeOK, Unanswered
<1>3. StartInv' /\ ReservedInv' /\ EmptyInv' /\ ClaimInv'
  BY DEF ChargeInv, Unanswered, TypeOK, Row, Submission, Handling, Final, Ended, StartInv,
     ReservedInv, EmptyInv, ClaimInv, Reserved, Dispatched, NoRow
<1>4. Conserved'
  BY ConservedSame DEF ChargeInv, SameAmounts, Unanswered
<1>5. QED
  BY <1>2, <1>3, <1>4 DEF ChargeInv

(* A reset that failed, or came too late, leaves the outcome unknown.      *)
LEMMA ResetFailsStep == ChargeInv /\ ResetFails => ChargeInv'
<1> SUFFICES ASSUME ChargeInv, ResetFails PROVE ChargeInv'
  OBVIOUS
<1>1. sub' \in Submission
  BY DEF ChargeInv, TypeOK, ResetFails, DBFails, Submission, Acceptance, Statuses, Ended
<1>2. TypeOK'
  BY <1>1 DEF ChargeInv, TypeOK, ResetFails, DBFails
<1>3. StartInv' /\ ReservedInv' /\ EmptyInv' /\ ClaimInv'
  BY DEF ChargeInv, ResetFails, DBFails, TypeOK, Row, Submission, Handling, Final, Ended, StartInv,
     ReservedInv, EmptyInv, ClaimInv, Reserved, Dispatched, NoRow
<1>4. Conserved'
  BY ConservedSame DEF ChargeInv, SameAmounts, ResetFails
<1>5. QED
  BY <1>2, <1>3, <1>4 DEF ChargeInv

(* The error of markTaskSubmissionUnknown is only logged.                  *)
LEMMA MarkUnknownFailsStep == ChargeInv /\ MarkUnknownFails => ChargeInv'
<1> SUFFICES ASSUME ChargeInv, MarkUnknownFails PROVE ChargeInv'
  OBVIOUS
<1>1. sub' \in Submission
  BY DEF ChargeInv, TypeOK, MarkUnknownFails, Goto, DBFails, Submission, Acceptance, Statuses, Ended
<1>2. TypeOK'
  BY <1>1 DEF ChargeInv, TypeOK, MarkUnknownFails, DBFails
<1>3. StartInv' /\ ReservedInv' /\ EmptyInv' /\ ClaimInv'
  BY DEF ChargeInv, MarkUnknownFails, Goto, DBFails, TypeOK, Row, Submission, Handling, Final,
     Ended, StartInv, ReservedInv, EmptyInv, ClaimInv, Reserved, Dispatched, NoRow
<1>4. Conserved'
  BY ConservedSame DEF ChargeInv, SameAmounts, MarkUnknownFails
<1>5. QED
  BY <1>2, <1>3, <1>4 DEF ChargeInv

(* A failed acceptance goes to the receipt.                                *)
LEMMA PersistFailsStep == ChargeInv /\ PersistFails => ChargeInv'
<1> SUFFICES ASSUME ChargeInv, PersistFails PROVE ChargeInv'
  OBVIOUS
<1>1. sub' \in Submission
  BY DEF ChargeInv, TypeOK, PersistFails, Goto, DBFails, Submission, Acceptance, Statuses, Ended
<1>2. TypeOK'
  BY <1>1 DEF ChargeInv, TypeOK, PersistFails, DBFails
<1>3. StartInv' /\ ReservedInv' /\ EmptyInv' /\ ClaimInv'
  BY DEF ChargeInv, PersistFails, Goto, DBFails, TypeOK, Row, Submission, Handling, Final, Ended,
     StartInv, ReservedInv, EmptyInv, ClaimInv, Reserved, Dispatched, NoRow
<1>4. Conserved'
  BY ConservedSame DEF ChargeInv, SameAmounts, PersistFails
<1>5. QED
  BY <1>2, <1>3, <1>4 DEF ChargeInv

(* The receipt is written to the event, not to the row.                    *)
LEMMA StoreReceiptStep == ChargeInv /\ StoreReceipt => ChargeInv'
<1> SUFFICES ASSUME ChargeInv, StoreReceipt PROVE ChargeInv'
  OBVIOUS
<1>1. sub' \in Submission
  BY DEF ChargeInv, TypeOK, StoreReceipt, Goto, Submission, Acceptance, Statuses, Ended
<1>2. event' \in Event
  BY DEF ChargeInv, TypeOK, StoreReceipt, Goto, Event, Submission
<1>3. TypeOK'
  BY <1>1, <1>2 DEF ChargeInv, TypeOK, StoreReceipt
<1>4. StartInv' /\ ReservedInv' /\ EmptyInv' /\ ClaimInv'
  BY DEF ChargeInv, StoreReceipt, Goto, TypeOK, Row, Submission, Handling, Final, Ended, StartInv,
     ReservedInv, EmptyInv, ClaimInv, Reserved, Dispatched, NoRow
<1>5. Conserved'
  BY ConservedSame DEF ChargeInv, SameAmounts, StoreReceipt
<1>6. QED
  BY <1>3, <1>4, <1>5 DEF ChargeInv

(* Without the receipt the acceptance is tried again.                      *)
LEMMA ReceiptFailsStep == ChargeInv /\ ReceiptFails => ChargeInv'
<1> SUFFICES ASSUME ChargeInv, ReceiptFails PROVE ChargeInv'
  OBVIOUS
<1>1. sub' \in Submission
  BY DEF ChargeInv, TypeOK, ReceiptFails, Goto, DBFails, Submission, Acceptance, Statuses, Ended
<1>2. TypeOK'
  BY <1>1 DEF ChargeInv, TypeOK, ReceiptFails, DBFails
<1>3. StartInv' /\ ReservedInv' /\ EmptyInv' /\ ClaimInv'
  BY DEF ChargeInv, ReceiptFails, Goto, DBFails, TypeOK, Row, Submission, Handling, Final, Ended,
     StartInv, ReservedInv, EmptyInv, ClaimInv, Reserved, Dispatched, NoRow
<1>4. Conserved'
  BY ConservedSame DEF ChargeInv, SameAmounts, ReceiptFails
<1>5. QED
  BY <1>2, <1>3, <1>4 DEF ChargeInv

(* The last attempt failed: the outcome is unknown.                        *)
LEMMA PersistAgainFailsStep == ChargeInv /\ PersistAgainFails => ChargeInv'
<1> SUFFICES ASSUME ChargeInv, PersistAgainFails PROVE ChargeInv'
  OBVIOUS
<1>1. sub' \in Submission
  BY DEF ChargeInv, TypeOK, PersistAgainFails, Goto, DBFails, Submission, Acceptance, Statuses, Ended
<1>2. TypeOK'
  BY <1>1 DEF ChargeInv, TypeOK, PersistAgainFails, DBFails
<1>3. StartInv' /\ ReservedInv' /\ EmptyInv' /\ ClaimInv'
  BY DEF ChargeInv, PersistAgainFails, Goto, DBFails, TypeOK, Row, Submission, Handling, Final,
     Ended, StartInv, ReservedInv, EmptyInv, ClaimInv, Reserved, Dispatched, NoRow
<1>4. Conserved'
  BY ConservedSame DEF ChargeInv, SameAmounts, PersistAgainFails
<1>5. QED
  BY <1>2, <1>3, <1>4 DEF ChargeInv

(* A settlement that failed is left to the recovery.                       *)
LEMMA SettleFailsStep == ChargeInv /\ SettleFails => ChargeInv'
<1> SUFFICES ASSUME ChargeInv, SettleFails PROVE ChargeInv'
  OBVIOUS
<1>1. sub' \in Submission
  BY DEF ChargeInv, TypeOK, SettleFails, Goto, DBFails, Submission, Acceptance, Statuses, Ended
<1>2. TypeOK'
  BY <1>1 DEF ChargeInv, TypeOK, SettleFails, DBFails
<1>3. StartInv' /\ ReservedInv' /\ EmptyInv' /\ ClaimInv'
  BY DEF ChargeInv, SettleFails, Goto, DBFails, TypeOK, Row, Submission, Handling, Final, Ended,
     StartInv, ReservedInv, EmptyInv, ClaimInv, Reserved, Dispatched, NoRow
<1>4. Conserved'
  BY ConservedSame DEF ChargeInv, SameAmounts, SettleFails
<1>5. QED
  BY <1>2, <1>3, <1>4 DEF ChargeInv

(* The last attempt is over.                                               *)
LEMMA StopStep == ChargeInv /\ Stop => ChargeInv'
<1> SUFFICES ASSUME ChargeInv, Stop PROVE ChargeInv'
  OBVIOUS
<1>1. sub' \in Submission
  BY DEF ChargeInv, TypeOK, Stop, Goto, Submission, Acceptance, Statuses, Ended
<1>2. TypeOK'
  BY <1>1 DEF ChargeInv, TypeOK, Stop
<1>3. StartInv' /\ ReservedInv' /\ EmptyInv' /\ ClaimInv'
  BY DEF ChargeInv, Stop, Goto, TypeOK, Row, Submission, Handling, Final, Ended, StartInv,
     ReservedInv, EmptyInv, ClaimInv, Reserved, Dispatched, NoRow
<1>4. Conserved'
  BY ConservedSame DEF ChargeInv, SameAmounts, Stop
<1>5. QED
  BY <1>2, <1>3, <1>4 DEF ChargeInv

(* A refused refund leaves the row as it is.                               *)
LEMMA RefundFailsStep == ChargeInv /\ RefundFails => ChargeInv'
<1> SUFFICES ASSUME ChargeInv, RefundFails PROVE ChargeInv'
  OBVIOUS
<1>1. sub' \in Submission
  BY DEF ChargeInv, TypeOK, RefundFails, Goto, DBFails, Submission, Acceptance, Statuses, Ended
<1>2. TypeOK'
  BY <1>1 DEF ChargeInv, TypeOK, RefundFails, DBFails
<1>3. StartInv' /\ ReservedInv' /\ EmptyInv' /\ ClaimInv'
  BY DEF ChargeInv, RefundFails, Goto, DBFails, TypeOK, Row, Submission, Handling, Final, Ended,
     StartInv, ReservedInv, EmptyInv, ClaimInv, Reserved, Dispatched, NoRow
<1>4. Conserved'
  BY ConservedSame DEF ChargeInv, SameAmounts, RefundFails
<1>5. QED
  BY <1>2, <1>3, <1>4 DEF ChargeInv

(* A crash changes no row.                                                 *)
LEMMA CrashStep == ChargeInv /\ Crash => ChargeInv'
<1> SUFFICES ASSUME ChargeInv, Crash PROVE ChargeInv'
  OBVIOUS
<1>1. sub' \in Submission
  BY DEF ChargeInv, TypeOK, Crash, Goto, Submission, Acceptance, Statuses, Ended
<1>2. TypeOK'
  BY <1>1 DEF ChargeInv, TypeOK, Crash
<1>3. StartInv' /\ ReservedInv' /\ EmptyInv' /\ ClaimInv'
  BY DEF ChargeInv, Crash, Goto, TypeOK, Row, Submission, Handling, Final, Ended, StartInv,
     ReservedInv, EmptyInv, ClaimInv, Reserved, Dispatched, NoRow
<1>4. Conserved'
  BY ConservedSame DEF ChargeInv, SameAmounts, Crash
<1>5. QED
  BY <1>2, <1>3, <1>4 DEF ChargeInv

(* The handler copies the row; a copy that needs settling is past its      *)
(* reservation.                                                            *)
LEMMA LoadStep == ChargeInv /\ Load => ChargeInv'
<1> SUFFICES ASSUME ChargeInv, Load PROVE ChargeInv'
  OBVIOUS
<1>1. rec' \in Handling
  BY DEF ChargeInv, TypeOK, Load, Loaded, NeedsAdjust, Handling
<1>2. TypeOK'
  BY <1>1 DEF ChargeInv, TypeOK, Load
<1>3. StartInv' /\ ReservedInv' /\ EmptyInv' /\ ClaimInv'
  BY DEF ChargeInv, Load, Loaded, NeedsAdjust, TypeOK, Row, Submission, Handling, Final, Ended,
     StartInv, ReservedInv, EmptyInv, ClaimInv, Reserved, Dispatched, NoRow
<1>4. Conserved'
  BY ConservedSame DEF ChargeInv, SameAmounts, Load
<1>5. QED
  BY <1>2, <1>3, <1>4 DEF ChargeInv

(* A receipt that contradicts the row ends the event.                      *)
LEMMA ReceiptConflictsStep == ChargeInv /\ ReceiptConflicts => ChargeInv'
<1> SUFFICES ASSUME ChargeInv, ReceiptConflicts PROVE ChargeInv'
  OBVIOUS
<1>1. event' \in Event
  BY DEF ChargeInv, TypeOK, ReceiptConflicts, Event, Submission
<1>2. TypeOK'
  BY <1>1 DEF ChargeInv, TypeOK, ReceiptConflicts
<1>3. StartInv' /\ ReservedInv' /\ EmptyInv' /\ ClaimInv'
  BY DEF ChargeInv, ReceiptConflicts, TypeOK, Row, Submission, Handling, Final, Ended, StartInv,
     ReservedInv, EmptyInv, ClaimInv, Reserved, Dispatched, NoRow
<1>4. Conserved'
  BY ConservedSame DEF ChargeInv, SameAmounts, ReceiptConflicts
<1>5. QED
  BY <1>2, <1>3, <1>4 DEF ChargeInv

(* A refused settlement is delivered again.                                *)
LEMMA RecAdjustFailsStep == ChargeInv /\ RecAdjustFails => ChargeInv'
<1> SUFFICES ASSUME ChargeInv, RecAdjustFails PROVE ChargeInv'
  OBVIOUS
<1>1. rec' \in Handling
  BY NotHandlingType DEF ChargeInv, TypeOK, RecAdjustFails, Release, Handling
<1>2. TypeOK'
  BY <1>1 DEF ChargeInv, TypeOK, RecAdjustFails
<1>3. StartInv' /\ ReservedInv' /\ EmptyInv' /\ ClaimInv'
  BY DEF ChargeInv, RecAdjustFails, Release, NotHandling, NoRow, TypeOK, Row, Submission, Handling,
     Final, Ended, StartInv, ReservedInv, EmptyInv, ClaimInv, Reserved, Dispatched
<1>4. Conserved'
  BY ConservedSame DEF ChargeInv, SameAmounts, RecAdjustFails
<1>5. QED
  BY <1>2, <1>3, <1>4 DEF ChargeInv

(* A pollable task is left to the pollers.                                 *)
LEMMA RecDeferStep == ChargeInv /\ RecDefer => ChargeInv'
<1> SUFFICES ASSUME ChargeInv, RecDefer PROVE ChargeInv'
  OBVIOUS
<1>1. rec' \in Handling
  BY NotHandlingType DEF ChargeInv, TypeOK, RecDefer, Release, Handling
<1>2. TypeOK'
  BY <1>1 DEF ChargeInv, TypeOK, RecDefer
<1>3. StartInv' /\ ReservedInv' /\ EmptyInv' /\ ClaimInv'
  BY DEF ChargeInv, RecDefer, Release, NotHandling, Decides, NoRow, TypeOK, Row, Submission,
     Handling, Final, Ended, StartInv, ReservedInv, EmptyInv, ClaimInv, Reserved, Dispatched
<1>4. Conserved'
  BY ConservedSame DEF ChargeInv, SameAmounts, RecDefer
<1>5. QED
  BY <1>2, <1>3, <1>4 DEF ChargeInv

(* The event is done.                                                      *)
LEMMA RecFinishStep == ChargeInv /\ RecFinish => ChargeInv'
<1> SUFFICES ASSUME ChargeInv, RecFinish PROVE ChargeInv'
  OBVIOUS
<1>1. rec' \in Handling
  BY NotHandlingType DEF ChargeInv, TypeOK, RecFinish, Release, Handling
<1>2. event' \in Event
  BY DEF ChargeInv, TypeOK, RecFinish, Release, NotHandling, Decides, Event, Submission
<1>3. TypeOK'
  BY <1>1, <1>2 DEF ChargeInv, TypeOK, RecFinish
<1>4. StartInv' /\ ReservedInv' /\ EmptyInv' /\ ClaimInv'
  BY DEF ChargeInv, RecFinish, Release, NotHandling, Decides, NoRow, TypeOK, Row, Submission,
     Handling, Final, Ended, StartInv, ReservedInv, EmptyInv, ClaimInv, Reserved, Dispatched
<1>5. Conserved'
  BY ConservedSame DEF ChargeInv, SameAmounts, RecFinish
<1>6. QED
  BY <1>3, <1>4, <1>5 DEF ChargeInv

(* A failed handler is delivered again.                                    *)
LEMMA RecFailsStep == ChargeInv /\ RecFails => ChargeInv'
<1> SUFFICES ASSUME ChargeInv, RecFails PROVE ChargeInv'
  OBVIOUS
<1>1. rec' \in Handling
  BY NotHandlingType DEF ChargeInv, TypeOK, RecFails, Release, Handling
<1>2. TypeOK'
  BY <1>1 DEF ChargeInv, TypeOK, RecFails, DBFails
<1>3. StartInv' /\ ReservedInv' /\ EmptyInv' /\ ClaimInv'
  BY DEF ChargeInv, RecFails, Release, NotHandling, DBFails, NoRow, TypeOK, Row, Submission,
     Handling, Final, Ended, StartInv, ReservedInv, EmptyInv, ClaimInv, Reserved, Dispatched
<1>4. Conserved'
  BY ConservedSame DEF ChargeInv, SameAmounts, RecFails
<1>5. QED
  BY <1>2, <1>3, <1>4 DEF ChargeInv

(* The claim starts from a reserved row, so the task was not taken on.     *)
LEMMA ClaimStep == ChargeInv /\ Claim => ChargeInv'
<1> SUFFICES ASSUME ChargeInv, Claim PROVE ChargeInv'
  OBVIOUS
<1>1. row' \in Row /\ SameAmounts
  BY DEF ChargeInv, Claim, TypeOK, Row, Statuses, Final, SameAmounts
<1>2. sub' \in Submission
  BY <1>1 DEF ChargeInv, TypeOK, Claim, Goto, DBFails, Submission, Acceptance, Statuses, Ended
<1>3. TypeOK'
  BY <1>1, <1>2 DEF ChargeInv, TypeOK, Claim, DBFails
<1>4. StartInv' /\ ReservedInv' /\ EmptyInv' /\ ClaimInv'
  BY SMTT(60), <1>1 DEF ChargeInv, Claim, Goto, DBFails, TypeOK, Row, Submission, Handling, Final, Ended,
     StartInv, ReservedInv, EmptyInv, ClaimInv, Reserved, Dispatched, NoRow, SameAmounts
<1>5. Conserved'
  BY <1>1, ConservedSame DEF ChargeInv, Claim
<1>6. QED
  BY <1>3, <1>4, <1>5 DEF ChargeInv

(* An ambiguous row is still dispatched.                                   *)
LEMMA MarkUnknownStep == ChargeInv /\ MarkUnknown => ChargeInv'
<1> SUFFICES ASSUME ChargeInv, MarkUnknown PROVE ChargeInv'
  OBVIOUS
<1>1. row' \in Row /\ SameAmounts
  <2>1. sub.acceptance.target \in Nat /\ row \in Row
    BY DEF ChargeInv, TypeOK, Submission, Acceptance
  <2>2. QED
    BY <2>1, AmbiguousRowType DEF ChargeInv, MarkUnknown, SameAmounts
<1>2. sub' \in Submission
  BY <1>1 DEF ChargeInv, TypeOK, MarkUnknown, Goto, MayMarkAmbiguous, AmbiguousRow, Submission,
     Acceptance, Statuses, Ended
<1>3. TypeOK'
  BY <1>1, <1>2 DEF ChargeInv, TypeOK, MarkUnknown
<1>4. StartInv' /\ ReservedInv' /\ EmptyInv' /\ ClaimInv'
  BY <1>1 DEF ChargeInv, MarkUnknown, Goto, MayMarkAmbiguous, AmbiguousRow, TypeOK, Row, Submission,
     Handling, Final, Ended, StartInv, ReservedInv, EmptyInv, ClaimInv, Reserved, Dispatched,
     NoRow, SameAmounts
<1>5. Conserved'
  BY <1>1, ConservedSame DEF ChargeInv, MarkUnknown
<1>6. QED
  BY <1>3, <1>4, <1>5 DEF ChargeInv

(* The acceptance keeps the amounts of the row.                            *)
LEMMA PersistStep == ChargeInv /\ Persist => ChargeInv'
<1> SUFFICES ASSUME ChargeInv, Persist PROVE ChargeInv'
  OBVIOUS
<1>1. row' \in Row /\ SameAmounts
  <2>1. sub.acceptance \in Acceptance /\ row \in Row
    BY DEF ChargeInv, TypeOK, Submission
  <2>2. QED
    BY <2>1, AcceptedRowType DEF ChargeInv, Persist, PersistedRow, SameAmounts
<1>2. sub' \in Submission
  BY <1>1 DEF ChargeInv, TypeOK, Persist, Goto, DBFails, MayPersist, PersistedRow, AcceptedRow,
     Submission, Acceptance, Statuses, Ended
<1>3. TypeOK'
  BY <1>1, <1>2 DEF ChargeInv, TypeOK, Persist, DBFails
<1>4. StartInv' /\ ReservedInv' /\ EmptyInv' /\ ClaimInv'
  BY <1>1, SMTT(60) DEF ChargeInv, Persist, Goto, DBFails, MayPersist, PersistedRow, AcceptedRow, TypeOK, Row,
     Submission, Handling, Final, Ended, StartInv, ReservedInv, EmptyInv, ClaimInv, Reserved,
     Dispatched, NoRow, SameAmounts
<1>5. Conserved'
  BY <1>1, ConservedSame DEF ChargeInv, Persist
<1>6. QED
  BY <1>3, <1>4, <1>5 DEF ChargeInv

(* So does its second attempt.                                             *)
LEMMA PersistAgainStep == ChargeInv /\ PersistAgain => ChargeInv'
<1> SUFFICES ASSUME ChargeInv, PersistAgain PROVE ChargeInv'
  OBVIOUS
<1>1. row' \in Row /\ SameAmounts
  <2>1. sub.acceptance \in Acceptance /\ row \in Row
    BY DEF ChargeInv, TypeOK, Submission
  <2>2. QED
    BY <2>1, AcceptedRowType DEF ChargeInv, PersistAgain, PersistedRow, SameAmounts
<1>2. sub' \in Submission
  BY <1>1 DEF ChargeInv, TypeOK, PersistAgain, Goto, MayPersist, PersistedRow, AcceptedRow,
     Submission, Acceptance, Statuses, Ended
<1>3. TypeOK'
  BY <1>1, <1>2 DEF ChargeInv, TypeOK, PersistAgain
<1>4. StartInv' /\ ReservedInv' /\ EmptyInv' /\ ClaimInv'
  BY SMTT(60), <1>1 DEF ChargeInv, PersistAgain, Goto, MayPersist, PersistedRow, AcceptedRow, TypeOK, Row,
     Submission, Handling, Final, Ended, StartInv, ReservedInv, EmptyInv, ClaimInv, Reserved,
     Dispatched, NoRow, SameAmounts
<1>5. Conserved'
  BY <1>1, ConservedSame DEF ChargeInv, PersistAgain
<1>6. QED
  BY <1>3, <1>4, <1>5 DEF ChargeInv

(* Failing a row before submission keeps its state.                        *)
LEMMA FailStep == ChargeInv /\ Fail => ChargeInv'
<1> SUFFICES ASSUME ChargeInv, Fail PROVE ChargeInv'
  OBVIOUS
<1>1. row' \in Row /\ SameAmounts
  BY DEF ChargeInv, Fail, MayFail, FailedRow, TypeOK, Row, Statuses, Final, SameAmounts
<1>2. sub' \in Submission
  BY <1>1 DEF ChargeInv, TypeOK, Fail, Goto, MayFail, FailedRow, Submission, Acceptance, Statuses,
     Ended
<1>3. TypeOK'
  BY <1>1, <1>2 DEF ChargeInv, TypeOK, Fail
<1>4. StartInv' /\ ReservedInv' /\ EmptyInv' /\ ClaimInv'
  BY <1>1 DEF ChargeInv, Fail, Goto, MayFail, FailedRow, TypeOK, Row, Submission, Handling, Final,
     Ended, StartInv, ReservedInv, EmptyInv, ClaimInv, Reserved, Dispatched, NoRow, SameAmounts
<1>5. Conserved'
  BY <1>1, ConservedSame DEF ChargeInv, Fail
<1>6. QED
  BY <1>3, <1>4, <1>5 DEF ChargeInv

(* A restored acceptance starts from a dispatched row.                     *)
LEMMA LoadReceiptStep == ChargeInv /\ LoadReceipt => ChargeInv'
<1> SUFFICES ASSUME ChargeInv, LoadReceipt PROVE ChargeInv'
  OBVIOUS
<1>1. row' \in Row /\ SameAmounts
  BY DEF ChargeInv, LoadReceipt, MayRecover, RecoveredRow, AcceptedRow, TypeOK, Row, Event,
     Acceptance, Statuses, Final, SameAmounts
<1>2. rec' \in Handling
  BY <1>1 DEF ChargeInv, TypeOK, LoadReceipt, Loaded, NeedsAdjust, MayRecover, RecoveredRow,
     AcceptedRow, Handling
<1>3. TypeOK'
  BY <1>1, <1>2 DEF ChargeInv, TypeOK, LoadReceipt
<1>4. StartInv' /\ ReservedInv' /\ EmptyInv' /\ ClaimInv'
  BY SMTT(60), <1>1 DEF ChargeInv, LoadReceipt, Loaded, NeedsAdjust, MayRecover, RecoveredRow, AcceptedRow,
     TypeOK, Row, Submission, Handling, Final, Ended, StartInv, ReservedInv, EmptyInv, ClaimInv,
     Reserved, Dispatched, NoRow, SameAmounts
<1>5. Conserved'
  BY <1>1, ConservedSame DEF ChargeInv, LoadReceipt
<1>6. QED
  BY <1>3, <1>4, <1>5 DEF ChargeInv

(* The handler fails a row it saw pending; the row may have moved on.      *)
LEMMA RecFailPendingStep == ChargeInv /\ RecFailPending => ChargeInv'
<1> SUFFICES ASSUME ChargeInv, RecFailPending PROVE ChargeInv'
  OBVIOUS
<1>1. row' \in Row /\ SameAmounts
  BY DEF ChargeInv, RecFailPending, MayFail, FailedRow, TypeOK, Row, Acceptance, Statuses, Final,
     SameAmounts
<1>2. rec' \in Handling
  BY <1>1, NotHandlingType DEF ChargeInv, TypeOK, RecFailPending, Step, Release, Handling
<1>3. TypeOK'
  BY <1>1, <1>2 DEF ChargeInv, TypeOK, RecFailPending
<1>4. StartInv' /\ ReservedInv' /\ EmptyInv' /\ ClaimInv'
  BY <1>1, SMTT(30) DEF ChargeInv, RecFailPending, Decides, MayFail, FailedRow, Step, Release, NotHandling,
     TypeOK, Row, Submission, Handling, Final, Ended, StartInv, ReservedInv, EmptyInv, ClaimInv,
     Reserved, Dispatched, NoRow, SameAmounts
<1>5. Conserved'
  BY <1>1, ConservedSame DEF ChargeInv, RecFailPending
<1>6. QED
  BY <1>3, <1>4, <1>5 DEF ChargeInv

(* The handler fails a refunded row.                                       *)
LEMMA RecFailStep == ChargeInv /\ RecFail => ChargeInv'
<1> SUFFICES ASSUME ChargeInv, RecFail PROVE ChargeInv'
  OBVIOUS
<1>1. row' \in Row /\ SameAmounts
  BY DEF ChargeInv, RecFail, MayFail, FailedRow, TypeOK, Row, Acceptance, Statuses, Final,
     SameAmounts
<1>2. rec' \in Handling
  BY <1>1, NotHandlingType DEF ChargeInv, TypeOK, RecFail, Step, Release, Handling
<1>3. TypeOK'
  BY <1>1, <1>2 DEF ChargeInv, TypeOK, RecFail
<1>4. StartInv' /\ ReservedInv' /\ EmptyInv' /\ ClaimInv'
  BY <1>1, SMTT(30) DEF ChargeInv, RecFail, Decides, MayFail, FailedRow, Step, Release, NotHandling, TypeOK,
     Row, Submission, Handling, Final, Ended, StartInv, ReservedInv, EmptyInv, ClaimInv, Reserved,
     Dispatched, NoRow, SameAmounts
<1>5. Conserved'
  BY <1>1, ConservedSame DEF ChargeInv, RecFail
<1>6. QED
  BY <1>3, <1>4, <1>5 DEF ChargeInv

(* An ambiguous row is still dispatched.                                   *)
LEMMA RecMarkAmbiguousStep == ChargeInv /\ RecMarkAmbiguous => ChargeInv'
<1> SUFFICES ASSUME ChargeInv, RecMarkAmbiguous PROVE ChargeInv'
  OBVIOUS
<1>1. row' \in Row /\ SameAmounts
  BY DEF ChargeInv, RecMarkAmbiguous, MayMarkAmbiguous, AmbiguousRow, TypeOK, Row, Acceptance,
     Statuses, Final, SameAmounts
<1>2. rec' \in Handling
  BY <1>1, NotHandlingType DEF ChargeInv, TypeOK, RecMarkAmbiguous, Step, Release, Handling
<1>3. TypeOK'
  BY <1>1, <1>2 DEF ChargeInv, TypeOK, RecMarkAmbiguous
<1>4. StartInv' /\ ReservedInv' /\ EmptyInv' /\ ClaimInv'
  BY SMTT(60), <1>1 DEF ChargeInv, RecMarkAmbiguous, Decides, MayMarkAmbiguous, AmbiguousRow, Step, Release,
     NotHandling, TypeOK, Row, Submission, Handling, Final, Ended, StartInv, ReservedInv,
     EmptyInv, ClaimInv, Reserved, Dispatched, NoRow, SameAmounts
<1>5. Conserved'
  BY <1>1, ConservedSame DEF ChargeInv, RecMarkAmbiguous
<1>6. QED
  BY <1>3, <1>4, <1>5 DEF ChargeInv

(* Completing keeps the amounts; a refunded row stays refunded.            *)
LEMMA RecCompleteStep == ChargeInv /\ RecComplete => ChargeInv'
<1> SUFFICES ASSUME ChargeInv, RecComplete PROVE ChargeInv'
  OBVIOUS
<1>1. row' \in Row /\ SameAmounts
  BY DEF ChargeInv, RecComplete, CompletedRow, TypeOK, Row, Statuses, Final, SameAmounts
<1>2. rec' \in Handling
  BY <1>1 DEF ChargeInv, TypeOK, RecComplete, Decides, CompletedRow, Step, Handling
<1>3. TypeOK'
  BY <1>1, <1>2 DEF ChargeInv, TypeOK, RecComplete
<1>4. StartInv' /\ ReservedInv' /\ EmptyInv' /\ ClaimInv'
  BY <1>1 DEF ChargeInv, RecComplete, Decides, CompletedRow, Step, TypeOK, Row, Submission,
     Handling, Final, Ended, StartInv, ReservedInv, EmptyInv, ClaimInv, Reserved, Dispatched,
     NoRow, SameAmounts
<1>5. Conserved'
  BY <1>1, ConservedSame DEF ChargeInv, RecComplete
<1>6. QED
  BY <1>3, <1>4, <1>5 DEF ChargeInv

(* A retry that finds the row reserved goes on to the claim.               *)
LEMMA ReserveAgainStep == ChargeInv /\ ReserveAgain => ChargeInv'
<1> SUFFICES ASSUME ChargeInv, ReserveAgain PROVE ChargeInv'
  OBVIOUS
<1>1. sub' \in Submission
  <2>1. sub \in Submission
    BY DEF ChargeInv, TypeOK
  <2>2. CASE row.quota > 0
    <3>1. (row.quota > 0) = TRUE
      BY <2>2
    <3>2. QED
      BY <2>1, <3>1 DEF ReserveAgain, Submission, Ended
  <2>3. CASE ~(row.quota > 0)
    <3>1. (row.quota > 0) = FALSE
      BY <2>3
    <3>2. QED
      BY <2>1, <3>1 DEF ReserveAgain, Submission, Ended
  <2>4. QED
    BY <2>2, <2>3
<1>2. TypeOK'
  BY <1>1 DEF ChargeInv, TypeOK, ReserveAgain
<1>3. sub'.pc \in {"retry", "claim"}
  BY DEF ChargeInv, TypeOK, ReserveAgain, Submission
<1>4. StartInv' /\ ReservedInv' /\ EmptyInv' /\ ClaimInv'
  BY <1>3 DEF ChargeInv, ReserveAgain, TypeOK, Row, Submission, Handling, Final, Ended, StartInv,
     ReservedInv, EmptyInv, ClaimInv, Reserved, Dispatched, NoRow
<1>5. Conserved'
  BY ConservedSame DEF ChargeInv, SameAmounts, ReserveAgain
<1>6. QED
  BY <1>2, <1>4, <1>5 DEF ChargeInv

(* A retry happens only before the task was taken on.                      *)
LEMMA RetryStep == ChargeInv /\ Retry => ChargeInv'
<1> SUFFICES ASSUME ChargeInv, Retry PROVE ChargeInv'
  OBVIOUS
<1>1. sub' \in Submission
  <2>1. sub \in Submission
    BY DEF ChargeInv, TypeOK
  <2>2. (IF sub.billed THEN "claim" ELSE "reserve") \in {"claim", "reserve"} /\ sub.tries + 1 \in Nat
    BY <2>1 DEF Submission
  <2>3. QED
    BY <2>1, <2>2 DEF Retry, Submission, Ended
<1>2. TypeOK'
  BY <1>1 DEF ChargeInv, TypeOK, Retry
<1>3. StartInv' /\ ReservedInv' /\ EmptyInv' /\ ClaimInv'
  BY DEF ChargeInv, Retry, TypeOK, Row, Submission, Handling, Final, Ended, StartInv, ReservedInv,
     EmptyInv, ClaimInv, Reserved, Dispatched, NoRow
<1>4. Conserved'
  BY ConservedSame DEF ChargeInv, SameAmounts, Retry
<1>5. QED
  BY <1>2, <1>3, <1>4 DEF ChargeInv

(* The claim is given back only by a submitter whose task was not taken    *)
(* on.                                                                     *)
LEMMA ResetStep == ChargeInv /\ Reset => ChargeInv'
<1> SUFFICES ASSUME ChargeInv, Reset PROVE ChargeInv'
  OBVIOUS
<1>1. row' \in Row /\ SameAmounts /\ row'.state = "reserved" /\ row'.status = row.status
  BY DEF ChargeInv, Reset, TypeOK, Row, SameAmounts
<1>2. sub' \in Submission /\ sub'.pc \in {"retry", "unknown"} /\ faults' \in Nat
  <2>1. sub \in Submission /\ faults \in Nat
    BY DEF ChargeInv, TypeOK
  <2>2. CASE Goto("retry") /\ UNCHANGED faults
    BY <2>1, <2>2 DEF Goto, Submission, Ended
  <2>3. CASE sub' = [sub EXCEPT !.pc = "unknown", !.acceptance.target = Quota] /\ DBFails
    <3>1. sub' \in Submission
      BY <2>1, <2>3 DEF Submission, Acceptance, Statuses, Ended
    <3>2. sub'.pc = "unknown" /\ faults' \in Nat
      BY <2>1, <2>3 DEF DBFails, Submission
    <3>3. QED
      BY <3>1, <3>2
  <2>4. QED
    BY <2>2, <2>3 DEF Reset
<1>3. TypeOK'
  BY <1>1, <1>2 DEF ChargeInv, TypeOK, Reset
<1>4. jobs = 0 /\ sub.pc = "reset" /\ row.state = "dispatching"
  BY DEF ChargeInv, TypeOK, ClaimInv, Reset, Ended
<1>5. StartInv' /\ ReservedInv' /\ EmptyInv' /\ ClaimInv'
  BY <1>1, <1>2, <1>4 DEF ChargeInv, Reset, StartInv, ReservedInv, EmptyInv, ClaimInv, Reserved
<1>6. Conserved'
  BY <1>1, ConservedSame DEF ChargeInv, Reset
<1>7. QED
  BY <1>3, <1>5, <1>6 DEF ChargeInv

(* The pending row is charged nothing.                                     *)
LEMMA CreateStep == ChargeInv /\ Create => ChargeInv'
<1> SUFFICES ASSUME ChargeInv, Create PROVE ChargeInv'
  OBVIOUS
<1>1. row' \in Row /\ SameAmounts
  BY DEF ChargeInv, StartInv, Create, NoRow, Row, Statuses, SameAmounts
<1>2. sub' \in Submission /\ event' \in Event
  BY DEF ChargeInv, TypeOK, Create, Goto, Submission, Event, Ended
<1>3. TypeOK'
  BY <1>1, <1>2 DEF ChargeInv, TypeOK, Create
<1>4. StartInv' /\ ReservedInv' /\ EmptyInv' /\ ClaimInv'
  BY <1>1 DEF ChargeInv, Create, Goto, TypeOK, Row, Submission, Handling, Final, Ended, StartInv,
     ReservedInv, EmptyInv, ClaimInv, Reserved, Dispatched, NoRow, SameAmounts
<1>5. Conserved'
  BY <1>1, ConservedSame DEF ChargeInv, Create
<1>6. QED
  BY <1>3, <1>4, <1>5 DEF ChargeInv

(* The reservation takes what it records.                                  *)
LEMMA ReserveStep == ChargeInv /\ Reserve => ChargeInv'
<1> SUFFICES ASSUME ChargeInv, Reserve PROVE ChargeInv'
  OBVIOUS
<1>1. PICK i \in 1..Len(Order) :
        /\ \/ ReserveFrom(funds, Order[i]) /\ UNCHANGED forgiven
           \/ PeriodEnds /\ ReserveFrom(Renewed, Order[i]) /\ Forgive
        /\ \/ /\ sub' = [sub EXCEPT !.pc = "claim", !.billed = TRUE, !.prepaid = row'.quota > 0]
              /\ UNCHANGED faults
           \/ Goto("retry") /\ DBFails
  BY DEF Reserve
<1>2. Order[i] \in Sources
  BY <1>1
<1>3. row.state = "pending" /\ sub.pc = "reserve" /\ UNCHANGED <<others, event, rec, poll, jobs>>
  BY DEF Reserve
<1>4. /\ row' \in Row /\ funds' \in [Accounts -> Int] /\ Conserved'
      /\ row'.state = "reserved" /\ row'.status = row.status /\ forgiven' \in Nat
  <2>1. /\ funds \in [Accounts -> Int] /\ others \in [Accounts -> Nat] /\ forgiven \in Nat
        /\ funds["subscription"] <= Total
        /\ \A a \in Accounts : ChargedTo(a) = 0
        /\ \A a \in Accounts : Accounted(a, funds[a] + others[a] + ChargedTo(a))
    BY <1>3 DEF ChargeInv, TypeOK, Conserved, EmptyInv, ChargedTo
  <2>2. \A a \in Accounts :
          IF a = "subscription" THEN Balance[a] <= funds[a] + others[a] /\ funds[a] + others[a] <= Balance[a] + forgiven
          ELSE funds[a] + others[a] = Balance[a]
    BY <2>1 DEF Accounted
  <2>3. CASE ReserveFrom(funds, Order[i]) /\ UNCHANGED forgiven
    BY <1>2, <1>3, <2>1, <2>2, <2>3, ReserveFacts DEF ChargeInv
  <2>4. CASE PeriodEnds /\ ReserveFrom(Renewed, Order[i]) /\ Forgive
    <3>1. /\ Renewed \in [Accounts -> Int] /\ Renewed["subscription"] = Total
          /\ \A a \in Accounts : a # "subscription" => Renewed[a] = funds[a]
      BY <2>1 DEF Renewed, Accounts, Sources
    <3>0. "subscription" \in Accounts
      BY DEF Accounts, Sources
    <3>2. forgiven' = forgiven + (Total - funds["subscription"]) /\ forgiven' \in Nat
      BY <2>1, <2>4, <3>0 DEF Forgive
    <3>3. ASSUME NEW a \in Accounts
          PROVE  IF a = "subscription" THEN Balance[a] <= Renewed[a] + others[a]
                                            /\ Renewed[a] + others[a] <= Balance[a] + forgiven'
                 ELSE Renewed[a] + others[a] = Balance[a]
      <4>1. CASE a = "subscription"
        <5>1. funds[a] \in Int /\ others[a] \in Nat /\ Balance[a] \in Nat /\ Balance[a] <= Total
          BY <2>1, <4>1 DEF Accounts, Sources
        <5>2. QED
          BY SMTT(60), <2>1, <2>2, <3>1, <3>2, <4>1, <5>1
      <4>2. CASE a # "subscription"
        BY <2>2, <3>1, <4>2
      <4>3. QED
        BY <4>1, <4>2
    <3>4. PICK held \in [Accounts -> Int], s \in Sources : held = Renewed /\ s = Order[i]
      BY <1>2, <3>1
    <3>5. ReserveFrom(held, s)
      BY <2>4, <3>4 DEF ReserveFrom
    <3>6. \A a \in Accounts :
             IF a = "subscription" THEN Balance[a] <= held[a] + others[a] /\ held[a] + others[a] <= Balance[a] + forgiven'
             ELSE held[a] + others[a] = Balance[a]
      BY <3>3, <3>4
    <3>7. held["subscription"] <= Total
      BY <3>1, <3>4
    <3>8. QED
      BY <1>3, <3>2, <3>5, <3>6, <3>7, ReserveFacts DEF ChargeInv
  <2>5. QED
    BY <1>1, <2>3, <2>4
<1>5. sub' \in Submission /\ sub'.pc \in {"claim", "retry"} /\ faults' \in Nat
  <2>1. sub \in Submission /\ faults \in Nat
    BY DEF ChargeInv, TypeOK
  <2>2. CASE Goto("retry") /\ DBFails
    <3>1. faults' \in Nat
      BY <2>1, <2>2 DEF DBFails
    <3>2. sub' = [sub EXCEPT !.pc = "retry"]
      BY <2>2 DEF Goto
    <3>3. QED
      BY <2>1, <3>1, <3>2 DEF Submission, Ended
  <2>3. CASE /\ sub' = [sub EXCEPT !.pc = "claim", !.billed = TRUE, !.prepaid = row'.quota > 0]
             /\ UNCHANGED faults
    <3>1. CASE row'.quota > 0
      <4>1. (row'.quota > 0) = TRUE
        BY <3>1
      <4>2. QED
        BY <2>1, <2>3, <4>1 DEF Submission, Ended
    <3>2. CASE ~(row'.quota > 0)
      <4>1. (row'.quota > 0) = FALSE
        BY <3>2
      <4>2. QED
        BY <2>1, <2>3, <4>1 DEF Submission, Ended
    <3>3. QED
      BY <3>1, <3>2
  <2>4. QED
    BY <1>1, <2>2, <2>3
<1>6. TypeOK'
  BY <1>3, <1>4, <1>5 DEF ChargeInv, TypeOK
<1>7. StartInv' /\ ReservedInv' /\ EmptyInv' /\ ClaimInv'
  BY <1>3, <1>4, <1>5 DEF ChargeInv, TypeOK, StartInv, ReservedInv, EmptyInv, ClaimInv, Reserved,
     Dispatched, Ended
<1>8. QED
  BY <1>4, <1>6, <1>7 DEF ChargeInv

(* The one step that is answered with a task: jobs was 0 until now.        *)
LEMMA AcceptedStep == ASSUME NEW acceptance \in Answers PROVE ChargeInv /\ Accepted(acceptance) => ChargeInv'
<1> SUFFICES ASSUME ChargeInv, Accepted(acceptance) PROVE ChargeInv'
  OBVIOUS
<1>1. acceptance \in Acceptance
  BY DEF Answers, Acceptance, Statuses, Final
<1>2. sub' \in Submission /\ sub'.pc = "persist"
  BY <1>1 DEF ChargeInv, TypeOK, Accepted, Submission
<1>3. TypeOK'
  BY SMTT(60), <1>2 DEF ChargeInv, TypeOK, Accepted
<1>4. StartInv' /\ ReservedInv' /\ EmptyInv' /\ ClaimInv'
  BY <1>2 DEF ChargeInv, Accepted, TypeOK, StartInv, ReservedInv, EmptyInv, ClaimInv, Reserved,
     Dispatched, Ended
<1>5. Conserved'
  BY ConservedSame DEF ChargeInv, SameAmounts, Accepted
<1>6. QED
  BY <1>3, <1>4, <1>5 DEF ChargeInv

-----------------------------------------------------------------------------
(* The steps that settle or refund.                                        *)

(* The submitter settles a row that is past its reservation.               *)
LEMMA SettleStep == ChargeInv /\ Settle => ChargeInv'
<1> SUFFICES ASSUME ChargeInv, Settle PROVE ChargeInv'
  OBVIOUS
<1>1. /\ sub.pc = "settle" /\ Reserved /\ sub.acceptance.target \in Nat
      /\ AdjustTaskBilling(sub.acceptance.target) /\ UNCHANGED <<others, forgiven, event, rec, poll, jobs, faults>>
  BY DEF ChargeInv, TypeOK, ReservedInv, Settle, Submission, Acceptance
<1>2. /\ row' \in Row /\ funds' \in [Accounts -> Int] /\ Conserved' /\ EmptyInv'
      /\ row'.state = row.state /\ row'.status = row.status
  BY <1>1, AdjustFacts DEF ChargeInv
<1>3. sub' \in Submission /\ sub'.pc = "ended"
  BY DEF ChargeInv, TypeOK, Settle, Goto, Submission, Ended
<1>4. TypeOK'
  BY <1>1, <1>2, <1>3 DEF ChargeInv, TypeOK
<1>5. StartInv' /\ ReservedInv' /\ ClaimInv'
  BY <1>1, <1>2, <1>3 DEF ChargeInv, TypeOK, StartInv, ReservedInv, EmptyInv, ClaimInv, Reserved,
     Dispatched, Ended
<1>6. QED
  BY <1>2, <1>4, <1>5 DEF ChargeInv

(* The handler settles a row that is past its reservation.                 *)
LEMMA RecAdjustStep == ChargeInv /\ RecAdjust => ChargeInv'
<1> SUFFICES ASSUME ChargeInv, RecAdjust PROVE ChargeInv'
  OBVIOUS
<1>1. /\ Reserved /\ rec.task.target \in Nat
      /\ AdjustTaskBilling(rec.task.target) /\ UNCHANGED <<others, forgiven, sub, event, poll, jobs, faults>>
  BY DEF ChargeInv, TypeOK, ReservedInv, RecAdjust, Handling, Row
<1>2. /\ row' \in Row /\ funds' \in [Accounts -> Int] /\ Conserved' /\ EmptyInv'
      /\ row'.state = row.state /\ row'.status = row.status
  BY <1>1, AdjustFacts DEF ChargeInv
<1>3. rec' \in Handling /\ rec'.pc = "decide"
  BY <1>2 DEF RecAdjust, Step, Handling
<1>4. TypeOK'
  BY <1>1, <1>2, <1>3 DEF ChargeInv, TypeOK
<1>5. sub.pc # "start"
  BY DEF ChargeInv, StartInv, RecAdjust
<1>6. StartInv' /\ ReservedInv' /\ ClaimInv'
  BY <1>1, <1>2, <1>3, <1>5 DEF ChargeInv, TypeOK, StartInv, ReservedInv, EmptyInv, ClaimInv,
     Reserved, Dispatched, Ended
<1>7. QED
  BY <1>2, <1>4, <1>6 DEF ChargeInv

(* The submitter refunds only a task that was not taken on.                *)
LEMMA RefundStep == ChargeInv /\ Refund => ChargeInv'
<1> SUFFICES ASSUME ChargeInv, Refund PROVE ChargeInv'
  OBVIOUS
<1>1. /\ sub.pc = "refund" /\ MayRefund /\ RefundTaskBilling
      /\ UNCHANGED <<others, forgiven, event, rec, poll, jobs, faults>>
  BY DEF Refund
<1>2. /\ row' \in Row /\ funds' \in [Accounts -> Int] /\ Conserved' /\ EmptyInv'
      /\ row'.state = "refunded" /\ row'.status = row.status
  BY <1>1, RefundFacts DEF ChargeInv
<1>3. sub' \in Submission /\ sub'.pc = "fail"
  BY DEF ChargeInv, TypeOK, Refund, Goto, Submission, Ended
<1>4. TypeOK'
  BY <1>1, <1>2, <1>3 DEF ChargeInv, TypeOK
<1>5. StartInv' /\ ReservedInv' /\ ClaimInv'
  BY <1>1, <1>2, <1>3 DEF ChargeInv, TypeOK, StartInv, ReservedInv, EmptyInv, ClaimInv, Reserved,
     Dispatched, Ended
<1>6. QED
  BY <1>2, <1>4, <1>5 DEF ChargeInv

(* The handler refunds an unsent or a failed task, by the row and not by   *)
(* its copy.                                                               *)
LEMMA RecRefundStep == ChargeInv /\ RecRefund => ChargeInv'
<1> SUFFICES ASSUME ChargeInv, RecRefund PROVE ChargeInv'
  OBVIOUS
<1>1. rec.pc = "decide" /\ sub.pc # "start" /\ UNCHANGED <<others, forgiven, sub, event, poll, jobs, faults>>
  BY DEF ChargeInv, StartInv, RecRefund, Decides
<1>2. CASE MayRefund /\ RefundTaskBilling /\ Step(IF rec.task.state = "reserved" THEN "fail" ELSE "finish")
  <2>1. /\ row' \in Row /\ funds' \in [Accounts -> Int] /\ Conserved' /\ EmptyInv'
      /\ row'.state = "refunded" /\ row'.status = row.status
    BY <1>1, <1>2, RefundFacts DEF ChargeInv
  <2>2. rec' \in Handling /\ rec'.pc \in {"fail", "finish"}
    BY <1>2, <2>1 DEF Step, Handling
  <2>3. TypeOK'
    BY <1>1, <2>1, <2>2 DEF ChargeInv, TypeOK
  <2>4. StartInv' /\ ReservedInv' /\ ClaimInv'
    BY <1>1, <1>2, <2>1, <2>2 DEF ChargeInv, TypeOK, MayRefund, taskBillingRefundAllowed, StartInv,
       ReservedInv, EmptyInv, ClaimInv, Reserved, Dispatched, Ended
  <2>5. QED
    BY <2>1, <2>3, <2>4 DEF ChargeInv
<1>3. CASE Release /\ UNCHANGED <<row, funds>>
  <2>1. rec' \in Handling /\ rec'.pc = "idle"
    BY <1>3, NotHandlingType DEF Release, NotHandling
  <2>2. TypeOK'
    BY <1>1, <1>3, <2>1 DEF ChargeInv, TypeOK
  <2>3. StartInv' /\ ReservedInv' /\ EmptyInv' /\ ClaimInv'
    BY <1>1, <1>3, <2>1 DEF ChargeInv, StartInv, ReservedInv, EmptyInv, ClaimInv, Reserved,
       Dispatched, Ended
  <2>4. Conserved'
    BY <1>1, <1>3, ConservedSame DEF ChargeInv, SameAmounts
  <2>5. QED
    BY <2>2, <2>3, <2>4 DEF ChargeInv
<1>4. QED
  BY <1>2, <1>3 DEF RecRefund

-----------------------------------------------------------------------------
(* The pollers.  A poller that moves on stays well typed, and only the     *)
(* idle one needs no reservation.                                          *)
LEMMA PollType ==
    ASSUME TypeOK, NEW p \in Pollers, NEW pc \in {"idle", "update", "settle", "refund"}, PollAt(p, pc)
    PROVE  poll' \in [Pollers -> Polling]
<1>1. poll[p] \in Polling /\ poll \in [Pollers -> Polling]
  BY DEF TypeOK
<1>2. (IF pc = "idle" THEN NotPolling ELSE [poll[p] EXCEPT !.pc = pc]) \in Polling
  BY <1>1, NotPollingType DEF Polling
<1>3. QED
  BY <1>1, <1>2 DEF PollAt

(* Every step of a poller preserves the invariant; it holds a row past its *)
(* reservation.                                                            *)
LEMMA PollStep ==
    ASSUME ChargeInv, NEW p \in Pollers, Poll(p)
    PROVE  ChargeInv'
<1> USE DEF ChargeInv
<1>1. CASE \E result \in Final, bills \in BOOLEAN : Fetch(p, result, bills)
  <2>1. PICK result \in Final, bills \in BOOLEAN : Fetch(p, result, bills)
    BY <1>1
  <2>2. row.status = "running" /\ Reserved /\ UNCHANGED <<row, funds, others, forgiven, sub, event, rec, jobs, faults>>
    BY <2>1 DEF Fetch, ReservedInv
  <2>3. poll' \in [Pollers -> Polling]
    <3>1. [pc |-> "update", bills |-> bills, quota |-> row.quota, result |-> result] \in Polling
      BY DEF Polling, TypeOK, Row
    <3>2. QED
      BY <2>1, <3>1 DEF TypeOK, Fetch
  <2>4. TypeOK'
    BY <2>2, <2>3 DEF TypeOK
  <2>5. StartInv' /\ ReservedInv' /\ EmptyInv' /\ ClaimInv'
    BY <2>2 DEF StartInv, ReservedInv, EmptyInv, ClaimInv, Reserved, Dispatched, Ended
  <2>6. Conserved'
    BY <2>2, ConservedSame DEF SameAmounts
  <2>7. QED
    BY <2>4, <2>5, <2>6
<1>2. CASE Update(p)
  <2>1. /\ Reserved /\ sub.pc # "start" /\ poll[p].result \in Final
        /\ UNCHANGED <<funds, others, forgiven, sub, event, rec, jobs, faults>>
    BY <1>2 DEF Update, ReservedInv, StartInv, Reserved, NoRow, TypeOK, Polling
  <2>2. CASE row.status = "running" /\ row' = [row EXCEPT !.status = poll[p].result] /\ PollAt(p, Billing(p))
    <3>1. /\ row' \in Row /\ SameAmounts /\ row'.state = row.state /\ row'.status = poll[p].result
          /\ row.status = "running"
      BY <2>1, <2>2 DEF TypeOK, Row, Statuses, SameAmounts
    <3>2. Billing(p) \in {"idle", "settle", "refund"}
      BY DEF Billing
    <3>3. poll' \in [Pollers -> Polling]
      BY <2>2, <3>2, PollType
    <3>4. TypeOK'
      BY <2>1, <3>1, <3>3 DEF TypeOK
    <3>5. StartInv' /\ ReservedInv' /\ EmptyInv' /\ ClaimInv'
      BY <2>1, <3>1 DEF SameAmounts, StartInv, ReservedInv, EmptyInv, ClaimInv, Reserved,
         Dispatched, Ended
    <3>6. Conserved'
      BY <2>1, <3>1, ConservedSame
    <3>7. QED
      BY <3>4, <3>5, <3>6
  <2>3. CASE row.status # "running" /\ UNCHANGED row /\ PollAt(p, "idle")
    <3>1. poll' \in [Pollers -> Polling]
      BY <2>3, PollType
    <3>2. TypeOK'
      BY <2>1, <2>3, <3>1 DEF TypeOK
    <3>3. StartInv' /\ ReservedInv' /\ EmptyInv' /\ ClaimInv'
      BY <2>1, <2>3 DEF StartInv, ReservedInv, EmptyInv, ClaimInv, Reserved, Dispatched, Ended
    <3>4. Conserved'
      BY <2>1, <2>3, ConservedSame DEF SameAmounts
    <3>5. QED
      BY <3>2, <3>3, <3>4
  <2>4. QED
    BY <1>2, <2>2, <2>3 DEF Update
<1>3. CASE PollRefund(p)
  <2>1. /\ Reserved /\ sub.pc # "start" /\ MayRefund /\ RefundTaskBilling /\ PollAt(p, "idle")
        /\ UNCHANGED <<others, forgiven, sub, event, rec, jobs, faults>>
    BY <1>3 DEF PollRefund, ReservedInv, StartInv, Reserved, NoRow
  <2>2. /\ row' \in Row /\ funds' \in [Accounts -> Int] /\ Conserved' /\ EmptyInv'
      /\ row'.state = "refunded" /\ row'.status = row.status
    BY <2>1, RefundFacts
  <2>3. poll' \in [Pollers -> Polling]
    BY <2>1, PollType
  <2>4. TypeOK'
    BY <2>1, <2>2, <2>3 DEF TypeOK
  <2>5. StartInv' /\ ReservedInv' /\ ClaimInv'
    BY <2>1, <2>2 DEF TypeOK, MayRefund, taskBillingRefundAllowed, StartInv, ReservedInv,
       EmptyInv, ClaimInv, Reserved, Dispatched, Ended
  <2>6. QED
    BY <2>2, <2>4, <2>5
<1>4. CASE PollStops(p)
  <2>1. Reserved /\ PollAt(p, "idle") /\ UNCHANGED <<row, funds, others, forgiven, sub, event, rec, jobs, faults>>
    BY <1>4 DEF PollStops, ReservedInv
  <2>2. poll' \in [Pollers -> Polling]
    BY <2>1, PollType
  <2>3. TypeOK'
    BY <2>1, <2>2 DEF TypeOK
  <2>4. StartInv' /\ ReservedInv' /\ EmptyInv' /\ ClaimInv'
    BY <2>1 DEF StartInv, ReservedInv, EmptyInv, ClaimInv, Reserved, Dispatched, Ended
  <2>5. Conserved'
    BY <2>1, ConservedSame DEF SameAmounts
  <2>6. QED
    BY <2>3, <2>4, <2>5
<1>5. CASE \E actual \in Actuals : PollSettle(p, actual)
  <2>1. PICK actual \in Actuals : PollSettle(p, actual)
    BY <1>5
  <2>2. /\ Reserved /\ sub.pc # "start" /\ actual \in Nat /\ AdjustTaskBilling(actual) /\ PollAt(p, "idle")
        /\ UNCHANGED <<others, forgiven, sub, event, rec, jobs, faults>>
    <3>1. /\ poll[p].pc = "settle" /\ AdjustTaskBilling(actual) /\ PollAt(p, "idle")
          /\ UNCHANGED <<others, forgiven, sub, event, rec, jobs, faults>>
      BY <2>1 DEF PollSettle
    <3>2. Reserved
      BY <3>1 DEF ReservedInv
    <3>3. sub.pc # "start"
      BY <3>2 DEF StartInv, Reserved, NoRow
    <3>4. QED
      BY <3>1, <3>2, <3>3
  <2>3. /\ row' \in Row /\ funds' \in [Accounts -> Int] /\ Conserved' /\ EmptyInv'
      /\ row'.state = row.state /\ row'.status = row.status
    BY <2>2, AdjustFacts
  <2>4. poll' \in [Pollers -> Polling]
    BY <2>2, PollType
  <2>5. TypeOK'
    BY <2>2, <2>3, <2>4 DEF TypeOK
  <2>6. StartInv' /\ ReservedInv' /\ ClaimInv'
    BY <2>2, <2>3 DEF StartInv, ReservedInv, EmptyInv, ClaimInv, Reserved, Dispatched, Ended
  <2>7. QED
    BY <2>3, <2>5, <2>6
<1>6. QED
  BY <1>1, <1>2, <1>3, <1>4, <1>5 DEF Poll

(* What other requests take is counted.                                    *)
LEMMA SpendStep ==
    ASSUME ChargeInv, NEW a \in Accounts, Spend(a)
    PROVE  ChargeInv'
<1>1. /\ funds' = [funds EXCEPT ![a] = @ - 1] /\ others' = [others EXCEPT ![a] = @ + 1]
      /\ funds[a] > 0 /\ UNCHANGED <<row, forgiven, sub, event, rec, poll, jobs, faults>>
  BY DEF Spend
<1>2. TypeOK'
  BY <1>1 DEF ChargeInv, TypeOK
<1>3. StartInv' /\ ReservedInv' /\ EmptyInv' /\ ClaimInv'
  BY <1>1 DEF ChargeInv, StartInv, ReservedInv, EmptyInv, ClaimInv, Reserved, Dispatched, Ended
<1>4. Conserved'
  <2>0. /\ funds \in [Accounts -> Int] /\ others \in [Accounts -> Nat] /\ funds["subscription"] <= Total
        /\ "subscription" \in Accounts
    BY DEF ChargeInv, TypeOK, Conserved, Accounts, Sources
  <2>1. funds'["subscription"] <= Total
    BY <1>1, <2>0
  <2>2. ASSUME NEW b \in Accounts
        PROVE  Accounted(b, funds[b] + others[b] + ChargedTo(b))'
    <3>1. /\ Accounted(b, funds[b] + others[b] + ChargedTo(b)) /\ funds[b] \in Int /\ others[b] \in Nat
          /\ ChargedTo(b)' = ChargedTo(b) /\ ChargedTo(b) \in Int
      BY <1>1 DEF ChargeInv, Conserved, TypeOK, Row, ChargedTo
    <3>2. funds'[b] + others'[b] = funds[b] + others[b]
      BY <1>1, <2>0, <3>1
    <3>3. funds'[b] \in Int /\ others'[b] \in Nat
      BY <1>2 DEF TypeOK
    <3>4. funds'[b] + others'[b] + ChargedTo(b)' = funds[b] + others[b] + ChargedTo(b)
      BY <3>1, <3>2, <3>3
    <3>5. QED
      BY <1>1, <3>1, <3>4 DEF Accounted
  <2>3. QED
    BY <2>1, <2>2 DEF Conserved
<1>5. QED
  BY <1>2, <1>3, <1>4 DEF ChargeInv

(* A period of the subscription ends: what it forgives is counted.         *)
LEMMA NewPeriodStep == ChargeInv /\ NewPeriod => ChargeInv'
<1> SUFFICES ASSUME ChargeInv, NewPeriod PROVE ChargeInv'
  OBVIOUS
<1>1. /\ funds \in [Accounts -> Int] /\ others \in [Accounts -> Nat] /\ forgiven \in Nat
      /\ funds["subscription"] <= Total /\ "subscription" \in Accounts /\ row \in Row
  BY DEF ChargeInv, TypeOK, Conserved, Accounts, Sources
<1>2. /\ funds' \in [Accounts -> Int] /\ funds'["subscription"] = Total
      /\ \A a \in Accounts : a # "subscription" => funds'[a] = funds[a]
      /\ forgiven' = forgiven + (Total - funds["subscription"]) /\ forgiven' \in Nat
      /\ UNCHANGED <<row, others, sub, event, rec, poll, jobs, faults>>
  BY <1>1 DEF NewPeriod, Renewed, Forgive
<1>3. TypeOK'
  BY <1>2 DEF ChargeInv, TypeOK
<1>4. StartInv' /\ ReservedInv' /\ EmptyInv' /\ ClaimInv'
  BY <1>2 DEF ChargeInv, StartInv, ReservedInv, EmptyInv, ClaimInv, Reserved, Dispatched, Ended
<1>5. ASSUME NEW a \in Accounts
      PROVE  Accounted(a, funds[a] + others[a] + ChargedTo(a))'
  <2>1. /\ Accounted(a, funds[a] + others[a] + ChargedTo(a)) /\ funds[a] \in Int /\ others[a] \in Nat
        /\ ChargedTo(a)' = ChargedTo(a) /\ ChargedTo(a) \in Nat /\ Balance[a] \in Nat
    BY <1>1, <1>2 DEF ChargeInv, Conserved, Row, ChargedTo
  <2>2. CASE a = "subscription"
    BY SMTT(60), <1>1, <1>2, <2>1, <2>2 DEF Accounted
  <2>3. CASE a # "subscription"
    BY <1>2, <2>1, <2>3 DEF Accounted
  <2>4. QED
    BY <2>2, <2>3
<1>6. QED
  BY <1>1, <1>2, <1>3, <1>4, <1>5 DEF ChargeInv, Conserved

-----------------------------------------------------------------------------
(* ChargeInv is inductive.                                                   *)
LEMMA NextInv == ChargeInv /\ [Next]_vars => ChargeInv'
<1> SUFFICES ASSUME ChargeInv, [Next]_vars PROVE ChargeInv'
  OBVIOUS
<1>1. CASE Submit
  BY <1>1, CreateStep, ReserveStep, ReserveFailsStep, ReserveAgainStep, ClaimStep, ClaimFailsStep,
     RejectedStep, UnansweredStep, AcceptedStep, ResetStep, ResetFailsStep, MarkUnknownStep,
     MarkUnknownFailsStep, PersistStep, PersistFailsStep, StoreReceiptStep, ReceiptFailsStep,
     PersistAgainStep, PersistAgainFailsStep, SettleStep, SettleFailsStep, RetryStep, StopStep,
     RefundStep, RefundFailsStep, FailStep, CrashStep DEF Submit
<1>2. CASE Recover
  BY <1>2, LoadStep, LoadReceiptStep, ReceiptConflictsStep, RecAdjustStep, RecAdjustFailsStep,
     RecFailPendingStep, RecRefundStep, RecFailStep, RecMarkAmbiguousStep, RecCompleteStep,
     RecDeferStep, RecFinishStep DEF Recover
<1>3. CASE RecFails
  BY <1>3, RecFailsStep
<1>4. CASE \E p \in Pollers : Poll(p)
  BY <1>4, PollStep
<1>5. CASE \E a \in Accounts : Spend(a)
  BY <1>5, SpendStep
<1>6. CASE UNCHANGED vars
  BY <1>6 DEF vars, ChargeInv, TypeOK, StartInv, ReservedInv, EmptyInv, ClaimInv, Reserved,
     Dispatched, Ended, Conserved, Accounted, ChargedTo
<1>7. CASE NewPeriod
  BY <1>7, NewPeriodStep
<1>8. QED
  BY <1>1, <1>2, <1>3, <1>4, <1>5, <1>6, <1>7 DEF Next

(* The charging part of the invariant holds in every reachable state,      *)
(* however late the reservation.                                           *)
THEOREM ChargeInvariant == Spec => []ChargeInv
<1>1. QED
  BY InitInv, NextInv, PTL DEF Spec

(* What the row says the task costs has been taken from each account, once *)
(* and nothing else, whatever the interleaving of submitter, recovery,     *)
(* pollers and other requests; exactly for the wallet and the token, and   *)
(* up to what its ended periods forgave for the subscription.              *)
THEOREM ChargeConserved == Spec => []Conserved
<1>1. ChargeInv => Conserved
  BY DEF ChargeInv
<1>2. QED
  BY <1>1, ChargeInvariant, PTL

(* The upstream takes the task on at most once over all retries.           *)
THEOREM UpstreamTakesOnce == Spec => []TakenOnce
<1>1. ChargeInv => TakenOnce
  BY DEF ChargeInv, TypeOK, ClaimInv, TakenOnce
<1>2. QED
  BY <1>1, ChargeInvariant, PTL

(* A task the upstream took on is refunded only if it failed.              *)
THEOREM RefundsJustified == Spec => []RefundJustified
<1>1. ChargeInv => RefundJustified
  BY DEF ChargeInv, ClaimInv, RefundJustified
<1>2. QED
  BY <1>1, ChargeInvariant, PTL

(* No step takes a row out of refunded: every transaction that sets        *)
(* another state is guarded by the state it starts from.                   *)
LEMMA StaysRefunded ==
    ASSUME ChargeInv, row.state = "refunded", [Next]_vars
    PROVE  row'.state = "refunded"
<1>1. row \in Row
  BY DEF ChargeInv, TypeOK, Row
<1>2. CASE Submit
  <2>1. CASE Create \/ Reserve \/ Reset
    BY <2>1 DEF ChargeInv, StartInv, NoRow, Create, Reserve, Reset
  <2>2. CASE Claim \/ MarkUnknown \/ Persist \/ PersistAgain
    BY <2>2 DEF Claim, MarkUnknown, MayMarkAmbiguous, Persist, PersistAgain, MayPersist
  <2>3. CASE Settle \/ Refund \/ Fail
    BY <1>1, <2>3 DEF Settle, AdjustTaskBilling, Refund, RefundTaskBilling, Fail, FailedRow, Row
  <2>4. CASE \/ ReserveFails \/ ReserveAgain \/ ClaimFails \/ Rejected \/ Unanswered
             \/ ResetFails \/ MarkUnknownFails \/ PersistFails \/ StoreReceipt \/ ReceiptFails
             \/ PersistAgainFails \/ SettleFails \/ Retry \/ Stop \/ RefundFails \/ Crash
             \/ \E acceptance \in Answers : Accepted(acceptance)
    <3>1. UNCHANGED row
      BY <2>4 DEF ReserveFails, ReserveAgain, ClaimFails, Rejected, Unanswered, ResetFails,
         MarkUnknownFails, PersistFails, StoreReceipt, ReceiptFails, PersistAgainFails, SettleFails,
         Retry, Stop, RefundFails, Crash, Accepted
    <3>2. QED
      BY <3>1
  <2>5. QED
    BY <1>2, <2>1, <2>2, <2>3, <2>4 DEF Submit
<1>3. CASE Recover
  BY <1>1, <1>3 DEF Recover, Load, LoadReceipt, MayRecover, ReceiptConflicts, RecAdjust,
     AdjustTaskBilling,
     RecAdjustFails, RecFailPending, FailedRow, RecRefund, RefundTaskBilling, RecFail, RecMarkAmbiguous,
     MayMarkAmbiguous, RecComplete, CompletedRow, RecDefer, RecFinish, Row
<1>4. CASE RecFails
  BY <1>4 DEF RecFails
<1>5. CASE \E p \in Pollers : Poll(p)
  BY <1>1, <1>5 DEF Poll, Fetch, Update, PollRefund, RefundTaskBilling, PollStops, PollSettle,
     AdjustTaskBilling, Row
<1>6. CASE (\E a \in Accounts : Spend(a)) \/ NewPeriod
  BY <1>6 DEF Spend, NewPeriod
<1>7. CASE UNCHANGED vars
  BY <1>7 DEF vars
<1>8. QED
  BY <1>2, <1>3, <1>4, <1>5, <1>6, <1>7 DEF Next

(* A refund is final: the row stays refunded and the accounts keep what    *)
(* was returned, apart from what other requests take.                      *)
THEOREM RefundIsFinal == Spec => RefundFinal
<1>1. ASSUME ChargeInv, ChargeInv', [Next]_vars, row.state = "refunded"
      PROVE  row'.state = "refunded" /\ (\A a \in Accounts : Accounted(a, funds[a] + others[a]))'
  <2>1. row'.state = "refunded"
    BY <1>1, StaysRefunded
  <2>2. row'.quota = 0 /\ row'.tokenQuota = 0
    BY <1>1, <2>1 DEF ChargeInv, EmptyInv
  <2>3. ASSUME NEW a \in Accounts
        PROVE  Accounted(a, funds[a] + others[a])'
    <3>1. /\ Accounted(a, funds[a] + others[a] + ChargedTo(a))'
          /\ funds'[a] \in Int /\ others'[a] \in Nat
      BY <1>1, <2>3 DEF ChargeInv, TypeOK, Conserved
    <3>2. ChargedTo(a)' = 0
      BY <2>2 DEF ChargedTo
    <3>3. QED
      BY <3>1, <3>2 DEF Accounted
  <2>4. QED
    BY <2>1, <2>3
<1>2. ChargeInv /\ ChargeInv' /\ [Next]_vars =>
        [row.state = "refunded" =>
            row'.state = "refunded" /\ (\A a \in Accounts : Accounted(a, funds[a] + others[a]))']_vars
  BY <1>1
<1>3. QED
  BY <1>2, ChargeInvariant, PTL DEF Spec, RefundFinal

-----------------------------------------------------------------------------
(***************************************************************************)
(* What the result of a task is worth.  ResultInv needs the recovery to    *)
(* come after the reservation (~SlowReserve) and rests on ChargeInv.       *)
(***************************************************************************)

(* The parts of the row the result depends on.                             *)
SameResult == row'.state = row.state /\ row'.status = row.status /\ row'.upstream = row.upstream

(* A settlement touches the amounts only ...                               *)
LEMMA AdjustKeepsResult ==
    ASSUME TypeOK, NEW target, AdjustTaskBilling(target)
    PROVE  SameResult
  BY DEF TypeOK, Row, AdjustTaskBilling, SameResult

(* ... and a refund closes the row with the status it has.                 *)
LEMMA RefundKeepsStatus ==
    ASSUME TypeOK, RefundTaskBilling
    PROVE  row'.state = "refunded" /\ row'.status = row.status /\ row'.upstream = row.upstream
  BY DEF TypeOK, Row, RefundTaskBilling

(* Nothing is known of a task before its row is written.                   *)
LEMMA InitResult == Init => ResultInv
  BY DEF Init, NoRow, NotHandling, NotPolling, ResultInv, StatusInv, SubmitterInv, HandlerInv, PollerInv

(* The steps of the submitter that leave the row alone: it only gives up   *)
(* a row, or carries an answer to it.                                      *)
LEMMA SubmitterResult ==
    ASSUME ChargeInv, ResultInv,
           \/ ReserveFails \/ ReserveAgain \/ ClaimFails \/ Rejected \/ Unanswered \/ ResetFails
           \/ MarkUnknownFails \/ PersistFails \/ StoreReceipt \/ ReceiptFails \/ PersistAgainFails
           \/ SettleFails \/ Retry \/ Stop \/ RefundFails \/ Crash
           \/ \E acceptance \in Answers : Accepted(acceptance)
    PROVE  ResultInv'
<1>1. /\ UNCHANGED <<row, rec, poll>> /\ sub \in Submission /\ sub.acceptance \in Acceptance
  BY DEF ChargeInv, TypeOK, Submission, ReserveFails, ReserveAgain, ClaimFails, Rejected, Unanswered,
     ResetFails, MarkUnknownFails, PersistFails, StoreReceipt, ReceiptFails, PersistAgainFails, SettleFails, Retry, Stop,
     RefundFails, Crash, Accepted
<1>2. StatusInv' /\ PollerInv'
  BY <1>1 DEF ResultInv, StatusInv, PollerInv
<1>3. sub.pc \in Gone => sub'.pc \in Gone
  BY <1>1 DEF Gone, Ended, Submission, Goto, ReserveFails, ReserveAgain, ClaimFails, Rejected, Unanswered, ResetFails,
     MarkUnknownFails, PersistFails, StoreReceipt, ReceiptFails, PersistAgainFails, SettleFails, Retry, Stop,
     RefundFails, Crash, Accepted
<1>4. sub.pc \in Ended => sub'.pc \in Ended
  BY <1>1 DEF Ended, Submission, Goto, ReserveFails, ReserveAgain, ClaimFails, Rejected, Unanswered, ResetFails,
     MarkUnknownFails, PersistFails, StoreReceipt, ReceiptFails, PersistAgainFails, SettleFails, Retry, Stop,
     RefundFails, Crash, Accepted
<1>5. /\ sub'.pc \in {"persist", "receipt", "persistAgain", "settle"} => sub'.acceptance.status \in Answered
      /\ sub'.pc = "settle" => row'.upstream
      /\ event'.receipt # NoReceipt => event'.receipt.status \in Answered
  <2>1. CASE \E acceptance \in Answers : Accepted(acceptance)
    <3>1. PICK acceptance \in Answers : Accepted(acceptance)
      BY <2>1
    <3>2. sub'.pc = "persist" /\ sub'.acceptance = acceptance /\ event' = event
      BY <1>1, <3>1 DEF Accepted, Submission
    <3>3. acceptance.status \in Answered
      BY DEF Answers, Answered, Final
    <3>4. QED
      BY <3>2, <3>3 DEF ResultInv, SubmitterInv
  <2>2. CASE StoreReceipt \/ PersistFails \/ ReceiptFails
    BY <1>1, <2>2 DEF ResultInv, SubmitterInv, Submission, Event, Goto, StoreReceipt, PersistFails, ReceiptFails
  <2>3. CASE \/ ReserveFails \/ ReserveAgain \/ ClaimFails \/ Rejected \/ Unanswered \/ ResetFails
             \/ MarkUnknownFails \/ PersistAgainFails \/ SettleFails \/ Retry \/ Stop \/ RefundFails \/ Crash
    <3>1. event' = event
      BY <2>3 DEF ReserveFails, ReserveAgain, ClaimFails, Rejected, Unanswered, ResetFails, MarkUnknownFails,
         PersistAgainFails, SettleFails, Retry, Stop, RefundFails, Crash
    <3>2. CASE Unanswered \/ ResetFails
      <4>1. sub'.pc = "unknown"
        BY <1>1, <3>2 DEF Unanswered, ResetFails, Submission
      <4>2. QED
        BY <3>1, <4>1 DEF ResultInv, SubmitterInv
    <3>3. CASE \/ ReserveFails \/ ReserveAgain \/ ClaimFails \/ Rejected \/ MarkUnknownFails \/ PersistAgainFails
               \/ SettleFails \/ Retry \/ Stop \/ RefundFails \/ Crash
      <4>1. sub'.pc \notin {"persist", "receipt", "persistAgain", "settle"}
        <5>1. CASE ReserveAgain
          BY <1>1, <5>1 DEF Submission, ReserveAgain
        <5>2. CASE Retry
          BY <1>1, <5>2 DEF Submission, Retry
        <5>3. CASE Stop
          BY <1>1, <5>3 DEF Submission, Goto, Stop
        <5>4. CASE \/ ReserveFails \/ ClaimFails \/ Rejected \/ MarkUnknownFails \/ PersistAgainFails \/ SettleFails
                   \/ RefundFails \/ Crash
          BY <1>1, <5>4 DEF Submission, Goto, ReserveFails, ClaimFails, Rejected, MarkUnknownFails,
             PersistAgainFails, SettleFails, RefundFails, Crash
        <5>5. QED
          BY <3>3, <5>1, <5>2, <5>3, <5>4
      <4>2. QED
        BY <3>1, <4>1 DEF ResultInv, SubmitterInv
    <3>4. QED
      BY <2>3, <3>2, <3>3
  <2>4. QED
    BY <2>1, <2>2, <2>3
<1>6. SubmitterInv' /\ HandlerInv'
  BY <1>1, <1>3, <1>4, <1>5 DEF ResultInv, SubmitterInv, HandlerInv
<1>7. QED
  BY <1>2, <1>6 DEF ResultInv

(* The steps of the submitter that write the row: a failure is recorded    *)
(* only where nobody goes on, an answer only over a dispatched row.        *)
LEMMA SubmitterRowResult ==
    ASSUME ChargeInv, ResultInv,
           \/ Create \/ Reserve \/ Claim \/ Reset \/ MarkUnknown \/ Persist \/ PersistAgain
           \/ Settle \/ Refund \/ Fail
    PROVE  ResultInv'
<1> USE DEF ChargeInv, ResultInv, StatusInv, SubmitterInv, HandlerInv, PollerInv, Answered, Final, Gone, Ended
<1>0. row \in Row /\ sub \in Submission /\ sub.acceptance \in Acceptance
  BY DEF TypeOK, Submission
<1>1. CASE Create
  BY <1>1, <1>0 DEF Create, Goto, StartInv, NoRow, Row, Submission
<1>2. CASE Reserve
  <2>1. PICK i \in 1..Len(Order), held \in {funds, Renewed} : ReserveFrom(held, Order[i])
    BY <1>2 DEF Reserve
  <2>2. /\ row' = ReservedRow(Order[i]) /\ row.state = "pending" /\ sub.pc = "reserve"
        /\ sub'.pc \in {"claim", "retry"}
        /\ UNCHANGED <<event, rec, poll>>
    BY <1>2, <1>0, <2>1 DEF Reserve, ReserveFrom, Goto, Submission
  <2>3. row'.state = "reserved" /\ row'.status = row.status /\ row'.upstream = row.upstream
    BY <1>0, <2>2 DEF ReservedRow, Row
  <2>4. QED
    BY <2>2, <2>3
<1>3. CASE Claim
  BY <1>3, <1>0 DEF Claim, Goto, Row, Submission
<1>4. CASE Reset
  <2>1. /\ row' = [row EXCEPT !.state = "reserved"] /\ row.state = "dispatching" /\ sub.pc = "reset"
        /\ sub'.pc \in {"retry", "unknown"}
        /\ UNCHANGED <<event, rec, poll>>
    BY <1>4, <1>0 DEF Reset, Goto, Submission
  <2>2. QED
    BY <1>0, <2>1 DEF Row
<1>5. CASE MarkUnknown
  BY <1>5, <1>0 DEF MarkUnknown, MayMarkAmbiguous, AmbiguousRow, Goto, Row, Submission
<1>6. CASE Persist
  BY <1>6, <1>0 DEF Persist, MayPersist, PersistedRow, AcceptedRow, Goto, Row, Submission
<1>7. CASE PersistAgain
  BY <1>7, <1>0 DEF PersistAgain, MayPersist, PersistedRow, AcceptedRow, Goto, Row, Submission
<1>8. CASE Settle
  <2>1. /\ sub.pc = "settle" /\ sub'.pc = "ended" /\ AdjustTaskBilling(sub.acceptance.target)
        /\ UNCHANGED <<event, rec, poll>>
    BY <1>8, <1>0 DEF Settle, Goto, Submission
  <2>2. SameResult
    BY <2>1, AdjustKeepsResult
  <2>3. QED
    BY <2>1, <2>2 DEF SameResult
<1>9. CASE Refund
  <2>1. /\ sub.pc = "refund" /\ sub'.pc = "fail" /\ MayRefund /\ RefundTaskBilling
        /\ UNCHANGED <<event, rec, poll>>
    BY <1>9, <1>0 DEF Refund, Goto, Submission
  <2>2. row'.state = "refunded" /\ row'.status = row.status /\ row'.upstream = row.upstream
    BY <2>1, RefundKeepsStatus
  <2>3. QED
    BY <2>1, <2>2 DEF MayRefund, taskBillingRefundAllowed
<1>10. CASE Fail
  BY <1>10, <1>0 DEF Fail, MayFail, FailedRow, Goto, Row, Submission
<1>11. QED
  BY <1>1, <1>2, <1>3, <1>4, <1>5, <1>6, <1>7, <1>8, <1>9, <1>10

(* The handler: what it decided on its copy still fits the row.            *)
LEMMA HandlerResult ==
    ASSUME ~SlowReserve, ChargeInv, ResultInv, Recover \/ RecFails
    PROVE  ResultInv'
<1> USE DEF ChargeInv, ResultInv, StatusInv, SubmitterInv, HandlerInv, PollerInv, Answered, Final
<1>0. row \in Row /\ rec \in Handling /\ event \in Event
  BY DEF TypeOK
<1>1. CASE Load
  BY <1>1, <1>0 DEF Load, Loaded, NeedsAdjust, Due, Gone
<1>2. CASE LoadReceipt
  BY <1>2, <1>0 DEF LoadReceipt, MayRecover, RecoveredRow, AcceptedRow, Loaded, Row
<1>3. CASE ReceiptConflicts
  BY <1>3, <1>0 DEF ReceiptConflicts, Event
<1>4. CASE RecAdjust
  <2>1. /\ rec.pc = "adjust" /\ AdjustTaskBilling(rec.task.target) /\ rec' = [pc |-> "decide", task |-> row']
        /\ UNCHANGED <<sub, event, poll>>
    BY <1>4 DEF RecAdjust, Step
  <2>2. SameResult
    BY <2>1, AdjustKeepsResult
  <2>3. row.state # "pending"
    BY <2>1
  <2>4. QED
    BY <2>1, <2>2, <2>3 DEF SameResult
<1>5. CASE RecFailPending
  BY <1>5, <1>0 DEF RecFailPending, Decides, MayFail, FailedRow, Step, Release, NotHandling, Row
<1>6. CASE RecRefund
  <2>1. CASE MayRefund /\ RefundTaskBilling /\ Step(IF rec.task.state = "reserved" THEN "fail" ELSE "finish")
    <3>1. /\ row'.state = "refunded" /\ row'.status = row.status /\ row'.upstream = row.upstream
      BY <2>1, RefundKeepsStatus
    <3>2. rec'.pc \in {"fail", "finish"} /\ UNCHANGED <<sub, event, poll>>
      BY <1>6, <2>1 DEF RecRefund, Step
    <3>3. QED
      BY <2>1, <3>1, <3>2 DEF MayRefund, taskBillingRefundAllowed
  <2>2. CASE Release /\ UNCHANGED row
    BY <1>6, <2>2 DEF RecRefund, Release, NotHandling
  <2>3. QED
    BY <1>6, <2>1, <2>2 DEF RecRefund
<1>7. CASE RecFail
  BY <1>7, <1>0 DEF RecFail, Decides, MayFail, FailedRow, Step, Release, NotHandling, Row
<1>8. CASE RecMarkAmbiguous
  BY <1>8, <1>0 DEF RecMarkAmbiguous, Decides, MayMarkAmbiguous, AmbiguousRow, Step, Release, NotHandling, Row
<1>9. CASE RecComplete
  BY <1>9, <1>0 DEF RecComplete, Decides, CompletedRow, Step, Row, EmptyInv
<1>10. CASE RecAdjustFails \/ RecDefer \/ RecFinish \/ RecFails
  <2>1. /\ rec'.pc = "idle" /\ UNCHANGED <<row, sub, poll>>
        /\ event'.receipt = event.receipt
    BY <1>0, <1>10 DEF RecAdjustFails, RecDefer, RecFinish, RecFails, Release, NotHandling, Event
  <2>2. QED
    BY <2>1
<1>11. QED
  BY <1>1, <1>2, <1>3, <1>4, <1>5, <1>6, <1>7, <1>8, <1>9, <1>10 DEF Recover

(* The pollers write the result of a running row only, and settle none     *)
(* but a success.                                                          *)
LEMMA PollerResult ==
    ASSUME ChargeInv, ResultInv, NEW p \in Pollers, Poll(p)
    PROVE  ResultInv'
<1> USE DEF ChargeInv, ResultInv, StatusInv, SubmitterInv, HandlerInv, PollerInv, Answered, Final
<1>0. row \in Row /\ poll \in [Pollers -> Polling]
  BY DEF TypeOK
<1>1. ASSUME NEW pc \in {"idle", "refund"}, PollAt(p, pc)
      PROVE  \A q \in Pollers : poll'[q].pc = "settle" => poll[q].pc = "settle"
  BY <1>0, <1>1 DEF PollAt, NotPolling, Polling
<1>2. CASE \E result \in Final, bills \in BOOLEAN : Fetch(p, result, bills)
  BY <1>0, <1>2 DEF Fetch
<1>3. CASE Update(p)
  <2>1. CASE row.status = "running" /\ row' = [row EXCEPT !.status = poll[p].result] /\ PollAt(p, Billing(p))
    <3>1. row.state = "accepted"
      BY <1>0, <2>1 DEF Row
    <3>2. /\ row'.state = "accepted" /\ row'.upstream /\ row'.status = poll[p].result /\ row'.status \in Final
          /\ row.status = "running"
      BY <1>0, <2>1, <3>1 DEF Row, Polling
    <3>3. \A q \in Pollers : poll'[q].pc = "settle" => q = p /\ poll[p].result = "success"
      BY <1>0, <2>1 DEF PollAt, Billing, NotPolling, Polling
    <3>4. UNCHANGED <<sub, event, rec>>
      BY <1>3 DEF Update
    <3>5. QED
      BY <3>1, <3>2, <3>3, <3>4
  <2>2. CASE row.status # "running" /\ UNCHANGED row /\ PollAt(p, "idle")
    BY <1>1, <1>3, <2>2 DEF Update
  <2>3. QED
    BY <1>3, <2>1, <2>2 DEF Update
<1>4. CASE PollRefund(p)
  <2>1. /\ row'.state = "refunded" /\ row'.status = row.status /\ row'.upstream = row.upstream
        /\ MayRefund /\ UNCHANGED <<sub, event, rec>>
    BY <1>4, RefundKeepsStatus DEF PollRefund
  <2>2. \A q \in Pollers : poll'[q].pc = "settle" => poll[q].pc = "settle"
    BY <1>1, <1>4 DEF PollRefund
  <2>3. Reserved
    BY <1>4 DEF PollRefund, ReservedInv
  <2>4. QED
    BY <2>1, <2>2, <2>3 DEF MayRefund, taskBillingRefundAllowed, Reserved
<1>5. CASE PollStops(p)
  BY <1>1, <1>5 DEF PollStops
<1>6. CASE \E actual \in Actuals : PollSettle(p, actual)
  <2>1. PICK actual \in Actuals : PollSettle(p, actual)
    BY <1>6
  <2>2. SameResult /\ poll[p].pc = "settle" /\ UNCHANGED <<sub, event, rec>>
    BY <2>1, AdjustKeepsResult DEF PollSettle
  <2>3. \A q \in Pollers : poll'[q].pc = "settle" => poll[q].pc = "settle"
    BY <1>1, <2>1 DEF PollSettle
  <2>4. QED
    BY <2>2, <2>3 DEF SameResult
<1>7. QED
  BY <1>2, <1>3, <1>4, <1>5, <1>6 DEF Poll

(* With the recovery after the reservation, ResultInv is preserved by      *)
(* every step.                                                             *)
LEMMA NextResult == ~SlowReserve /\ ChargeInv /\ ResultInv /\ [Next]_vars => ResultInv'
<1> SUFFICES ASSUME ~SlowReserve, ChargeInv, ResultInv, [Next]_vars
             PROVE  ResultInv'
  OBVIOUS
<1>1. CASE Submit
  BY <1>1, SubmitterResult, SubmitterRowResult DEF Submit
<1>2. CASE Recover \/ RecFails
  BY <1>2, HandlerResult
<1>3. CASE \E p \in Pollers : Poll(p)
  BY <1>3, PollerResult
<1>4. CASE (\E a \in Accounts : Spend(a)) \/ NewPeriod \/ UNCHANGED vars
  <2>1. UNCHANGED <<row, sub, event, rec, poll>>
    BY <1>4 DEF Spend, NewPeriod, vars
  <2>2. QED
    BY <2>1 DEF ResultInv, StatusInv, SubmitterInv, HandlerInv, PollerInv
<1>5. QED
  BY <1>1, <1>2, <1>3, <1>4 DEF Next

-----------------------------------------------------------------------------
(***************************************************************************)
(* The way of the charge: FlowInv, on top of ResultInv.                    *)
(***************************************************************************)

(* What a row is worth to the charge, apart from its amounts.              *)
SameFlow == SameResult /\ row'.source = row.source

(* A settlement keeps the source, and counts on the token what it takes    *)
(* from the source, or nothing.                                            *)
LEMMA AdjustFlow ==
    ASSUME TypeOK, NEW target \in Nat, AdjustTaskBilling(target), row.tokenQuota \in {0, row.quota}
    PROVE  SameFlow /\ row'.tokenQuota \in {0, row'.quota}
<1>1. row \in Row
  BY DEF TypeOK
<1>2. CASE row.state = "refunded"
  BY <1>2 DEF AdjustTaskBilling, SameFlow, SameResult
<1>3. CASE row.state # "refunded"
  <2> DEFINE token == IF row.tokenBilling THEN target ELSE 0
  <2>1. row' = [row EXCEPT !.quota = target, !.tokenQuota = token, !.target = NoTarget]
    BY <1>3 DEF AdjustTaskBilling
  <2>2. token \in {0, target}
    OBVIOUS
  <2> HIDE DEF token
  <2>3. QED
    BY <1>1, <2>1, <2>2 DEF Row, SameFlow, SameResult
<1>4. QED
  BY <1>2, <1>3

(* A refund keeps the source and clears both amounts.                      *)
LEMMA RefundFlow ==
    ASSUME TypeOK, EmptyInv, RefundTaskBilling
    PROVE  /\ row'.state = "refunded" /\ row'.status = row.status /\ row'.upstream = row.upstream
           /\ row'.source = row.source /\ row'.quota = 0 /\ row'.tokenQuota = 0
  BY DEF TypeOK, Row, EmptyInv, RefundTaskBilling

(* Nothing is charged and nothing is taken on before the row is written.   *)
LEMMA InitFlow == Init => FlowInv
  BY DEF Init, NoRow, NotHandling, NotPolling, FlowInv, SourceInv, TakenInv, Reserved

(* The steps of the submitter that leave the row alone.                    *)
LEMMA SubmitterFlow ==
    ASSUME ChargeInv, ResultInv, FlowInv,
           \/ ReserveFails \/ ReserveAgain \/ ClaimFails \/ Rejected \/ Unanswered \/ ResetFails
           \/ MarkUnknownFails \/ PersistFails \/ StoreReceipt \/ ReceiptFails \/ PersistAgainFails
           \/ SettleFails \/ Retry \/ Stop \/ RefundFails \/ Crash
           \/ \E acceptance \in Answers : Accepted(acceptance)
    PROVE  FlowInv'
<1> USE DEF ChargeInv, FlowInv, SourceInv, TakenInv, Reserved
<1>1. /\ sub \in Submission /\ jobs \in Nat /\ event \in Event
  BY DEF TypeOK
<1>2. CASE ReserveFails \/ ClaimFails \/ Rejected
  BY <1>1, <1>2 DEF ReserveFails, ClaimFails, Rejected, Goto, Submission
<1>3. CASE ReserveAgain
  BY <1>1, <1>3 DEF ReserveAgain, Submission
<1>4. CASE Unanswered
  <2>1. /\ sub'.pc = "unknown" /\ sub'.prepaid = sub.prepaid /\ jobs' \in {jobs, jobs + 1}
        /\ sub.pc = "dispatch" /\ UNCHANGED <<row, event, rec>>
    BY <1>1, <1>4 DEF Unanswered, Submission
  <2>2. QED
    BY <1>1, <2>1
<1>5. CASE ResetFails
  <2>1. /\ sub'.pc = "unknown" /\ sub'.prepaid = sub.prepaid
        /\ sub.pc = "reset" /\ UNCHANGED <<row, event, rec, jobs>>
    BY <1>1, <1>5 DEF ResetFails, Submission
  <2>2. QED
    BY <1>1, <2>1
<1>6. CASE MarkUnknownFails \/ PersistFails \/ ReceiptFails \/ PersistAgainFails \/ SettleFails
  BY <1>1, <1>6 DEF MarkUnknownFails, PersistFails, ReceiptFails, PersistAgainFails, SettleFails, Goto, Submission
<1>7. CASE StoreReceipt
  BY <1>1, <1>7 DEF StoreReceipt, Goto, Submission
<1>8. CASE Retry \/ Stop
  BY <1>1, <1>8 DEF Retry, Stop, Goto, Submission
<1>9. CASE RefundFails \/ Crash
  BY <1>1, <1>9 DEF RefundFails, Crash, Goto, Submission
<1>10. CASE \E acceptance \in Answers : Accepted(acceptance)
  <2>1. /\ sub'.pc = "persist" /\ sub'.prepaid = sub.prepaid /\ jobs' = jobs + 1
        /\ sub.pc = "dispatch" /\ UNCHANGED <<row, event, rec>>
    BY <1>1, <1>10 DEF Accepted, Submission
  <2>2. QED
    BY <1>1, <2>1
<1>11. QED
  BY <1>2, <1>3, <1>4, <1>5, <1>6, <1>7, <1>8, <1>9, <1>10

(* The steps of the submitter that write the row.                          *)
LEMMA SubmitterRowFlow ==
    ASSUME ChargeInv, ResultInv, FlowInv,
           \/ Create \/ Reserve \/ Claim \/ Reset \/ MarkUnknown \/ Persist \/ PersistAgain
           \/ Settle \/ Refund \/ Fail
    PROVE  FlowInv'
<1> USE DEF ChargeInv, FlowInv, SourceInv, TakenInv, Reserved
<1>0. row \in Row /\ sub \in Submission /\ jobs \in Nat /\ sub.acceptance.target \in Nat
  BY DEF TypeOK, Submission, Acceptance
<1>1. CASE Create
  BY <1>1, <1>0 DEF Create, Goto, StartInv, NoRow, Submission
<1>2. CASE Reserve
  <2>1. PICK i \in 1..Len(Order), held \in {funds, Renewed} :
           /\ ReserveFrom(held, Order[i])
           /\ sub'.pc \in {"claim", "retry"}
    BY <1>2, <1>0 DEF Reserve, Goto, Submission
  <2>2. Order[i] \in Sources
    OBVIOUS
  <2>3. /\ row' = ReservedRow(Order[i]) /\ row.state = "pending" /\ sub.pc = "reserve"
        /\ UNCHANGED <<event, rec, jobs>>
    BY <1>2, <2>1 DEF Reserve, ReserveFrom
  <2>4. /\ row'.state = "reserved" /\ row'.upstream = row.upstream /\ row'.source \in Sources
        /\ row'.tokenQuota \in {0, row'.quota}
    BY <1>0, <2>2, <2>3 DEF ReservedRow, Row
  <2>5. "none" \notin Sources
    BY DEF Sources
  <2>6. QED
    BY <2>1, <2>3, <2>4, <2>5
<1>3. CASE Claim
  BY SMTT(60), <1>3, <1>0 DEF Claim, Goto, Row, Submission
<1>4. CASE Reset
  <2>1. /\ row' = [row EXCEPT !.state = "reserved"] /\ row.state = "dispatching"
        /\ sub'.pc \in {"retry", "unknown"} /\ sub'.prepaid = sub.prepaid
        /\ UNCHANGED <<event, rec, jobs>>
    BY <1>4, <1>0 DEF Reset, Goto, Submission
  <2>2. QED
    BY <1>0, <2>1 DEF Row
<1>5. CASE MarkUnknown
  BY <1>5, <1>0 DEF MarkUnknown, MayMarkAmbiguous, AmbiguousRow, Goto, Row, Submission
<1>6. CASE Persist
  BY <1>6, <1>0 DEF Persist, MayPersist, PersistedRow, AcceptedRow, Goto, Row, Submission
<1>7. CASE PersistAgain
  BY <1>7, <1>0 DEF PersistAgain, MayPersist, PersistedRow, AcceptedRow, Goto, Row, Submission
<1>8. CASE Settle
  <2>1. /\ sub.pc = "settle" /\ sub'.pc = "ended" /\ sub'.prepaid = sub.prepaid
        /\ AdjustTaskBilling(sub.acceptance.target)
        /\ UNCHANGED <<event, rec, jobs>>
    BY <1>8, <1>0 DEF Settle, Goto, Submission
  <2>2. SameFlow /\ row'.tokenQuota \in {0, row'.quota}
    BY <1>0, <2>1, AdjustFlow
  <2>3. CASE row.state = "refunded"
    BY <2>1, <2>3 DEF AdjustTaskBilling
  <2>4. CASE row.state # "refunded"
    <3>1. row.state = "accepted" \/ (row.state = "completed" /\ row.status # "failure")
      BY <2>1, <2>4 DEF ResultInv, StatusInv, SubmitterInv
    <3>2. row.source # "none"
      BY <3>1 DEF Sources
    <3>3. QED
      BY <2>1, <2>2, <3>1, <3>2 DEF SameFlow, SameResult
  <2>5. QED
    BY <2>3, <2>4
<1>9. CASE Refund
  <2>1. /\ sub.pc = "refund" /\ sub'.pc = "fail" /\ sub'.prepaid = sub.prepaid
        /\ UNCHANGED <<event, rec, jobs>>
    BY <1>9, <1>0 DEF Refund, Goto, Submission
  <2>2. /\ row'.state = "refunded" /\ row'.upstream = row.upstream
        /\ row'.source = row.source /\ row'.quota = 0 /\ row'.tokenQuota = 0
    BY <1>9, RefundFlow DEF Refund
  <2>3. QED
    BY <2>1, <2>2
<1>10. CASE Fail
  BY <1>10, <1>0 DEF Fail, MayFail, FailedRow, Goto, Row, Submission
<1>11. QED
  BY <1>1, <1>2, <1>3, <1>4, <1>5, <1>6, <1>7, <1>8, <1>9, <1>10

(* The handler.                                                            *)
LEMMA HandlerFlow ==
    ASSUME ChargeInv, ResultInv, FlowInv, Recover \/ RecFails
    PROVE  FlowInv'
<1> USE DEF ChargeInv, FlowInv, SourceInv, TakenInv, Reserved
<1>0. row \in Row /\ rec \in Handling /\ rec.task \in Row /\ event \in Event
  BY DEF TypeOK, Handling
<1>1. CASE Load
  BY <1>1, <1>0 DEF Load, Loaded
<1>2. CASE LoadReceipt
  <2>1. sub.pc \notin {"dispatch", "reset"} /\ jobs > 0
    BY <1>2 DEF LoadReceipt, ClaimInv, Ended
  <2>2. QED
    BY <1>2, <1>0, <2>1 DEF LoadReceipt, MayRecover, RecoveredRow, AcceptedRow, Loaded, Row, Final
<1>3. CASE ReceiptConflicts
  BY <1>3, <1>0 DEF ReceiptConflicts, Event
<1>4. CASE RecAdjust
  <2>1. /\ rec.pc = "adjust" /\ AdjustTaskBilling(rec.task.target) /\ rec' = [pc |-> "decide", task |-> row']
        /\ UNCHANGED <<sub, event, jobs>>
    BY <1>4 DEF RecAdjust, Step
  <2>2. rec.task.target \in Nat
    BY <1>0, <2>1 DEF ReservedInv, Row
  <2>3. SameFlow /\ row'.tokenQuota \in {0, row'.quota}
    BY <2>1, <2>2, AdjustFlow
  <2>4. CASE row.state = "refunded"
    BY <2>1, <2>4 DEF AdjustTaskBilling
  <2>5. CASE row.state # "refunded"
    <3>1. row.state \in {"ambiguous", "accepted"} \/ (row.state = "completed" /\ row.status # "failure")
      BY <2>1, <2>5 DEF ResultInv, StatusInv, HandlerInv
    <3>2. row.source # "none"
      BY <3>1 DEF Sources
    <3>3. QED
      BY <2>1, <2>3, <3>1, <3>2 DEF SameFlow, SameResult
  <2>6. QED
    BY <2>4, <2>5
<1>5. CASE RecFailPending
  BY <1>5, <1>0 DEF RecFailPending, MayFail, FailedRow, Step, Release, NotHandling, Row
<1>6. CASE RecRefund
  <2>1. CASE MayRefund /\ RefundTaskBilling /\ Step(IF rec.task.state = "reserved" THEN "fail" ELSE "finish")
    <3>1. /\ row'.state = "refunded" /\ row'.upstream = row.upstream
          /\ row'.source = row.source /\ row'.quota = 0 /\ row'.tokenQuota = 0
      BY <2>1, RefundFlow
    <3>2. rec'.pc \in {"fail", "finish"} /\ UNCHANGED <<sub, event, jobs>>
      BY <1>6, <2>1 DEF RecRefund, Step
    <3>3. sub.pc \notin {"dispatch", "reset"}
      BY <2>1 DEF MayRefund, taskBillingRefundAllowed, ResultInv, StatusInv
    <3>4. QED
      BY <3>1, <3>2, <3>3
  <2>2. CASE Release /\ UNCHANGED row
    BY <1>6, <2>2 DEF RecRefund, Release, NotHandling
  <2>3. QED
    BY <1>6, <2>1, <2>2 DEF RecRefund
<1>7. CASE RecFail
  BY <1>7, <1>0 DEF RecFail, MayFail, FailedRow, Step, Release, NotHandling, Row
<1>8. CASE RecMarkAmbiguous
  BY <1>8, <1>0 DEF RecMarkAmbiguous, MayMarkAmbiguous, AmbiguousRow, Step, Release, NotHandling, Row
<1>9. CASE RecComplete
  <2>1. /\ \/ row.state = "ambiguous" /\ row.status = "unknown"
           \/ row.state = "pending" /\ row.status = "failure"
           \/ row.status = "success" /\ row.state \in {"accepted", "completed"}
        /\ rec'.pc = "finish" /\ row' = CompletedRow /\ UNCHANGED <<sub, event, jobs>>
    BY <1>0, <1>9 DEF RecComplete, Decides, Step, ResultInv, StatusInv, HandlerInv, Row
  <2>2. "none" \notin Sources
    BY DEF Sources
  <2>3. QED
    BY <1>0, <2>1, <2>2 DEF CompletedRow, Row, EmptyInv, ResultInv, StatusInv, SubmitterInv, Gone, Ended
<1>10. CASE RecAdjustFails \/ RecDefer \/ RecFinish \/ RecFails
  <2>1. /\ rec'.pc = "idle" /\ UNCHANGED <<row, sub, jobs>>
        /\ event'.receipt = event.receipt
    BY <1>0, <1>10 DEF RecAdjustFails, RecDefer, RecFinish, RecFails, Release, NotHandling, Event
  <2>2. QED
    BY <2>1
<1>11. QED
  BY <1>1, <1>2, <1>3, <1>4, <1>5, <1>6, <1>7, <1>8, <1>9, <1>10 DEF Recover

(* The pollers.                                                            *)
LEMMA PollerFlow ==
    ASSUME ChargeInv, ResultInv, FlowInv, NEW p \in Pollers, Poll(p)
    PROVE  FlowInv'
<1> USE DEF ChargeInv, FlowInv, SourceInv, TakenInv, Reserved
<1>0. row \in Row /\ poll \in [Pollers -> Polling]
  BY DEF TypeOK
<1>1. CASE PollStops(p) \/ \E result \in Final, bills \in BOOLEAN : Fetch(p, result, bills)
  BY <1>1 DEF PollStops, Fetch
<1>2. CASE Update(p)
  <2>1. CASE row.status = "running" /\ row' = [row EXCEPT !.status = poll[p].result]
    <3>1. row.state = "accepted"
      BY <1>0, <2>1 DEF Row, ResultInv, StatusInv, Final
    <3>2. QED
      BY <1>0, <1>2, <2>1, <3>1 DEF Update, Row
  <2>2. CASE UNCHANGED row
    BY <1>2, <2>2 DEF Update
  <2>3. QED
    BY <1>2, <2>1, <2>2 DEF Update
<1>3. CASE PollRefund(p)
  <2>1. /\ row'.state = "refunded" /\ row'.upstream = row.upstream
        /\ row'.source = row.source /\ row'.quota = 0 /\ row'.tokenQuota = 0
        /\ MayRefund /\ UNCHANGED <<sub, event, rec, jobs>>
    BY <1>3, RefundFlow DEF PollRefund
  <2>2. sub.pc \notin {"dispatch", "reset"}
    BY <2>1 DEF MayRefund, taskBillingRefundAllowed, ResultInv, StatusInv
  <2>3. QED
    BY <2>1, <2>2
<1>4. CASE \E actual \in Actuals : PollSettle(p, actual)
  <2>1. PICK actual \in Actuals : PollSettle(p, actual)
    BY <1>4
  <2>2. SameFlow /\ row'.tokenQuota \in {0, row'.quota} /\ UNCHANGED <<sub, event, rec, jobs>>
    BY <2>1, AdjustFlow DEF PollSettle
  <2>3. row.status = "success"
    BY <2>1 DEF PollSettle, ResultInv, PollerInv
  <2>4. row.state \in {"accepted", "completed"}
    BY <1>0, <2>3 DEF Row, ResultInv, StatusInv
  <2>5. row.source # "none"
    BY <2>3, <2>4 DEF Sources
  <2>6. QED
    BY <2>2, <2>3, <2>4, <2>5 DEF SameFlow, SameResult
<1>5. QED
  BY <1>1, <1>2, <1>3, <1>4 DEF Poll

(* FlowInv is preserved by every step.                                     *)
LEMMA NextFlow == ChargeInv /\ ResultInv /\ FlowInv /\ [Next]_vars => FlowInv'
<1> SUFFICES ASSUME ChargeInv, ResultInv, FlowInv, [Next]_vars
             PROVE  FlowInv'
  OBVIOUS
<1>1. CASE Submit
  BY <1>1, SubmitterFlow, SubmitterRowFlow DEF Submit
<1>2. CASE Recover \/ RecFails
  BY <1>2, HandlerFlow
<1>3. CASE \E p \in Pollers : Poll(p)
  BY <1>3, PollerFlow
<1>4. CASE (\E a \in Accounts : Spend(a)) \/ NewPeriod \/ UNCHANGED vars
  <2>1. UNCHANGED <<row, sub, event, rec, jobs>>
    BY <1>4 DEF Spend, NewPeriod, vars
  <2>2. QED
    BY <2>1 DEF FlowInv, SourceInv, TakenInv, Reserved
<1>5. QED
  BY <1>1, <1>2, <1>3, <1>4 DEF Next

-----------------------------------------------------------------------------
(* The whole inductive invariant holds in every reachable state.           *)
THEOREM TaskInvariant == Spec => []TaskInv
<1>1. Init => TaskInv
  BY InitInv, InitResult, InitFlow DEF TaskInv
<1>2. TaskInv /\ [Next]_vars => TaskInv'
  BY NextInv, NextResult, NextFlow DEF TaskInv
<1>3. QED
  BY <1>1, <1>2, PTL DEF Spec

(* When the recovery comes after the reservation, a failed task is never   *)
(* closed with its charge kept.                                            *)
THEOREM FailedIsNotClosedCharged ==
    ASSUME SlowReserve = FALSE
    PROVE  Spec => []FailedNotClosedCharged
<1>1. TaskInv => FailedNotClosedCharged
  BY DEF TaskInv, ResultInv, StatusInv, FailedNotClosedCharged
<1>2. QED
  BY <1>1, TaskInvariant, PTL

(* No step changes a terminal status: every transaction that writes the    *)
(* status is guarded by one that is not terminal, or meets none.           *)
LEMMA StatusStands ==
    ASSUME ChargeInv, ResultInv, row.status \in Final, [Next]_vars
    PROVE  row'.status = row.status
<1> USE DEF ChargeInv, ResultInv, StatusInv, Final
<1>1. row \in Row
  BY DEF TypeOK
<1>2. CASE Submit
  <2>1. CASE Create
    BY <2>1 DEF StartInv, NoRow, Create
  <2>2. CASE Reserve
    BY <1>1, <2>2 DEF Reserve, ReserveFrom, ReservedRow, Row
  <2>3. CASE Claim \/ Reset \/ MarkUnknown
    BY <1>1, <2>3 DEF Claim, Reset, MarkUnknown, MayMarkAmbiguous, Row
  <2>4. CASE Persist \/ PersistAgain
    BY <1>1, <2>4 DEF Persist, PersistAgain, MayPersist, PersistedRow
  <2>5. CASE Settle
    BY <2>5, AdjustKeepsResult DEF Settle, SameResult
  <2>6. CASE Refund
    BY <2>6, RefundKeepsStatus DEF Refund
  <2>7. CASE Fail
    BY <1>1, <2>7 DEF Fail, MayFail, FailedRow, Row
  <2>8. CASE \/ ReserveFails \/ ReserveAgain \/ ClaimFails \/ Rejected \/ Unanswered
             \/ ResetFails \/ MarkUnknownFails \/ PersistFails \/ StoreReceipt \/ ReceiptFails
             \/ PersistAgainFails \/ SettleFails \/ Retry \/ Stop \/ RefundFails \/ Crash
             \/ \E acceptance \in Answers : Accepted(acceptance)
    <3>1. UNCHANGED row
      BY <2>8 DEF ReserveFails, ReserveAgain, ClaimFails, Rejected, Unanswered, ResetFails,
         MarkUnknownFails, PersistFails, StoreReceipt, ReceiptFails, PersistAgainFails, SettleFails,
         Retry, Stop, RefundFails, Crash, Accepted
    <3>2. QED
      BY <3>1
  <2>9. QED
    BY <1>2, <2>1, <2>2, <2>3, <2>4, <2>5, <2>6, <2>7, <2>8 DEF Submit
<1>3. CASE Recover \/ RecFails
  <2>1. CASE LoadReceipt \/ RecMarkAmbiguous
    BY <1>1, <2>1 DEF LoadReceipt, MayRecover, RecoveredRow, RecMarkAmbiguous, MayMarkAmbiguous
  <2>2. CASE RecFailPending \/ RecFail \/ RecComplete
    BY <1>1, <2>2 DEF RecFailPending, RecFail, MayFail, FailedRow, RecComplete, CompletedRow, Row
  <2>3. CASE RecAdjust
    BY <2>3, AdjustKeepsResult DEF RecAdjust, SameResult
  <2>4. CASE RecRefund
    BY <2>4, RefundKeepsStatus DEF RecRefund
  <2>5. CASE Load \/ ReceiptConflicts \/ RecAdjustFails \/ RecDefer \/ RecFinish \/ RecFails
    BY <2>5 DEF Load, ReceiptConflicts, RecAdjustFails, RecDefer, RecFinish, RecFails
  <2>6. QED
    BY <1>3, <2>1, <2>2, <2>3, <2>4, <2>5 DEF Recover
<1>4. CASE \E p \in Pollers : Poll(p)
  <2>1. PICK p \in Pollers : Poll(p)
    BY <1>4
  <2>2. CASE PollRefund(p)
    BY <2>2, RefundKeepsStatus DEF PollRefund
  <2>3. CASE \E actual \in Actuals : PollSettle(p, actual)
    BY <2>3, AdjustKeepsResult DEF PollSettle, SameResult
  <2>4. CASE Update(p) \/ PollStops(p) \/ \E result \in Final, bills \in BOOLEAN : Fetch(p, result, bills)
    BY <2>4 DEF Update, PollStops, Fetch
  <2>5. QED
    BY <2>1, <2>2, <2>3, <2>4 DEF Poll
<1>5. CASE (\E a \in Accounts : Spend(a)) \/ NewPeriod \/ UNCHANGED vars
  BY <1>5 DEF Spend, NewPeriod, vars
<1>6. QED
  BY <1>2, <1>3, <1>4, <1>5 DEF Next

(* When the recovery comes after the reservation, a result stands: no late *)
(* acceptance, stale poller or recovery changes a terminal status.         *)
THEOREM ResultsStand ==
    ASSUME SlowReserve = FALSE
    PROVE  Spec => ResultStands
<1>1. TaskInv /\ [Next]_vars => [row.status \in Final => row'.status = row.status]_vars
  BY StatusStands DEF TaskInv
<1>2. QED
  BY <1>1, TaskInvariant, PTL DEF Spec, ResultStands

-----------------------------------------------------------------------------
(***************************************************************************)
(* The refinement of TaskCharge.                                           *)
(***************************************************************************)

(* The charges of a row whose amounts belong to one source, and what the   *)
(* accounts hold.                                                          *)
ChargesShape ==
    /\ Charges \in [Accounts -> Nat] /\ Money \in [Accounts -> Int]
    /\ \A a \in Accounts : Charges[a] = ChargedTo(a) /\ Money[a] = funds[a] + others[a]
    /\ \A t \in Sources : Charges[t] = IF t = row.source THEN row.quota ELSE 0
    /\ Charges["token"] = row.tokenQuota

(* They have it in every state of the invariant.                           *)
LEMMA ChargesValue == ChargeInv => ChargesShape
<1> SUFFICES ASSUME ChargeInv PROVE ChargesShape
  OBVIOUS
<1>1. row.quota \in Nat /\ row.tokenQuota \in Nat
  BY DEF ChargeInv, TypeOK, Row
<1>2. ASSUME NEW a \in Accounts
      PROVE  ChargedTo(a) \in Nat /\ funds[a] \in Int /\ others[a] \in Nat
  BY <1>1 DEF ChargeInv, TypeOK, ChargedTo
<1>3. Charges \in [Accounts -> Nat] /\ \A a \in Accounts : Charges[a] = ChargedTo(a)
  BY <1>2 DEF Charges
<1>4. Money \in [Accounts -> Int] /\ \A a \in Accounts : Money[a] = funds[a] + others[a]
  BY <1>2 DEF Money
<1>5. ASSUME NEW t \in Sources
      PROVE  Charges[t] = IF t = row.source THEN row.quota ELSE 0
  BY <1>3 DEF Accounts, Sources, ChargedTo
<1>6. Charges["token"] = row.tokenQuota
  BY <1>3 DEF Accounts, ChargedTo
<1>7. QED
  BY <1>3, <1>4, <1>5, <1>6 DEF ChargesShape

(* A row with a source charges that source, and the token as much or not   *)
(* at all.                                                                 *)
LEMMA ChargeOfOneSource ==
    ASSUME ChargeInv', FlowInv', row'.source \in Sources
    PROVE  Cost!Recharge(row'.source)
<1>1. DOMAIN Balance = Accounts
  OBVIOUS
<1>2. ChargesShape'
  BY ChargesValue, PTL
<1>3. row'.tokenQuota \in {0, row'.quota}
  BY DEF FlowInv, SourceInv
<1>4. QED
  BY <1>1, <1>2, <1>3 DEF ChargesShape, Cost!Recharge

(* A movement that the row records moves the accounts by the difference of *)
(* the charges; less may come back to a subscription only after the end of *)
(* a period, because before that its account is exact.                     *)
LEMMA ChargeMoves ==
    ASSUME ChargeInv, FlowInv, ChargeInv', FlowInv', row.source \in Sources, row'.source = row.source,
           UNCHANGED <<others, forgiven>>, NEW d \in Int, NEW t \in Int,
           d = row'.quota - row.quota, t = row'.tokenQuota - row.tokenQuota,
           funds' = Moved(funds, row.source, d, t)
    PROVE  Cost!Charge(row.source)
<1>1. DOMAIN Balance = Accounts
  OBVIOUS
<1>2. ChargesShape
  BY ChargesValue
<1>3. ChargesShape'
  BY ChargesValue, PTL
<1>4. Cost!Recharge(row.source)
  BY ChargeOfOneSource
<1>5. /\ funds \in [Accounts -> Int] /\ funds["subscription"] <= Total
      /\ row.quota \in Nat /\ row.tokenQuota \in Nat /\ row'.quota \in Nat /\ row'.tokenQuota \in Nat
  BY DEF ChargeInv, TypeOK, Row, Conserved
<1>6. /\ \A a \in Accounts : a # row.source => funds'[a] = funds[a] - (IF a = "token" THEN t ELSE 0)
      /\ \A a \in Accounts : a = row.source =>
            \/ funds'[a] = funds[a] - d
            \/ a = "subscription" /\ funds'[a] = Total /\ Total <= funds[a] - d
  BY SourceMoves DEF ChargeInv, IsMoved
<1>7. ASSUME NEW a \in Accounts
      PROVE  \/ Money'[a] = Money[a] + Charges[a] - Charges'[a]
             \/ /\ a \in {"subscription"} /\ forgiven > 0
                /\ Money[a] <= Money'[a] /\ Money'[a] <= Money[a] + Charges[a] - Charges'[a]
  <2>1. /\ Money[a] = funds[a] + others[a] /\ Money'[a] = funds'[a] + others[a]
        /\ funds[a] \in Int /\ funds'[a] \in Int /\ others[a] \in Nat /\ Balance[a] \in Nat
        /\ Charges[a] = ChargedTo(a) /\ Charges'[a] = ChargedTo(a)'
    BY <1>2, <1>3 DEF ChargesShape, ChargeInv, TypeOK
  <2>2. "token" # row.source
    BY DEF Sources
  <2>3. CASE a # row.source
    <3>1. Charges[a] = (IF a = "token" THEN row.tokenQuota ELSE 0)
          /\ Charges'[a] = (IF a = "token" THEN row'.tokenQuota ELSE 0)
      BY <2>1, <2>3 DEF ChargedTo
    <3>2. funds'[a] = funds[a] - (IF a = "token" THEN t ELSE 0)
      BY <1>6, <2>3
    <3>3. QED
      BY SMTT(60), <1>5, <2>1, <3>1, <3>2
  <2>4. CASE a = row.source
    <3>1. Charges[a] = row.quota /\ Charges'[a] = row'.quota
      BY <2>1, <2>2, <2>4 DEF ChargedTo
    <3>2. CASE a # "subscription"
      <4>1. funds'[a] = funds[a] - (row'.quota - row.quota)
        BY <1>6, <2>4, <3>2
      <4>2. funds'[a] + others[a] = funds[a] + others[a] + row.quota - row'.quota
        <5>1. PICK x \in Int, y \in Int, u \in Nat, c \in Nat, n \in Nat :
                x = funds[a] /\ y = funds'[a] /\ u = others[a] /\ c = row.quota /\ n = row'.quota
          BY <1>5, <2>1
        <5>2. y = x - (n - c)
          BY <4>1, <5>1
        <5>3. y + u = x + u + c - n
          BY <5>2
        <5>4. QED
          BY <5>1, <5>3
      <4>3. QED
        BY <2>1, <3>1, <4>2
    <3>3. CASE a = "subscription"
      <4>1. /\ Balance[a] <= Total /\ forgiven \in Nat /\ funds[a] <= Total
            /\ Balance[a] <= funds[a] + others[a] + row.quota
            /\ funds[a] + others[a] + row.quota <= Balance[a] + forgiven
        BY <1>5, <2>1, <3>1, <3>3 DEF ChargeInv, TypeOK, Conserved, Accounted
      <4>2. \/ funds'[a] = funds[a] - (row'.quota - row.quota)
            \/ funds'[a] = Total /\ Total <= funds[a] - (row'.quota - row.quota)
        BY <1>6, <2>4
      <4>3. \/ funds'[a] + others[a] = funds[a] + others[a] + row.quota - row'.quota
            \/ /\ forgiven > 0 /\ funds[a] + others[a] <= funds'[a] + others[a]
               /\ funds'[a] + others[a] <= funds[a] + others[a] + row.quota - row'.quota
        BY <1>5, <2>1, <4>1, <4>2, CutShort
      <4>4. QED
        BY <2>1, <3>1, <3>3, <4>3
    <3>4. QED
      BY <3>2, <3>3
  <2>5. QED
    BY <2>3, <2>4
<1>8. DOMAIN Money' = Accounts
  BY DEF Money
<1>9. QED
  BY <1>1, <1>4, <1>7, <1>8 DEF Cost!Charge

(* Amounts that stay are the same charge.                                  *)
LEMMA SameCharges ==
    ASSUME SameAmounts
    PROVE  Charges' = Charges
  BY DEF SameAmounts, Charges, ChargedTo

(* Accounts that nobody touches hold the same money.                       *)
LEMMA SameMoney ==
    ASSUME UNCHANGED <<funds, others>>
    PROVE  Money' = Money
  BY DEF Money

(* A step that leaves the amounts, the phase and the result alone is no    *)
(* step of the charge.                                                     *)
LEMMA QuietCost ==
    ASSUME SameAmounts, Phase' = Phase, Result' = Result, Money' = Money, UNCHANGED <<jobs, forgiven>>
    PROVE  UNCHANGED Cost!cvars
  BY SameCharges DEF SameAmounts, Cost!cvars

(* A step that writes a first result concludes the task.                   *)
LEMMA ConcludeCost ==
    ASSUME ChargeInv, SameAmounts, Phase' = Phase, UNCHANGED <<jobs, funds, others, forgiven>>,
           row.status \notin Final, row'.status \in Final,
           row'.status = "success" => Phase = "sent" /\ jobs > 0
    PROVE  Cost!CNext
<1>1. jobs > 0 => jobs = 1
  BY DEF ChargeInv, ClaimInv
<1>2. Result = "none" /\ Result' = row'.status
  BY DEF Result
<1>3. Cost!Conclude
  BY <1>1, <1>2, SameCharges, SameMoney DEF SameAmounts, Final, Cost!Conclude, Cost!Results
<1>4. QED
  BY <1>3 DEF Cost!CNext

(* A settlement of a row that was sent settles the charge.                 *)
LEMMA SettleCost ==
    ASSUME ChargeInv, FlowInv, ChargeInv', FlowInv', SameFlow, UNCHANGED <<others, forgiven, jobs>>,
           NEW target \in Nat, AdjustTaskBilling(target),
           row.source \in Sources, row.state \notin {"reserved", "refunded"}
    PROVE  Cost!CNext
<1>1. Cost!Charge(row.source) /\ row'.source = row.source
  <2> DEFINE token == IF row.tokenBilling THEN target ELSE 0
  <2>1. /\ funds' = Moved(funds, row.source, target - row.quota, token - row.tokenQuota)
        /\ row'.quota = target /\ row'.tokenQuota = token /\ row'.source = row.source
    BY DEF AdjustTaskBilling, ChargeInv, TypeOK, Row
  <2>2. target - row.quota \in Int /\ token - row.tokenQuota \in Int
    BY DEF ChargeInv, TypeOK, Row
  <2> HIDE DEF token
  <2>3. QED
    BY <2>1, <2>2, ChargeMoves
<1>2. Phase = "sent" /\ Phase' = "sent" /\ Result' = Result
  BY DEF Phase, Result, SameFlow, SameResult, Sources
<1>3. Cost!Settle
  BY <1>1, <1>2 DEF Cost!Settle
<1>4. QED
  BY <1>3 DEF Cost!CNext

(* A refund of an unsent or failed task returns the charge; a second one   *)
(* does nothing.                                                           *)
LEMMA ReturnCost ==
    ASSUME ChargeInv, ResultInv, FlowInv, ChargeInv', FlowInv', Reserved, MayRefund, RefundTaskBilling,
           UNCHANGED <<others, forgiven, jobs>>
    PROVE  [Cost!CNext]_(Cost!cvars)
<1>1. CASE row.state = "refunded"
  <2>1. row' = row /\ Money' = Money
    BY <1>1, SameMoney DEF RefundTaskBilling
  <2>2. SameAmounts /\ Phase' = Phase /\ Result' = Result
    BY <2>1 DEF SameAmounts, Phase, Result
  <2>3. QED
    BY <2>1, <2>2, QuietCost
<1>2. CASE row.state # "refunded"
  <2>1. /\ row'.state = "refunded" /\ row'.status = row.status
        /\ row'.source = row.source /\ row'.quota = 0 /\ row'.tokenQuota = 0
    BY RefundFlow DEF ChargeInv
  <2>2. row.source \in Sources /\ row.source # "none"
    BY <1>2 DEF Reserved, MayRefund, taskBillingRefundAllowed, FlowInv, SourceInv, Sources
  <2>3. Cost!Charge(row.source)
    <3>1. funds' = Moved(funds, row.source, -row.quota, -row.tokenQuota)
      BY <1>2 DEF RefundTaskBilling
    <3>2. /\ -row.quota \in Int /\ -row.tokenQuota \in Int
          /\ -row.quota = row'.quota - row.quota /\ -row.tokenQuota = row'.tokenQuota - row.tokenQuota
      BY <2>1 DEF ChargeInv, TypeOK, Row
    <3>3. QED
      BY <2>1, <2>2, <3>1, <3>2, ChargeMoves
  <2>4. Charges' = [a \in Accounts |-> 0]
    BY <2>1 DEF Charges, ChargedTo
  <2>5. /\ Phase = "held" \/ (Phase = "sent" /\ Result = "failure")
        /\ Phase' = "returned" /\ Result' = Result
    BY <1>2, <2>1, <2>2 DEF Phase, Result, Final, Reserved, MayRefund, taskBillingRefundAllowed
  <2>6. DOMAIN Balance = Accounts
    OBVIOUS
  <2>7. Cost!Return
    BY <2>1, <2>3, <2>4, <2>5, <2>6 DEF Cost!Return
  <2>8. QED
    BY <2>7 DEF Cost!CNext
<1>3. QED
  BY <1>1, <1>2

(* Marking a dispatched row ambiguous is no step of the charge.            *)
LEMMA AmbiguousCost ==
    ASSUME ChargeInv, ResultInv, FlowInv, ChargeInv', FlowInv', MayMarkAmbiguous,
           UNCHANGED <<jobs, funds, others, forgiven>>,
           NEW target, row' = AmbiguousRow(target)
    PROVE  UNCHANGED Cost!cvars
<1>1. /\ row'.state = "ambiguous" /\ row'.status = "unknown" /\ SameAmounts
  BY DEF ChargeInv, TypeOK, Row, AmbiguousRow, SameAmounts
<1>2. row.source # "none"
  BY DEF MayMarkAmbiguous, FlowInv, SourceInv, Sources
<1>3. Phase' = Phase /\ Result' = Result
  BY <1>1, <1>2 DEF MayMarkAmbiguous, SameAmounts, Phase, Result, Final
<1>4. QED
  BY <1>1, <1>3, QuietCost, SameMoney

(* Recording an acceptance over a row without a result concludes the task  *)
(* or leaves it running.                                                   *)
LEMMA AcceptedCost ==
    ASSUME ChargeInv, ResultInv, FlowInv, ChargeInv', FlowInv', UNCHANGED <<jobs, funds, others, forgiven>>, jobs > 0,
           row.state \in {"dispatching", "ambiguous", "completed"}, row.status \notin Final,
           NEW acceptance, row' = AcceptedRow(acceptance)
    PROVE  [Cost!CNext]_(Cost!cvars)
<1>1. /\ row'.state = "accepted" /\ SameAmounts
  BY DEF ChargeInv, TypeOK, Row, AcceptedRow, SameAmounts
<1>2. row.source # "none"
  BY DEF FlowInv, SourceInv, Sources, Final
<1>3. Phase = "sent" /\ Phase' = "sent"
  BY <1>1, <1>2 DEF SameAmounts, Phase
<1>4. CASE row'.status \in Final
  BY <1>1, <1>3, <1>4, ConcludeCost
<1>5. CASE row'.status \notin Final
  <2>1. Result' = Result
    BY <1>5 DEF Result
  <2>2. QED
    BY <1>1, <1>3, <2>1, QuietCost, SameMoney
<1>6. QED
  BY <1>4, <1>5

(* Recording a failure over an unsent or refunded row concludes the task.  *)
LEMMA FailedCost ==
    ASSUME ChargeInv, ResultInv, FlowInv, ChargeInv', FlowInv', UNCHANGED <<jobs, funds, others, forgiven>>,
           MayFail, row' = FailedRow
    PROVE  [Cost!CNext]_(Cost!cvars)
<1>1. row'.state = row.state /\ row'.status = "failure" /\ SameAmounts
  BY DEF ChargeInv, TypeOK, Row, FailedRow, SameAmounts
<1>2. Phase' = Phase
  BY <1>1 DEF Phase, SameAmounts
<1>3. CASE row.status \in Final
  <2>1. Result' = Result
    BY <1>1, <1>3 DEF MayFail, Result, Final
  <2>2. QED
    BY <1>1, <1>2, <2>1, QuietCost, SameMoney
<1>4. CASE row.status \notin Final
  BY <1>1, <1>2, <1>4, ConcludeCost DEF Final
<1>5. QED
  BY <1>3, <1>4

(* A step that leaves the row alone and takes nothing on.                  *)
LEMMA SameRowCost ==
    ASSUME UNCHANGED <<row, jobs, funds, others, forgiven>>
    PROVE  UNCHANGED Cost!cvars
<1>1. SameAmounts /\ Phase' = Phase /\ Result' = Result /\ Money' = Money
  BY SameMoney DEF SameAmounts, Phase, Result
<1>2. QED
  BY <1>1, QuietCost

(* A reservation takes its charges from the accounts as they are, or as    *)
(* the end of a period leaves them.                                        *)
LEMMA HoldMoves ==
    ASSUME ChargeInv, ChargeInv', UNCHANGED others, row.state = "pending", NEW s \in Sources,
           NEW held \in {funds, Renewed}, ReserveFrom(held, s),
           (held = funds /\ UNCHANGED forgiven) \/ (PeriodEnds /\ held = Renewed /\ Forgive)
    PROVE  \/ Money = [a \in Accounts |-> Money'[a] + Charges'[a] - Charges[a]] /\ UNCHANGED forgiven
           \/ Cost!Renews([a \in Accounts |-> Money'[a] + Charges'[a] - Charges[a]])
<1> DEFINE before == [a \in Accounts |-> Money'[a] + Charges'[a] - Charges[a]]
<1>1. /\ funds \in [Accounts -> Int] /\ others \in [Accounts -> Nat] /\ forgiven \in Nat /\ forgiven' \in Nat
      /\ funds["subscription"] <= Total /\ "subscription" \in Accounts
  BY DEF ChargeInv, TypeOK, Conserved, Accounts, Sources
<1>2. /\ Renewed \in [Accounts -> Int] /\ Renewed["subscription"] = Total
      /\ \A a \in Accounts : a # "subscription" => Renewed[a] = funds[a]
  BY <1>1 DEF Renewed
<1>3. held \in [Accounts -> Int] /\ held["subscription"] <= Total
  BY <1>1, <1>2
<1>4. \A a \in Accounts : funds'[a] + others'[a] + ChargedTo(a)' = held[a] + others[a]
  BY <1>3, ReserveMoves DEF ChargeInv
<1>5. ChargesShape
  BY ChargesValue
<1>6. ChargesShape'
  BY ChargesValue, PTL
<1>7. \A a \in Accounts : Charges[a] = 0
  BY <1>5 DEF ChargesShape, ChargedTo, ChargeInv, EmptyInv
<1>8. \A a \in Accounts : before[a] = held[a] + others[a]
  <2> SUFFICES ASSUME NEW a \in Accounts PROVE Money'[a] + Charges'[a] - Charges[a] = held[a] + others[a]
    OBVIOUS
  <2>1. Money'[a] = funds'[a] + others'[a] /\ Charges'[a] = ChargedTo(a)' /\ Charges'[a] \in Nat /\ Money'[a] \in Int
    BY <1>6 DEF ChargesShape
  <2>2. held[a] + others[a] \in Int
    BY <1>1, <1>3
  <2>3. QED
    BY <1>4, <1>7, <2>1, <2>2
<1>9. Money \in [Accounts -> Int] /\ \A a \in Accounts : Money[a] = funds[a] + others[a]
  BY <1>5 DEF ChargesShape
<1>10. before = [a \in Accounts |-> held[a] + others[a]]
  BY <1>8
<1>11. CASE held = funds /\ UNCHANGED forgiven
  BY <1>10, <1>11 DEF Money
<1>12. CASE PeriodEnds /\ held = Renewed /\ Forgive
  <2>1. before["subscription"] > Money["subscription"]
    BY <1>1, <1>2, <1>8, <1>9, <1>12 DEF PeriodEnds
  <2>2. \A a \in Accounts : a # "subscription" => before[a] = Money[a]
    BY <1>2, <1>8, <1>9, <1>12
  <2>3. before = [Money EXCEPT !["subscription"] = before["subscription"]]
    <3> HIDE DEF before
    <3>1. before \in [Accounts -> Int]
      BY <1>1, <1>3, <1>10
    <3>2. QED
      BY <1>9, <2>2, <3>1
  <2>4. (forgiven' > 0) = TRUE
    BY <1>1, <1>12 DEF PeriodEnds, Forgive
  <2>5. QED
    BY <2>1, <2>3, <2>4 DEF Cost!Renews
<1>13. QED
  BY <1>11, <1>12

(* Every step of the submitter is a step of the charge or none.            *)
LEMMA SubmitCost ==
    ASSUME ChargeInv, ResultInv, FlowInv, ChargeInv', FlowInv', Submit
    PROVE  [Cost!CNext]_(Cost!cvars)
<1>0. row \in Row /\ jobs \in Nat
  BY DEF ChargeInv, TypeOK
<1>1. CASE Create
  <2>1. row = NoRow /\ row' = [NoRow EXCEPT !.state = "pending"] /\ UNCHANGED <<jobs, funds, others, forgiven>>
    BY <1>1 DEF ChargeInv, StartInv, Create
  <2>2. SameAmounts /\ Phase' = Phase /\ Result' = Result
    BY <2>1 DEF NoRow, SameAmounts, Phase, Result
  <2>3. QED
    BY <2>1, <2>2, QuietCost, SameMoney
<1>2. CASE Reserve
  <2>1. PICK i \in 1..Len(Order), held \in {funds, Renewed} :
          /\ ReserveFrom(held, Order[i])
          /\ (held = funds /\ UNCHANGED forgiven) \/ (PeriodEnds /\ held = Renewed /\ Forgive)
    BY <1>2 DEF Reserve
  <2>2. Order[i] \in Sources
    OBVIOUS
  <2>3. row' = ReservedRow(Order[i]) /\ row.state = "pending" /\ sub.pc = "reserve" /\ UNCHANGED <<others, jobs>>
    BY <1>2, <2>1 DEF Reserve, ReserveFrom
  <2>4. row'.state = "reserved" /\ row'.status = row.status /\ row'.source = Order[i]
    BY <1>0, <2>3 DEF ReservedRow, Row
  <2>5. row.source = "none" /\ row.status \notin Final
    BY <2>3 DEF FlowInv, SourceInv, ResultInv, StatusInv, SubmitterInv, Gone, Ended, Final
  <2>6. Phase = "none" /\ Phase' = "held" /\ Result = "none" /\ Result' = "none"
    BY <2>2, <2>3, <2>4, <2>5 DEF Phase, Result, Sources
  <2>7. Cost!Recharge(row'.source)
    BY <2>2, <2>4, ChargeOfOneSource
  <2>8. (/\ Money = [a \in Accounts |-> Money'[a] + Charges'[a] - Charges[a]] /\ UNCHANGED forgiven)
        \/ Cost!Renews([a \in Accounts |-> Money'[a] + Charges'[a] - Charges[a]])
    BY <1>2, <2>1, <2>2, <2>3, HoldMoves
  <2>9. Cost!Hold
    <3>1. DOMAIN Balance = Accounts /\ DOMAIN Money' = Accounts
      BY DEF Money
    <3>2. QED
      BY <2>2, <2>3, <2>4, <2>6, <2>7, <2>8, <3>1 DEF Cost!Hold
  <2>10. QED
    BY <2>9 DEF Cost!CNext
<1>3. CASE Claim
  <2>1. CASE row.state = "reserved"
    <3>1. /\ row' = [row EXCEPT !.state = "dispatching"] /\ sub.pc = "claim"
          /\ UNCHANGED <<jobs, funds, others, forgiven>>
      BY <1>3, <2>1 DEF Claim
    <3>2. row'.state = "dispatching" /\ row'.status = row.status /\ SameAmounts
      BY <1>0, <3>1 DEF Row, SameAmounts
    <3>3. row.source # "none" /\ row.status \notin Final
      BY <2>1, <3>1 DEF FlowInv, SourceInv, Sources, ResultInv, StatusInv, SubmitterInv, Ended, Final
    <3>4. Phase = "held" /\ Phase' = "sent" /\ Result = "none" /\ Result' = "none"
      BY <2>1, <3>2, <3>3 DEF SameAmounts, Phase, Result
    <3>5. Cost!Send
      BY <3>1, <3>2, <3>4, SameCharges, SameMoney DEF SameAmounts, Cost!Send
    <3>6. QED
      BY <3>5 DEF Cost!CNext
  <2>2. CASE row.state # "reserved"
    BY <1>3, <2>2, SameRowCost DEF Claim
  <2>3. QED
    BY <2>1, <2>2
<1>4. CASE Reset
  <2>1. /\ row' = [row EXCEPT !.state = "reserved"] /\ row.state = "dispatching" /\ sub.pc = "reset"
        /\ UNCHANGED <<jobs, funds, others, forgiven>>
    BY <1>4 DEF Reset
  <2>2. row'.state = "reserved" /\ row'.status = row.status /\ SameAmounts
    BY <1>0, <2>1 DEF Row, SameAmounts
  <2>3. row.source # "none" /\ row.status \notin Final /\ jobs = 0
    BY <1>0, <2>1 DEF FlowInv, SourceInv, Sources, ResultInv, StatusInv, ChargeInv, ClaimInv, Ended, Final
  <2>4. Phase = "sent" /\ Phase' = "held" /\ Result = "none" /\ Result' = "none"
    BY <2>1, <2>2, <2>3 DEF SameAmounts, Phase, Result
  <2>5. Cost!Unsend
    BY <2>1, <2>2, <2>3, <2>4, SameCharges, SameMoney DEF SameAmounts, Cost!Unsend
  <2>6. QED
    BY <2>5 DEF Cost!CNext
<1>5. CASE Unanswered \/ \E acceptance \in Answers : Accepted(acceptance)
  <2>1. jobs' \in {jobs, jobs + 1} /\ sub.pc = "dispatch" /\ UNCHANGED <<row, funds, others, forgiven>>
    BY <1>5 DEF Unanswered, Accepted
  <2>2. CASE jobs' = jobs
    BY <2>1, <2>2, SameRowCost
  <2>3. CASE jobs' = jobs + 1
    <3>1. jobs = 0
      BY <1>0, <2>1 DEF ChargeInv, ClaimInv, Ended
    <3>2. row.source # "none" /\ row.status \notin Final /\ row.state \notin {"reserved", "refunded"}
      BY <2>1 DEF FlowInv, SourceInv, TakenInv, Sources, ResultInv, StatusInv, Final
    <3>3. Phase = "sent" /\ Phase' = Phase /\ Result = "none" /\ Result' = Result /\ SameAmounts
      BY <2>1, <3>2 DEF Phase, Result, SameAmounts
    <3>4. Cost!Take
      BY <2>1, <2>3, <3>1, <3>3, SameCharges, SameMoney DEF Cost!Take
    <3>5. QED
      BY <3>4 DEF Cost!CNext
  <2>4. QED
    BY <2>1, <2>2, <2>3
<1>6. CASE MarkUnknown
  <2>1. CASE MayMarkAmbiguous
    BY <1>6, <2>1, AmbiguousCost DEF MarkUnknown
  <2>2. CASE ~MayMarkAmbiguous
    BY <1>6, <2>2, SameRowCost DEF MarkUnknown
  <2>3. QED
    BY <2>1, <2>2
<1>7. CASE Persist \/ PersistAgain
  <2>1. CASE row.state = "dispatching"
    <3>1. row' = AcceptedRow(sub.acceptance) /\ UNCHANGED <<jobs, funds, others, forgiven>>
      BY <1>7, <2>1 DEF Persist, PersistAgain, MayPersist, PersistedRow
    <3>2. jobs > 0 /\ row.status \notin Final
      BY <1>7, <2>1 DEF Persist, PersistAgain, FlowInv, TakenInv, ResultInv, StatusInv, Final
    <3>3. QED
      BY <2>1, <3>1, <3>2, AcceptedCost
  <2>2. CASE row.state # "dispatching"
    <3>1. UNCHANGED <<row, jobs, funds, others, forgiven>>
      BY <1>7, <2>2 DEF Persist, PersistAgain, MayPersist, PersistedRow
    <3>2. QED
      BY <3>1, SameRowCost
  <2>3. QED
    BY <2>1, <2>2
<1>8. CASE Settle
  <2>1. /\ sub.pc = "settle" /\ sub.acceptance.target \in Nat /\ UNCHANGED <<others, forgiven, jobs>>
        /\ AdjustTaskBilling(sub.acceptance.target)
    BY <1>8 DEF Settle, ChargeInv, TypeOK, Submission, Acceptance
  <2>2. CASE row.state = "refunded"
    BY <2>1, <2>2, SameRowCost DEF AdjustTaskBilling
  <2>3. CASE row.state # "refunded"
    <3>1. row.state = "accepted" \/ (row.state = "completed" /\ row.status # "failure")
      BY <2>1, <2>3 DEF ResultInv, StatusInv, SubmitterInv
    <3>2. row.source \in Sources
      BY <1>0, <3>1 DEF FlowInv, SourceInv, Row
    <3>3. SameFlow
      BY <2>1, AdjustFlow DEF ChargeInv, FlowInv, SourceInv
    <3>4. QED
      BY <2>1, <3>1, <3>2, <3>3, SettleCost
  <2>4. QED
    BY <2>2, <2>3
<1>9. CASE Refund
  <2>1. Reserved
    BY <1>9 DEF Refund, FlowInv, TakenInv
  <2>2. QED
    BY <1>9, <2>1, ReturnCost DEF Refund
<1>10. CASE Fail
  <2>1. CASE MayFail
    BY <1>10, <2>1, FailedCost DEF Fail
  <2>2. CASE ~MayFail
    BY <1>10, <2>2, SameRowCost DEF Fail
  <2>3. QED
    BY <2>1, <2>2
<1>11. CASE \/ ReserveFails \/ ReserveAgain \/ ClaimFails \/ Rejected \/ ResetFails \/ MarkUnknownFails
            \/ PersistFails \/ StoreReceipt \/ ReceiptFails \/ PersistAgainFails \/ SettleFails \/ Retry
            \/ Stop \/ RefundFails \/ Crash
  <2>1. UNCHANGED <<row, jobs, funds, others, forgiven>>
    BY <1>11 DEF ReserveFails, ReserveAgain, ClaimFails, Rejected, ResetFails, MarkUnknownFails,
       PersistFails, StoreReceipt, ReceiptFails, PersistAgainFails, SettleFails, Retry, Stop, RefundFails, Crash
  <2>2. QED
    BY <2>1, SameRowCost
<1>12. QED
  BY <1>1, <1>2, <1>3, <1>4, <1>5, <1>6, <1>7, <1>8, <1>9, <1>10, <1>11 DEF Submit

(* Every step of the recovery is a step of the charge or none.             *)
LEMMA RecoverCost ==
    ASSUME ChargeInv, ResultInv, FlowInv, ChargeInv', FlowInv', Recover \/ RecFails
    PROVE  [Cost!CNext]_(Cost!cvars)
<1>0. row \in Row /\ rec.task \in Row
  BY DEF ChargeInv, TypeOK, Handling
<1>1. CASE LoadReceipt
  <2>1. CASE row.upstream
    BY <1>1, <2>1, SameRowCost DEF LoadReceipt, RecoveredRow
  <2>2. CASE ~row.upstream
    <3>1. jobs > 0 /\ row' = AcceptedRow(event.receipt) /\ UNCHANGED <<jobs, funds, others, forgiven>>
      BY <1>1, <2>2 DEF LoadReceipt, RecoveredRow, FlowInv, TakenInv
    <3>2. row.state \in {"dispatching", "ambiguous", "completed"} /\ row.status \notin Final
      BY <1>1, <2>2 DEF LoadReceipt, MayRecover
    <3>3. QED
      BY <3>1, <3>2, AcceptedCost
  <2>3. QED
    BY <2>1, <2>2
<1>2. CASE RecAdjust
  <2>1. rec.pc = "adjust" /\ AdjustTaskBilling(rec.task.target) /\ UNCHANGED <<others, forgiven, jobs>>
    BY <1>2 DEF RecAdjust
  <2>2. rec.task.target \in Nat
    BY <1>0, <2>1 DEF ChargeInv, ReservedInv, Row
  <2>3. CASE row.state = "refunded"
    BY <2>1, <2>3, SameRowCost DEF AdjustTaskBilling
  <2>4. CASE row.state # "refunded"
    <3>1. row.state \in {"ambiguous", "accepted"} \/ (row.state = "completed" /\ row.status # "failure")
      BY <2>1, <2>4 DEF ResultInv, StatusInv, HandlerInv
    <3>2. row.source \in Sources
      BY <1>0, <3>1 DEF FlowInv, SourceInv, Row
    <3>3. SameFlow
      BY <2>1, <2>2, AdjustFlow DEF ChargeInv, FlowInv, SourceInv
    <3>4. PICK target \in Nat : target = rec.task.target /\ AdjustTaskBilling(target)
      BY <2>1, <2>2
    <3>5. QED
      BY <2>1, <3>1, <3>2, <3>3, <3>4, SettleCost
  <2>5. QED
    BY <2>3, <2>4
<1>3. CASE RecFailPending \/ RecFail
  <2>1. CASE MayFail
    BY <1>3, <2>1, FailedCost DEF RecFailPending, RecFail
  <2>2. CASE ~MayFail
    BY <1>3, <2>2, SameRowCost DEF RecFailPending, RecFail
  <2>3. QED
    BY <2>1, <2>2
<1>4. CASE RecRefund
  <2>1. Reserved
    BY <1>4 DEF RecRefund, Decides, FlowInv, TakenInv
  <2>2. CASE MayRefund /\ RefundTaskBilling
    BY <1>4, <2>1, <2>2, ReturnCost DEF RecRefund
  <2>3. CASE UNCHANGED <<row, funds>>
    BY <1>4, <2>3, SameRowCost DEF RecRefund
  <2>4. QED
    BY <1>4, <2>2, <2>3 DEF RecRefund
<1>5. CASE RecMarkAmbiguous
  <2>1. CASE MayMarkAmbiguous
    BY <1>5, <2>1, AmbiguousCost DEF RecMarkAmbiguous
  <2>2. CASE ~MayMarkAmbiguous
    BY <1>5, <2>2, SameRowCost DEF RecMarkAmbiguous
  <2>3. QED
    BY <2>1, <2>2
<1>6. CASE RecComplete
  <2>1. /\ row.state \in {"ambiguous", "pending", "accepted", "completed"} /\ row' = CompletedRow
        /\ UNCHANGED <<jobs, funds, others, forgiven>>
    BY <1>0, <1>6 DEF RecComplete, Decides, ResultInv, StatusInv, HandlerInv, Row
  <2>2. row'.state = "completed" /\ row'.status = row.status /\ SameAmounts
    BY <1>0, <2>1 DEF CompletedRow, Row, SameAmounts
  <2>3. Phase' = Phase /\ Result' = Result
    BY <2>1, <2>2 DEF Phase, Result, SameAmounts
  <2>4. QED
    BY <2>1, <2>2, <2>3, QuietCost, SameMoney
<1>7. CASE Load \/ ReceiptConflicts \/ RecAdjustFails \/ RecDefer \/ RecFinish \/ RecFails
  <2>1. UNCHANGED <<row, jobs, funds, others, forgiven>>
    BY <1>7 DEF Load, ReceiptConflicts, RecAdjustFails, RecDefer, RecFinish, RecFails
  <2>2. QED
    BY <2>1, SameRowCost
<1>8. QED
  BY <1>1, <1>2, <1>3, <1>4, <1>5, <1>6, <1>7 DEF Recover

(* Every step of a poller is a step of the charge or none.                 *)
LEMMA PollCost ==
    ASSUME ChargeInv, ResultInv, FlowInv, ChargeInv', FlowInv', NEW p \in Pollers, Poll(p)
    PROVE  [Cost!CNext]_(Cost!cvars)
<1>0. row \in Row /\ poll[p].result \in Final
  BY DEF ChargeInv, TypeOK, Polling
<1>1. CASE Update(p)
  <2>1. CASE row.status = "running" /\ row' = [row EXCEPT !.status = poll[p].result]
    <3>1. row.state = "accepted" /\ row.status \notin Final /\ row.upstream
      BY <1>0, <2>1 DEF Row, ResultInv, StatusInv, Final
    <3>2. row'.state = row.state /\ row'.status \in Final /\ SameAmounts
      BY <1>0, <2>1 DEF Row, SameAmounts
    <3>3. row.source # "none" /\ jobs > 0
      BY <3>1 DEF FlowInv, SourceInv, TakenInv, Sources
    <3>4. Phase = "sent" /\ Phase' = Phase /\ UNCHANGED <<jobs, funds, others, forgiven>>
      BY <1>1, <3>1, <3>2, <3>3 DEF Update, Phase, SameAmounts
    <3>5. QED
      BY <3>1, <3>2, <3>3, <3>4, ConcludeCost
  <2>2. CASE UNCHANGED row
    BY <1>1, <2>2, SameRowCost DEF Update
  <2>3. QED
    BY <1>1, <2>1, <2>2 DEF Update
<1>2. CASE PollRefund(p)
  <2>1. Reserved
    BY <1>2 DEF PollRefund, ChargeInv, ReservedInv
  <2>2. QED
    BY <1>2, <2>1, ReturnCost DEF PollRefund
<1>3. CASE \E actual \in Actuals : PollSettle(p, actual)
  <2>1. PICK actual \in Actuals : PollSettle(p, actual)
    BY <1>3
  <2>2. SameFlow /\ UNCHANGED <<others, forgiven, jobs>> /\ AdjustTaskBilling(actual) /\ actual \in Nat
    BY <2>1, AdjustFlow DEF PollSettle, ChargeInv, FlowInv, SourceInv
  <2>3. row.status = "success"
    BY <2>1 DEF PollSettle, ResultInv, PollerInv
  <2>4. row.state \in {"accepted", "completed"}
    BY <1>0, <2>3 DEF Row, ResultInv, StatusInv
  <2>5. row.source \in Sources
    BY <1>0, <2>3, <2>4 DEF FlowInv, SourceInv, Row
  <2>6. QED
    BY <2>2, <2>4, <2>5, SettleCost
<1>4. CASE PollStops(p) \/ \E result \in Final, bills \in BOOLEAN : Fetch(p, result, bills)
  BY <1>4, SameRowCost DEF PollStops, Fetch
<1>5. QED
  BY <1>1, <1>2, <1>3, <1>4 DEF Poll

(* What other requests spend is no step of the charge, ...                 *)
LEMMA SpendCost ==
    ASSUME ChargeInv, NEW a \in Accounts, Spend(a)
    PROVE  UNCHANGED Cost!cvars
<1>1. /\ funds \in [Accounts -> Int] /\ others \in [Accounts -> Nat]
      /\ funds' = [funds EXCEPT ![a] = @ - 1] /\ others' = [others EXCEPT ![a] = @ + 1]
      /\ UNCHANGED <<row, forgiven, jobs>>
  BY DEF ChargeInv, TypeOK, Spend
<1>2. \A b \in Accounts : funds'[b] + others'[b] = funds[b] + others[b]
  BY <1>1
<1>3. Money' = Money
  BY <1>2 DEF Money
<1>4. SameAmounts /\ Phase' = Phase /\ Result' = Result
  BY <1>1 DEF SameAmounts, Phase, Result
<1>5. QED
  BY <1>1, <1>3, <1>4, QuietCost

(* ... and the end of a period renews the subscription's account.          *)
LEMMA NewPeriodCost ==
    ASSUME ChargeInv, NewPeriod
    PROVE  Cost!Renew
<1>1. /\ funds \in [Accounts -> Int] /\ others \in [Accounts -> Nat] /\ forgiven \in Nat
      /\ "subscription" \in Accounts /\ UNCHANGED <<row, others, jobs>>
      /\ funds' = [funds EXCEPT !["subscription"] = Total] /\ funds["subscription"] < Total
      /\ forgiven' = forgiven + (Total - funds["subscription"])
  BY DEF ChargeInv, TypeOK, Accounts, Sources, NewPeriod, PeriodEnds, Renewed, Forgive
<1>2. (forgiven' > 0) = TRUE
  BY <1>1
<1>3. /\ Money' \in [Accounts -> Int] /\ Money \in [Accounts -> Int]
      /\ \A a \in Accounts : Money'[a] = funds'[a] + others[a] /\ Money[a] = funds[a] + others[a]
  BY SMTT(60), <1>1 DEF Money
<1>4. Money'["subscription"] > Money["subscription"]
  BY <1>1, <1>3
<1>5. Money' = [Money EXCEPT !["subscription"] = Money'["subscription"]]
  BY <1>1, <1>3
<1>6. Charges' = Charges /\ Phase' = Phase /\ Result' = Result
  BY <1>1 DEF Charges, ChargedTo, Phase, Result
<1>7. QED
  BY <1>1, <1>2, <1>4, <1>5, <1>6 DEF Cost!Renew, Cost!Renews

(* When the recovery comes after the reservation, the billing of a task by *)
(* its submitter, its recovery and its pollers implements TaskCharge.      *)
THEOREM ChargeFollowsTaskTheorem ==
    ASSUME SlowReserve = FALSE
    PROVE  Spec => ChargeFollowsTask
<1>1. Init => Cost!CInit
  <2> SUFFICES ASSUME Init PROVE Cost!CInit
    OBVIOUS
  <2>1. DOMAIN Balance = Accounts /\ Balance = [a \in Accounts |-> Balance[a]]
    OBVIOUS
  <2>2. Charges = [a \in Accounts |-> 0]
    BY DEF Init, NoRow, Charges, ChargedTo
  <2>3. Money = Balance
    <3>1. \A a \in Accounts : funds[a] + others[a] = Balance[a]
      BY DEF Init
    <3>2. QED
      BY <2>1, <3>1 DEF Money
  <2>4. Phase = "none" /\ Result = "none" /\ row.source = "none" /\ jobs = 0 /\ (forgiven > 0) = FALSE
    BY DEF Init, NoRow, Phase, Result, Final
  <2>5. QED
    BY <2>1, <2>2, <2>3, <2>4 DEF Cost!CInit
<1>2. TaskInv /\ TaskInv' /\ [Next]_vars => [Cost!CNext]_(Cost!cvars)
  <2> SUFFICES ASSUME TaskInv, TaskInv', [Next]_vars PROVE [Cost!CNext]_(Cost!cvars)
    OBVIOUS
  <2>1. ChargeInv /\ ResultInv /\ FlowInv /\ ChargeInv' /\ FlowInv'
    BY DEF TaskInv
  <2>2. CASE Submit
    BY <2>1, <2>2, SubmitCost
  <2>3. CASE Recover \/ RecFails
    BY <2>1, <2>3, RecoverCost
  <2>4. CASE \E p \in Pollers : Poll(p)
    BY <2>1, <2>4, PollCost
  <2>5. CASE \E a \in Accounts : Spend(a)
    BY <2>1, <2>5, SpendCost
  <2>6. CASE NewPeriod
    BY <2>1, <2>6, NewPeriodCost DEF Cost!CNext
  <2>7. CASE UNCHANGED vars
    BY <2>7, SameRowCost DEF vars
  <2>8. QED
    BY <2>2, <2>3, <2>4, <2>5, <2>6, <2>7 DEF Next
<1>3. QED
  BY <1>1, <1>2, TaskInvariant, PTL DEF Spec, ChargeFollowsTask, Cost!CSpec
=============================================================================
