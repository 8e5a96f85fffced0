------------------------------ MODULE TaskCharge ------------------------------
(***************************************************************************)
(* What an asynchronous task may cost its user, whatever requests, retries,*)
(* recoveries and pollers do: an amount is held from one source and        *)
(* counted on the token, it is settled only after the task was sent, and   *)
(* it is returned at most once, only for a task that was not sent or has   *)
(* failed.  The upstream takes the task on at most once, and a result      *)
(* stands.  A subscription's account is exact until one of its periods     *)
(* ends; after that a return may find less used than it gives back.        *)
(***************************************************************************)
EXTENDS Integers

CONSTANTS
    Sources,    \* the accounts a task may be paid from
    Periodic,   \* those whose usage is forgotten at the end of a period
    Balance     \* what each account, the token's too, holds before the task

VARIABLES
    phase,      \* where the charge is: none, held, sent with the task, returned
    source,     \* the source it came from
    charge,     \* what the task costs each account
    money,      \* what each account holds, other requests left aside
    renewed,    \* a period has ended
    result,     \* what became of the task
    taken       \* how often the upstream took it on

cvars == <<phase, source, charge, money, renewed, result, taken>>

Results == {"success", "failure"}

CInit ==
    /\ phase = "none" /\ source = "none"
    /\ charge = [a \in DOMAIN Balance |-> 0] /\ money = Balance /\ renewed = FALSE
    /\ result = "none" /\ taken = 0

(* The charge becomes another amount of source s, counted on the token as  *)
(* it is or not at all.                                                    *)
Recharge(s) ==
    /\ charge' \in [DOMAIN Balance -> Nat]
    /\ \A t \in Sources \ {s} : charge'[t] = 0
    /\ charge'["token"] \in {0, charge'[s]}

(* The accounts move by the difference; the usage of a period that began   *)
(* after the charge may be less than what is returned to it.               *)
Charge(s) ==
    /\ Recharge(s)
    /\ DOMAIN money' = DOMAIN Balance
    /\ \A a \in DOMAIN Balance :
          LET exact == money[a] + charge[a] - charge'[a] IN
          \/ money'[a] = exact
          \/ a \in Periodic /\ renewed /\ money[a] <= money'[a] /\ money'[a] <= exact
    /\ UNCHANGED renewed

(* The end of a period leaves the amounts m.                               *)
Renews(m) ==
    /\ renewed' = TRUE
    /\ \E a \in Periodic : m[a] > money[a] /\ m = [money EXCEPT ![a] = m[a]]

Renew ==
    /\ Renews(money')
    /\ UNCHANGED <<phase, source, charge, result, taken>>

(* The amount is taken from the accounts as they are, or after the end of  *)
(* a period.                                                               *)
Hold ==
    /\ phase = "none" /\ result = "none"
    /\ phase' = "held" /\ source' \in Sources /\ Recharge(source')
    /\ DOMAIN money' = DOMAIN Balance
    /\ LET before == [a \in DOMAIN Balance |-> money'[a] + charge'[a] - charge[a]]
       IN  (before = money /\ UNCHANGED renewed) \/ Renews(before)
    /\ UNCHANGED <<result, taken>>

Send ==
    /\ phase = "held" /\ result = "none" /\ phase' = "sent"
    /\ UNCHANGED <<source, charge, money, renewed, result, taken>>

(* The task was not taken on, and may be sent again.                       *)
Unsend ==
    /\ phase = "sent" /\ taken = 0 /\ result = "none" /\ phase' = "held"
    /\ UNCHANGED <<source, charge, money, renewed, result, taken>>

Take ==
    /\ phase = "sent" /\ taken = 0 /\ result = "none" /\ taken' = 1
    /\ UNCHANGED <<phase, source, charge, money, renewed, result>>

(* Only a task that was taken on succeeds.                                 *)
Conclude ==
    /\ result = "none" /\ result' \in Results
    /\ result' = "success" => phase = "sent" /\ taken = 1
    /\ UNCHANGED <<phase, source, charge, money, renewed, taken>>

Settle ==
    /\ phase = "sent" /\ Charge(source)
    /\ UNCHANGED <<phase, source, result, taken>>

Return ==
    /\ phase = "held" \/ (phase = "sent" /\ result = "failure")
    /\ phase' = "returned" /\ Charge(source) /\ charge' = [a \in DOMAIN Balance |-> 0]
    /\ UNCHANGED <<source, result, taken>>

CNext == Renew \/ Hold \/ Send \/ Unsend \/ Take \/ Conclude \/ Settle \/ Return

CSpec == CInit /\ [][CNext]_cvars
=============================================================================
