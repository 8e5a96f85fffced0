----------------------------- MODULE MCTaskBilling -----------------------------
(* Instances of TaskBilling for model checking.                            *)
EXTENDS TaskBilling

(* The subscription is tried first and may be exhausted.                   *)
SubscriptionFirst == <<"subscription", "wallet">>

SmallBalance == [a \in Accounts |-> IF a = "wallet" THEN 2 ELSE 1]

(* The bound on exploration: a second fault only where neither another     *)
(* request nor the end of a period has touched the accounts.               *)
SecondFaultAlone == faults < 2 \/ (others = [a \in Accounts |-> 0] /\ forgiven = 0)
=============================================================================
