---------------------------- MODULE OrderedDelivery ----------------------------
(***************************************************************************)
(* What the outbox promises to the producers and the handlers of events,   *)
(* whatever workers, clocks and database errors do: an event is handled in *)
(* numbered attempts, one open at a time, after the events before it have  *)
(* settled; only the success of the open attempt delivers it, and once an  *)
(* attempt has succeeded that is all that can become of it, unless a later *)
(* attempt overtakes it.                                                   *)
(***************************************************************************)
EXTENDS Integers

CONSTANTS
    Events,
    Before      \* Before[e]: the events to be handled before e

VARIABLES
    status,     \* absent, pending, delivered or dead
    attempt,    \* the number of the open attempt, 0 for none
    succeeded,  \* the attempts whose handling succeeded
    overtaken,  \* the attempts that a later one was opened over
    last,       \* the number of the latest attempt
    revived     \* an operator has brought the dead event back

dvars == <<status, attempt, succeeded, overtaken, last, revived>>

DInit ==
    /\ status = [e \in Events |-> "absent"] /\ attempt = [e \in Events |-> 0]
    /\ succeeded = [e \in Events |-> {}] /\ overtaken = [e \in Events |-> {}]
    /\ last = 0 /\ revived = [e \in Events |-> FALSE]

Put(e) ==
    /\ status[e] = "absent" /\ \A p \in Before[e] : status[p] # "absent"
    /\ status' = [status EXCEPT ![e] = "pending"]
    /\ UNCHANGED <<attempt, succeeded, overtaken, last, revived>>

(* The events before e have settled, unless an operator brought one back.  *)
Due(e) == \A p \in Before[e] : status[p] \in {"delivered", "dead"} \/ revived[p]

(* A new attempt, which overtakes the one that is open.                    *)
Open(e) ==
    /\ status[e] = "pending" /\ Due(e)
    /\ last' = last + 1 /\ attempt' = [attempt EXCEPT ![e] = last']
    /\ overtaken' = [overtaken EXCEPT ![e] = @ \cup ({attempt[e]} \ {0})]
    /\ UNCHANGED <<status, succeeded, revived>>

(* The open attempt, or one that does not know it was overtaken, succeeds. *)
Succeed(e) ==
    /\ Due(e)
    /\ \E n \in ({attempt[e]} \cup overtaken[e]) \ ({0} \cup succeeded[e]) :
          succeeded' = [succeeded EXCEPT ![e] = @ \cup {n}]
    /\ UNCHANGED <<status, attempt, overtaken, last, revived>>

(* The open attempt succeeded: nothing opens another.                      *)
Deliver(e) ==
    /\ status[e] = "pending" /\ attempt[e] \in succeeded[e]
    /\ status' = [status EXCEPT ![e] = "delivered"] /\ attempt' = [attempt EXCEPT ![e] = 0]
    /\ UNCHANGED <<succeeded, overtaken, last, revived>>

(* The open attempt did not succeed: the event is retried or given up.     *)
Close(e) ==
    /\ status[e] = "pending" /\ attempt[e] # 0 /\ attempt[e] \notin succeeded[e]
    /\ attempt' = [attempt EXCEPT ![e] = 0]
    /\ status' \in {status, [status EXCEPT ![e] = "dead"]}
    /\ UNCHANGED <<succeeded, overtaken, last, revived>>

Revive(e) ==
    /\ status[e] = "dead"
    /\ status' = [status EXCEPT ![e] = "pending"] /\ revived' = [revived EXCEPT ![e] = TRUE]
    /\ UNCHANGED <<attempt, succeeded, overtaken, last>>

DNext ==
    \E e \in Events : Put(e) \/ Open(e) \/ Succeed(e) \/ Deliver(e) \/ Close(e) \/ Revive(e)

DSpec == DInit /\ [][DNext]_dvars
=============================================================================
