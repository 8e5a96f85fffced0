------------------------------- MODULE MCOutbox -------------------------------
(* Instances of Outbox for model checking.                                 *)
EXTENDS Outbox, TLC

CONSTANTS w1, w2, a, k1, k2

TwoEvents == {1, 2}
TwoWorkers == {w1, w2}
Symmetric == Permutations(TwoWorkers)

(* Both events belong to one aggregate.                                    *)
OneAggregate == [e \in TwoEvents |-> a]

Both == [w \in TwoWorkers |-> TwoEvents]

(* The second worker is a lane without the topic of event 1.               *)
Lanes == [w \in TwoWorkers |-> IF w = w1 THEN TwoEvents ELSE {2}]
=============================================================================
