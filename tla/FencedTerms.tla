------------------------------ MODULE FencedTerms ------------------------------
(***************************************************************************)
(* What the leader lease promises to the fenced writes of global jobs,     *)
(* whatever clocks, crashes and lost answers do: terms are numbered as     *)
(* they begin, each belongs to one process, and only the process of the    *)
(* latest term writes, while it serves it.                                 *)
(***************************************************************************)
EXTENDS Integers

CONSTANTS Nodes, NoOwner

VARIABLES
    latest,     \* the number of the latest term
    owner,      \* the process it belongs to, until it resigns
    serving,    \* the term each process serves, 0 for none
    written     \* the term of the last write

tvars == <<latest, owner, serving, written>>

TInit ==
    /\ latest = 0 /\ owner = NoOwner
    /\ serving = [n \in Nodes |-> 0] /\ written = 0

(* A process that serves no term is given a new one, and may not notice.   *)
Elect(n) ==
    /\ serving[n] = 0
    /\ latest' = latest + 1 /\ owner' = n
    /\ serving' \in {serving, [serving EXCEPT ![n] = latest']}
    /\ UNCHANGED written

Write(n) ==
    /\ owner = n /\ serving[n] = latest
    /\ written' = latest
    /\ UNCHANGED <<latest, owner, serving>>

(* A term ends for its process; its owner may give it up.                  *)
Retire(n) ==
    /\ serving[n] > 0 /\ serving' = [serving EXCEPT ![n] = 0]
    /\ owner' \in {owner, IF owner = n THEN NoOwner ELSE owner}
    /\ UNCHANGED <<latest, written>>

TNext == \E n \in Nodes : Elect(n) \/ Write(n) \/ Retire(n)

TSpec == TInit /\ [][TNext]_tvars
=============================================================================
