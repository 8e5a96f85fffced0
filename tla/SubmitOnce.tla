----------------------------- MODULE SubmitOnce -----------------------------
(***************************************************************************)
(* What the video studio promises about paid submissions, whatever tabs,   *)
(* sign-ins, reloads and storage failures do: a request that may still be  *)
(* charged holds its place, and while it does nobody sends an equal one.   *)
(*                                                                         *)
(* A key is a request as its user would recognise it (the user and the     *)
(* content); an operation is one attempt to submit it.                     *)
(***************************************************************************)
CONSTANTS Ops, Keys

VARIABLES
  key,     \* the request each operation is for
  held,    \* the operations that hold their request's place
  verdict  \* what the server made of each operation

svars == <<key, held, verdict>>

Verdicts == {"none", "undecided", "accepted", "refused"}

SInit ==
  /\ key \in [Ops -> Keys]
  /\ held = {}
  /\ verdict = [o \in Ops |-> "none"]

\* An operation is for whatever request it is given until it takes a place.
Address(o) ==
  /\ o \notin held
  /\ verdict[o] = "none"
  /\ \E k \in Keys : key' = [key EXCEPT ![o] = k]
  /\ UNCHANGED <<held, verdict>>

\* The place of a request is taken by one operation at a time.
Claim(o) ==
  /\ o \notin held
  /\ verdict[o] = "none"
  /\ \A p \in held : key[p] # key[o]
  /\ held' = held \cup {o}
  /\ UNCHANGED <<key, verdict>>

\* Only the operation that holds the place is sent, and it is sent once.
Send(o) ==
  /\ o \in held
  /\ verdict[o] = "none"
  /\ verdict' = [verdict EXCEPT ![o] = "undecided"]
  /\ UNCHANGED <<key, held>>

\* The server decides in its own time.
Decide(o) ==
  /\ verdict[o] = "undecided"
  /\ \E v \in {"accepted", "refused"} :
       verdict' = [verdict EXCEPT ![o] = v]
  /\ UNCHANGED <<key, held>>

\* Places are given back for operations that were never sent, or decided.
Release ==
  /\ held' \subseteq held
  /\ \A o \in held \ held' : verdict[o] # "undecided"
  /\ UNCHANGED <<key, verdict>>

SNext ==
  \/ \E o \in Ops : Address(o) \/ Claim(o) \/ Send(o) \/ Decide(o)
  \/ Release

SSpec == SInit /\ [][SNext]_svars

\* Of two equal requests at most one can still turn into a charge.
AtMostOneUndecided ==
  \A o, p \in Ops :
    (o # p /\ key[o] = key[p]) =>
      ~(verdict[o] = "undecided" /\ verdict[p] = "undecided")
=============================================================================
