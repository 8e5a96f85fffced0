------------------------- MODULE MCVideoSubmission -------------------------
(* A small instance of VideoSubmission for TLC.                            *)
EXTENDS VideoSubmission, TLC

CONSTANTS t1, t2, u1, u2, c1

TwoTabs == {t1, t2}
TwoUsers == {u1, u2}
OneContent == {c1}
TwoOps == {1, 2}

\* In the first tab users sign in, out and in again; in the second, signed in
\* once per load, the composer is remounted once.
LeaveAndReturn == (t1 :> 3) @@ (t2 :> 1)
OneRemount == (t1 :> 0) @@ (t2 :> 1)

\* The bound on exploration: two users with one attempt, or one user with two,
\* who then does not sign out and in again without a reload.
TwoUsersOrTwoAttempts ==
  \/ sub[2].pc = "new"
  \/ /\ \A t \in Tabs, o \in Ops : user[t] # u2 /\ sub[o].user # u2
     /\ \A t \in Tabs : epoch[t] < 3
=============================================================================
