--------------------------- MODULE LeaderLeaseProofs ---------------------------
(***************************************************************************)
(* Proofs about LeaderLease for any number of processes and jobs, any      *)
(* expiry and any bound on terms, faults and crashes.                      *)
(***************************************************************************)
EXTENDS LeaderLease, TLAPS

-----------------------------------------------------------------------------
(* The initial state satisfies the invariant.                              *)
LEMMA InitInv == Init => LeaseInv
BY LeaseAssumption
   DEF Init, LeaseInv, TypeOK, Lease, Node, JobLoop, InTerm, Active, FenceNamesOneTerm,
       OwnedUntilCommit, CapturedOwnTerm, TermShape

(* A step of the leadership loop of a process preserves the invariant.     *)
LEMMA LeadInv ==
    ASSUME LeaseInv, NEW n \in Nodes, Lead(n)
    PROVE  LeaseInv'
<1> USE DEF LeaseInv
<1>1. CASE Start(n)
  <2>1. TypeOK'
    BY <1>1, LeaseAssumption DEF TypeOK, Lease, Node, JobLoop, InTerm, Active, Start
  <2>2. FenceNamesOneTerm'
    BY <1>1, <2>1, LeaseAssumption
       DEF TypeOK, Lease, Node, JobLoop, InTerm, Active, FenceNamesOneTerm, OwnedUntilCommit,
           CapturedOwnTerm, TermShape, Start
  <2>3. OwnedUntilCommit'
    BY <1>1, <2>1, LeaseAssumption
       DEF TypeOK, Lease, Node, JobLoop, InTerm, Active, FenceNamesOneTerm, OwnedUntilCommit,
           CapturedOwnTerm, TermShape, Start
  <2>4. CapturedOwnTerm'
    BY <1>1, <2>1, LeaseAssumption
       DEF TypeOK, Lease, Node, JobLoop, InTerm, Active, FenceNamesOneTerm, OwnedUntilCommit,
           CapturedOwnTerm, TermShape, Start
  <2>5. TermShape'
    BY <1>1, <2>1, LeaseAssumption
       DEF TypeOK, Lease, Node, JobLoop, InTerm, Active, FenceNamesOneTerm, OwnedUntilCommit,
           CapturedOwnTerm, TermShape, Start
  <2>6. (written <= lease.fence /\ (lease.holder # NoHolder => lease.fence > 0))'
    BY <1>1, <2>1, LeaseAssumption
       DEF TypeOK, Lease, Node, JobLoop, InTerm, Active, FenceNamesOneTerm, OwnedUntilCommit,
           CapturedOwnTerm, TermShape, Start
  <2> QED
    BY <2>1, <2>2, <2>3, <2>4, <2>5, <2>6 DEF LeaseInv
<1>2. CASE Stop(n)
  <2>1. TypeOK'
    BY ZenonT(40), <1>2, LeaseAssumption DEF TypeOK, Lease, Node, JobLoop, InTerm, Active, Stop, Ended
  <2>2. FenceNamesOneTerm'
    BY <1>2, <2>1, LeaseAssumption
       DEF TypeOK, Lease, Node, JobLoop, InTerm, Active, FenceNamesOneTerm, OwnedUntilCommit,
           CapturedOwnTerm, TermShape, Stop, Ended
  <2>3. OwnedUntilCommit'
    BY <1>2, <2>1, LeaseAssumption
       DEF TypeOK, Lease, Node, JobLoop, InTerm, Active, FenceNamesOneTerm, OwnedUntilCommit,
           CapturedOwnTerm, TermShape, Stop, Ended
  <2>4. CapturedOwnTerm'
    BY <1>2, <2>1, LeaseAssumption
       DEF TypeOK, Lease, Node, JobLoop, InTerm, Active, FenceNamesOneTerm, OwnedUntilCommit,
           CapturedOwnTerm, TermShape, Stop, Ended
  <2>5. TermShape'
    BY <1>2, <2>1, LeaseAssumption
       DEF TypeOK, Lease, Node, JobLoop, InTerm, Active, FenceNamesOneTerm, OwnedUntilCommit,
           CapturedOwnTerm, TermShape, Stop, Ended
  <2>6. (written <= lease.fence /\ (lease.holder # NoHolder => lease.fence > 0))'
    BY <1>2, <2>1, LeaseAssumption
       DEF TypeOK, Lease, Node, JobLoop, InTerm, Active, FenceNamesOneTerm, OwnedUntilCommit,
           CapturedOwnTerm, TermShape, Stop, Ended
  <2> QED
    BY <2>1, <2>2, <2>3, <2>4, <2>5, <2>6 DEF LeaseInv
<1>3. CASE TryAcquire(n)
  <2>1. TypeOK'
    <3>1. lease' \in Lease
      BY <1>3 DEF TypeOK, Lease, TryAcquire, MayAcquire, Acquired
    <3>2. node' \in [Nodes -> Node]
      <4>1. Acquired(n).fence \in Nat
        BY DEF TypeOK, Lease, Acquired
      <4> QED
        BY <1>3, <4>1 DEF TypeOK, Node, InTerm, TryAcquire
    <3>3. job' \in [Nodes \X Jobs -> JobLoop]
      BY <1>3 DEF TypeOK, JobLoop, Active, TryAcquire, MayAcquire, Acquired
    <3>4. written' \in Nat /\ faults' \in Nat /\ crashes' \in Nat
      BY <1>3 DEF TypeOK, TryAcquire, MayAcquire, Acquired
    <3> QED
      BY <3>1, <3>2, <3>3, <3>4 DEF TypeOK
  <2>2. FenceNamesOneTerm'
    BY <1>3, <2>1, LeaseAssumption
       DEF TypeOK, Lease, Node, JobLoop, InTerm, Active, FenceNamesOneTerm, OwnedUntilCommit,
           CapturedOwnTerm, TermShape, TryAcquire, MayAcquire, Acquired, Locked
  <2>3. OwnedUntilCommit'
    BY <1>3, <2>1, LeaseAssumption
       DEF TypeOK, Lease, Node, JobLoop, InTerm, Active, FenceNamesOneTerm, OwnedUntilCommit,
           CapturedOwnTerm, TermShape, TryAcquire, MayAcquire, Acquired, Locked
  <2>4. CapturedOwnTerm'
    BY <1>3, <2>1, LeaseAssumption
       DEF TypeOK, Lease, Node, JobLoop, InTerm, Active, FenceNamesOneTerm, OwnedUntilCommit,
           CapturedOwnTerm, TermShape, TryAcquire, MayAcquire, Acquired, Locked
  <2>5. TermShape'
    BY <1>3, <2>1, LeaseAssumption
       DEF TypeOK, Lease, Node, JobLoop, InTerm, Active, FenceNamesOneTerm, OwnedUntilCommit,
           CapturedOwnTerm, TermShape, TryAcquire, MayAcquire, Acquired, Locked
  <2>6. (written <= lease.fence /\ (lease.holder # NoHolder => lease.fence > 0))'
    BY <1>3, <2>1, LeaseAssumption
       DEF TypeOK, Lease, Node, JobLoop, InTerm, Active, FenceNamesOneTerm, OwnedUntilCommit,
           CapturedOwnTerm, TermShape, TryAcquire, MayAcquire, Acquired, Locked
  <2> QED
    BY <2>1, <2>2, <2>3, <2>4, <2>5, <2>6 DEF LeaseInv
<1>4. CASE AcquireLost(n)
  <2>1. TypeOK'
    BY <1>4, LeaseAssumption
       DEF TypeOK, Lease, Node, JobLoop, InTerm, Active, AcquireLost, MayAcquire, Acquired,
           Locked, DBFails
  <2>2. FenceNamesOneTerm'
    BY <1>4, <2>1, LeaseAssumption
       DEF TypeOK, Lease, Node, JobLoop, InTerm, Active, FenceNamesOneTerm, OwnedUntilCommit,
           CapturedOwnTerm, TermShape, AcquireLost, MayAcquire, Acquired, Locked, DBFails
  <2>3. OwnedUntilCommit'
    BY <1>4, <2>1, LeaseAssumption
       DEF TypeOK, Lease, Node, JobLoop, InTerm, Active, FenceNamesOneTerm, OwnedUntilCommit,
           CapturedOwnTerm, TermShape, AcquireLost, MayAcquire, Acquired, Locked, DBFails
  <2>4. CapturedOwnTerm'
    BY <1>4, <2>1, LeaseAssumption
       DEF TypeOK, Lease, Node, JobLoop, InTerm, Active, FenceNamesOneTerm, OwnedUntilCommit,
           CapturedOwnTerm, TermShape, AcquireLost, MayAcquire, Acquired, Locked, DBFails
  <2>5. TermShape'
    BY <1>4, <2>1, LeaseAssumption
       DEF TypeOK, Lease, Node, JobLoop, InTerm, Active, FenceNamesOneTerm, OwnedUntilCommit,
           CapturedOwnTerm, TermShape, AcquireLost, MayAcquire, Acquired, Locked, DBFails
  <2>6. (written <= lease.fence /\ (lease.holder # NoHolder => lease.fence > 0))'
    BY <1>4, <2>1, LeaseAssumption
       DEF TypeOK, Lease, Node, JobLoop, InTerm, Active, FenceNamesOneTerm, OwnedUntilCommit,
           CapturedOwnTerm, TermShape, AcquireLost, MayAcquire, Acquired, Locked, DBFails
  <2> QED
    BY <2>1, <2>2, <2>3, <2>4, <2>5, <2>6 DEF LeaseInv
<1>5. CASE Renew(n)
  <2>1. TypeOK'
    BY <1>5, LeaseAssumption
       DEF TypeOK, Lease, Node, JobLoop, InTerm, Active, Renew, MayRenew, Renewed, Locked
  <2>2. FenceNamesOneTerm'
    BY <1>5, <2>1, LeaseAssumption
       DEF TypeOK, Lease, Node, JobLoop, InTerm, Active, FenceNamesOneTerm, OwnedUntilCommit,
           CapturedOwnTerm, TermShape, Renew, MayRenew, Renewed, Locked
  <2>3. OwnedUntilCommit'
    BY <1>5, <2>1, LeaseAssumption
       DEF TypeOK, Lease, Node, JobLoop, InTerm, Active, FenceNamesOneTerm, OwnedUntilCommit,
           CapturedOwnTerm, TermShape, Renew, MayRenew, Renewed, Locked
  <2>4. CapturedOwnTerm'
    BY <1>5, <2>1, LeaseAssumption
       DEF TypeOK, Lease, Node, JobLoop, InTerm, Active, FenceNamesOneTerm, OwnedUntilCommit,
           CapturedOwnTerm, TermShape, Renew, MayRenew, Renewed, Locked
  <2>5. TermShape'
    BY <1>5, <2>1, LeaseAssumption
       DEF TypeOK, Lease, Node, JobLoop, InTerm, Active, FenceNamesOneTerm, OwnedUntilCommit,
           CapturedOwnTerm, TermShape, Renew, MayRenew, Renewed, Locked
  <2>6. (written <= lease.fence /\ (lease.holder # NoHolder => lease.fence > 0))'
    BY <1>5, <2>1, LeaseAssumption
       DEF TypeOK, Lease, Node, JobLoop, InTerm, Active, FenceNamesOneTerm, OwnedUntilCommit,
           CapturedOwnTerm, TermShape, Renew, MayRenew, Renewed, Locked
  <2> QED
    BY <2>1, <2>2, <2>3, <2>4, <2>5, <2>6 DEF LeaseInv
<1>6. CASE RenewRefused(n)
  <2>1. TypeOK'
    BY <1>6, LeaseAssumption DEF TypeOK, Lease, Node, JobLoop, InTerm, Active, RenewRefused
  <2>2. FenceNamesOneTerm'
    BY <1>6, <2>1, LeaseAssumption
       DEF TypeOK, Lease, Node, JobLoop, InTerm, Active, FenceNamesOneTerm, OwnedUntilCommit,
           CapturedOwnTerm, TermShape, RenewRefused
  <2>3. OwnedUntilCommit'
    BY <1>6, <2>1, LeaseAssumption
       DEF TypeOK, Lease, Node, JobLoop, InTerm, Active, FenceNamesOneTerm, OwnedUntilCommit,
           CapturedOwnTerm, TermShape, RenewRefused
  <2>4. CapturedOwnTerm'
    BY <1>6, <2>1, LeaseAssumption
       DEF TypeOK, Lease, Node, JobLoop, InTerm, Active, FenceNamesOneTerm, OwnedUntilCommit,
           CapturedOwnTerm, TermShape, RenewRefused
  <2>5. TermShape'
    BY <1>6, <2>1, LeaseAssumption
       DEF TypeOK, Lease, Node, JobLoop, InTerm, Active, FenceNamesOneTerm, OwnedUntilCommit,
           CapturedOwnTerm, TermShape, RenewRefused
  <2>6. (written <= lease.fence /\ (lease.holder # NoHolder => lease.fence > 0))'
    BY <1>6, <2>1, LeaseAssumption
       DEF TypeOK, Lease, Node, JobLoop, InTerm, Active, FenceNamesOneTerm, OwnedUntilCommit,
           CapturedOwnTerm, TermShape, RenewRefused
  <2> QED
    BY <2>1, <2>2, <2>3, <2>4, <2>5, <2>6 DEF LeaseInv
<1>7. CASE RenewError(n)
  <2>1. TypeOK'
    <3>1. lease' \in Lease
      BY <1>7 DEF TypeOK, Lease, RenewError, MayRenew, Renewed, DBFails
    <3>2. node' \in [Nodes -> Node]
      BY <1>7 DEF TypeOK, Node, InTerm, Lease, RenewError, MayRenew, Renewed, DBFails
    <3>3. job' \in [Nodes \X Jobs -> JobLoop]
      BY <1>7 DEF TypeOK, JobLoop, Active, RenewError, MayRenew, Renewed, DBFails
    <3>4. written' \in Nat /\ faults' \in Nat /\ crashes' \in Nat
      BY <1>7 DEF TypeOK, RenewError, MayRenew, Renewed, DBFails
    <3> QED
      BY <3>1, <3>2, <3>3, <3>4 DEF TypeOK
  <2>2. FenceNamesOneTerm'
    BY <1>7, <2>1, LeaseAssumption
       DEF TypeOK, Lease, Node, JobLoop, InTerm, Active, FenceNamesOneTerm, OwnedUntilCommit,
           CapturedOwnTerm, TermShape, RenewError, MayRenew, Renewed, Locked, DBFails
  <2>3. OwnedUntilCommit'
    BY <1>7, <2>1, LeaseAssumption
       DEF TypeOK, Lease, Node, JobLoop, InTerm, Active, FenceNamesOneTerm, OwnedUntilCommit,
           CapturedOwnTerm, TermShape, RenewError, MayRenew, Renewed, Locked, DBFails
  <2>4. CapturedOwnTerm'
    BY <1>7, <2>1, LeaseAssumption
       DEF TypeOK, Lease, Node, JobLoop, InTerm, Active, FenceNamesOneTerm, OwnedUntilCommit,
           CapturedOwnTerm, TermShape, RenewError, MayRenew, Renewed, Locked, DBFails
  <2>5. TermShape'
    BY <1>7, <2>1, LeaseAssumption
       DEF TypeOK, Lease, Node, JobLoop, InTerm, Active, FenceNamesOneTerm, OwnedUntilCommit,
           CapturedOwnTerm, TermShape, RenewError, MayRenew, Renewed, Locked, DBFails
  <2>6. (written <= lease.fence /\ (lease.holder # NoHolder => lease.fence > 0))'
    BY SMTT(30), <1>7, <2>1, LeaseAssumption
       DEF TypeOK, Lease, Node, JobLoop, InTerm, Active, FenceNamesOneTerm, OwnedUntilCommit,
           CapturedOwnTerm, TermShape, RenewError, MayRenew, Renewed, Locked, DBFails
  <2> QED
    BY <2>1, <2>2, <2>3, <2>4, <2>5, <2>6 DEF LeaseInv
<1>8. CASE EndLostTerm(n)
  <2>1. TypeOK'
    BY ZenonT(40), <1>8, LeaseAssumption
       DEF TypeOK, Lease, Node, JobLoop, InTerm, Active, EndLostTerm, JobsEnded
  <2>2. FenceNamesOneTerm'
    BY <1>8, <2>1, LeaseAssumption
       DEF TypeOK, Lease, Node, JobLoop, InTerm, Active, FenceNamesOneTerm, OwnedUntilCommit,
           CapturedOwnTerm, TermShape, EndLostTerm, JobsEnded
  <2>3. OwnedUntilCommit'
    BY <1>8, <2>1, LeaseAssumption
       DEF TypeOK, Lease, Node, JobLoop, InTerm, Active, FenceNamesOneTerm, OwnedUntilCommit,
           CapturedOwnTerm, TermShape, EndLostTerm, JobsEnded
  <2>4. CapturedOwnTerm'
    BY <1>8, <2>1, LeaseAssumption
       DEF TypeOK, Lease, Node, JobLoop, InTerm, Active, FenceNamesOneTerm, OwnedUntilCommit,
           CapturedOwnTerm, TermShape, EndLostTerm, JobsEnded
  <2>5. TermShape'
    BY <1>8, <2>1, LeaseAssumption
       DEF TypeOK, Lease, Node, JobLoop, InTerm, Active, FenceNamesOneTerm, OwnedUntilCommit,
           CapturedOwnTerm, TermShape, EndLostTerm, JobsEnded
  <2>6. (written <= lease.fence /\ (lease.holder # NoHolder => lease.fence > 0))'
    BY <1>8, <2>1, LeaseAssumption
       DEF TypeOK, Lease, Node, JobLoop, InTerm, Active, FenceNamesOneTerm, OwnedUntilCommit,
           CapturedOwnTerm, TermShape, EndLostTerm, JobsEnded
  <2> QED
    BY <2>1, <2>2, <2>3, <2>4, <2>5, <2>6 DEF LeaseInv
<1>9. CASE Drain(n)
  <2>1. TypeOK'
    BY <1>9, LeaseAssumption DEF TypeOK, Lease, Node, JobLoop, InTerm, Active, Drain
  <2>2. FenceNamesOneTerm'
    BY <1>9, <2>1, LeaseAssumption
       DEF TypeOK, Lease, Node, JobLoop, InTerm, Active, FenceNamesOneTerm, OwnedUntilCommit,
           CapturedOwnTerm, TermShape, Drain
  <2>3. OwnedUntilCommit'
    BY <1>9, <2>1, LeaseAssumption
       DEF TypeOK, Lease, Node, JobLoop, InTerm, Active, FenceNamesOneTerm, OwnedUntilCommit,
           CapturedOwnTerm, TermShape, Drain
  <2>4. CapturedOwnTerm'
    BY <1>9, <2>1, LeaseAssumption
       DEF TypeOK, Lease, Node, JobLoop, InTerm, Active, FenceNamesOneTerm, OwnedUntilCommit,
           CapturedOwnTerm, TermShape, Drain
  <2>5. TermShape'
    BY <1>9, <2>1, LeaseAssumption
       DEF TypeOK, Lease, Node, JobLoop, InTerm, Active, FenceNamesOneTerm, OwnedUntilCommit,
           CapturedOwnTerm, TermShape, Drain
  <2>6. (written <= lease.fence /\ (lease.holder # NoHolder => lease.fence > 0))'
    BY <1>9, <2>1, LeaseAssumption
       DEF TypeOK, Lease, Node, JobLoop, InTerm, Active, FenceNamesOneTerm, OwnedUntilCommit,
           CapturedOwnTerm, TermShape, Drain
  <2> QED
    BY <2>1, <2>2, <2>3, <2>4, <2>5, <2>6 DEF LeaseInv
<1>10. CASE ShutdownJobs(n)
  <2>1. TypeOK'
    BY <1>10, LeaseAssumption
       DEF TypeOK, Lease, Node, JobLoop, InTerm, Active, ShutdownJobs, JobsEnded
  <2>2. FenceNamesOneTerm'
    BY <1>10, <2>1, LeaseAssumption
       DEF TypeOK, Lease, Node, JobLoop, InTerm, Active, FenceNamesOneTerm, OwnedUntilCommit,
           CapturedOwnTerm, TermShape, ShutdownJobs, JobsEnded
  <2>3. OwnedUntilCommit'
    BY <1>10, <2>1, LeaseAssumption
       DEF TypeOK, Lease, Node, JobLoop, InTerm, Active, FenceNamesOneTerm, OwnedUntilCommit,
           CapturedOwnTerm, TermShape, ShutdownJobs, JobsEnded
  <2>4. CapturedOwnTerm'
    BY <1>10, <2>1, LeaseAssumption
       DEF TypeOK, Lease, Node, JobLoop, InTerm, Active, FenceNamesOneTerm, OwnedUntilCommit,
           CapturedOwnTerm, TermShape, ShutdownJobs, JobsEnded
  <2>5. TermShape'
    BY <1>10, <2>1, LeaseAssumption
       DEF TypeOK, Lease, Node, JobLoop, InTerm, Active, FenceNamesOneTerm, OwnedUntilCommit,
           CapturedOwnTerm, TermShape, ShutdownJobs, JobsEnded
  <2>6. (written <= lease.fence /\ (lease.holder # NoHolder => lease.fence > 0))'
    BY <1>10, <2>1, LeaseAssumption
       DEF TypeOK, Lease, Node, JobLoop, InTerm, Active, FenceNamesOneTerm, OwnedUntilCommit,
           CapturedOwnTerm, TermShape, ShutdownJobs, JobsEnded
  <2> QED
    BY <2>1, <2>2, <2>3, <2>4, <2>5, <2>6 DEF LeaseInv
<1>11. CASE ShutdownJobsEnd(n)
  <2>1. TypeOK'
    BY ZenonT(40), <1>11, LeaseAssumption DEF TypeOK, Lease, Node, JobLoop, InTerm, Active, ShutdownJobsEnd
  <2>2. FenceNamesOneTerm'
    BY <1>11, <2>1, LeaseAssumption
       DEF TypeOK, Lease, Node, JobLoop, InTerm, Active, FenceNamesOneTerm, OwnedUntilCommit,
           CapturedOwnTerm, TermShape, ShutdownJobsEnd
  <2>3. OwnedUntilCommit'
    BY <1>11, <2>1, LeaseAssumption
       DEF TypeOK, Lease, Node, JobLoop, InTerm, Active, FenceNamesOneTerm, OwnedUntilCommit,
           CapturedOwnTerm, TermShape, ShutdownJobsEnd
  <2>4. CapturedOwnTerm'
    BY <1>11, <2>1, LeaseAssumption
       DEF TypeOK, Lease, Node, JobLoop, InTerm, Active, FenceNamesOneTerm, OwnedUntilCommit,
           CapturedOwnTerm, TermShape, ShutdownJobsEnd
  <2>5. TermShape'
    BY <1>11, <2>1, LeaseAssumption
       DEF TypeOK, Lease, Node, JobLoop, InTerm, Active, FenceNamesOneTerm, OwnedUntilCommit,
           CapturedOwnTerm, TermShape, ShutdownJobsEnd
  <2>6. (written <= lease.fence /\ (lease.holder # NoHolder => lease.fence > 0))'
    BY <1>11, <2>1, LeaseAssumption
       DEF TypeOK, Lease, Node, JobLoop, InTerm, Active, FenceNamesOneTerm, OwnedUntilCommit,
           CapturedOwnTerm, TermShape, ShutdownJobsEnd
  <2> QED
    BY <2>1, <2>2, <2>3, <2>4, <2>5, <2>6 DEF LeaseInv
<1>12. CASE Release(n)
  <2>1. TypeOK'
    <3>1. lease' \in Lease
      BY <1>12 DEF TypeOK, Lease, Release, Released
    <3>2. node' \in [Nodes -> Node]
      BY ZenonT(40), <1>12 DEF TypeOK, Node, InTerm, Lease, Release, Released
    <3>3. job' \in [Nodes \X Jobs -> JobLoop]
      BY <1>12 DEF TypeOK, JobLoop, Active, Release, Released
    <3>4. written' \in Nat /\ faults' \in Nat /\ crashes' \in Nat
      BY <1>12 DEF TypeOK, Release, Released
    <3> QED
      BY <3>1, <3>2, <3>3, <3>4 DEF TypeOK
  <2>2. FenceNamesOneTerm'
    BY <1>12, <2>1, LeaseAssumption
       DEF TypeOK, Lease, Node, JobLoop, InTerm, Active, FenceNamesOneTerm, OwnedUntilCommit,
           CapturedOwnTerm, TermShape, Release, Released, Locked
  <2>3. OwnedUntilCommit'
    BY <1>12, <2>1, LeaseAssumption
       DEF TypeOK, Lease, Node, JobLoop, InTerm, Active, FenceNamesOneTerm, OwnedUntilCommit,
           CapturedOwnTerm, TermShape, Release, Released, Locked
  <2>4. CapturedOwnTerm'
    BY <1>12, <2>1, LeaseAssumption
       DEF TypeOK, Lease, Node, JobLoop, InTerm, Active, FenceNamesOneTerm, OwnedUntilCommit,
           CapturedOwnTerm, TermShape, Release, Released, Locked
  <2>5. TermShape'
    BY <1>12, <2>1, LeaseAssumption
       DEF TypeOK, Lease, Node, JobLoop, InTerm, Active, FenceNamesOneTerm, OwnedUntilCommit,
           CapturedOwnTerm, TermShape, Release, Released, Locked
  <2>6. (written <= lease.fence /\ (lease.holder # NoHolder => lease.fence > 0))'
    BY <1>12, <2>1, LeaseAssumption
       DEF TypeOK, Lease, Node, JobLoop, InTerm, Active, FenceNamesOneTerm, OwnedUntilCommit,
           CapturedOwnTerm, TermShape, Release, Released, Locked
  <2> QED
    BY <2>1, <2>2, <2>3, <2>4, <2>5, <2>6 DEF LeaseInv
<1>13. CASE ReleaseError(n)
  <2>1. TypeOK'
    <3>1. lease' \in Lease
      BY <1>13 DEF TypeOK, Lease, ReleaseError, Released, DBFails
    <3>2. node' \in [Nodes -> Node]
      BY ZenonT(40), <1>13 DEF TypeOK, Node, InTerm, Lease, ReleaseError, Released, DBFails
    <3>3. job' \in [Nodes \X Jobs -> JobLoop]
      BY <1>13 DEF TypeOK, JobLoop, Active, ReleaseError, Released, DBFails
    <3>4. written' \in Nat /\ faults' \in Nat /\ crashes' \in Nat
      BY <1>13 DEF TypeOK, ReleaseError, Released, DBFails
    <3> QED
      BY <3>1, <3>2, <3>3, <3>4 DEF TypeOK
  <2>2. FenceNamesOneTerm'
    BY <1>13, <2>1, LeaseAssumption
       DEF TypeOK, Lease, Node, JobLoop, InTerm, Active, FenceNamesOneTerm, OwnedUntilCommit,
           CapturedOwnTerm, TermShape, ReleaseError, Released, Locked, DBFails
  <2>3. OwnedUntilCommit'
    BY <1>13, <2>1, LeaseAssumption
       DEF TypeOK, Lease, Node, JobLoop, InTerm, Active, FenceNamesOneTerm, OwnedUntilCommit,
           CapturedOwnTerm, TermShape, ReleaseError, Released, Locked, DBFails
  <2>4. CapturedOwnTerm'
    BY <1>13, <2>1, LeaseAssumption
       DEF TypeOK, Lease, Node, JobLoop, InTerm, Active, FenceNamesOneTerm, OwnedUntilCommit,
           CapturedOwnTerm, TermShape, ReleaseError, Released, Locked, DBFails
  <2>5. TermShape'
    BY <1>13, <2>1, LeaseAssumption
       DEF TypeOK, Lease, Node, JobLoop, InTerm, Active, FenceNamesOneTerm, OwnedUntilCommit,
           CapturedOwnTerm, TermShape, ReleaseError, Released, Locked, DBFails
  <2>6. (written <= lease.fence /\ (lease.holder # NoHolder => lease.fence > 0))'
    BY <1>13, <2>1, LeaseAssumption
       DEF TypeOK, Lease, Node, JobLoop, InTerm, Active, FenceNamesOneTerm, OwnedUntilCommit,
           CapturedOwnTerm, TermShape, ReleaseError, Released, Locked, DBFails
  <2> QED
    BY <2>1, <2>2, <2>3, <2>4, <2>5, <2>6 DEF LeaseInv
<1>14. CASE Exit(n)
  <2>1. TypeOK'
    BY SMTT(30), <1>14, LeaseAssumption DEF TypeOK, Lease, Node, JobLoop, InTerm, Active, Exit
  <2>2. FenceNamesOneTerm'
    BY <1>14, <2>1, LeaseAssumption
       DEF TypeOK, Lease, Node, JobLoop, InTerm, Active, FenceNamesOneTerm, OwnedUntilCommit,
           CapturedOwnTerm, TermShape, Exit
  <2>3. OwnedUntilCommit'
    BY <1>14, <2>1, LeaseAssumption
       DEF TypeOK, Lease, Node, JobLoop, InTerm, Active, FenceNamesOneTerm, OwnedUntilCommit,
           CapturedOwnTerm, TermShape, Exit
  <2>4. CapturedOwnTerm'
    BY <1>14, <2>1, LeaseAssumption
       DEF TypeOK, Lease, Node, JobLoop, InTerm, Active, FenceNamesOneTerm, OwnedUntilCommit,
           CapturedOwnTerm, TermShape, Exit
  <2>5. TermShape'
    BY <1>14, <2>1, LeaseAssumption
       DEF TypeOK, Lease, Node, JobLoop, InTerm, Active, FenceNamesOneTerm, OwnedUntilCommit,
           CapturedOwnTerm, TermShape, Exit
  <2>6. (written <= lease.fence /\ (lease.holder # NoHolder => lease.fence > 0))'
    BY <1>14, <2>1, LeaseAssumption
       DEF TypeOK, Lease, Node, JobLoop, InTerm, Active, FenceNamesOneTerm, OwnedUntilCommit,
           CapturedOwnTerm, TermShape, Exit
  <2> QED
    BY <2>1, <2>2, <2>3, <2>4, <2>5, <2>6 DEF LeaseInv
<1>15. CASE Crash(n)
  <2>1. TypeOK'
    <3>1. lease' \in Lease
      BY <1>15 DEF TypeOK, Lease, Crash, Ended
    <3>2. node' \in [Nodes -> Node]
      BY ZenonT(40), <1>15 DEF TypeOK, Node, InTerm, Lease, Crash, Ended
    <3>3. job' \in [Nodes \X Jobs -> JobLoop]
      BY <1>15 DEF TypeOK, JobLoop, Active, Crash, Ended
    <3>4. written' \in Nat /\ faults' \in Nat /\ crashes' \in Nat
      BY <1>15 DEF TypeOK, Crash, Ended
    <3> QED
      BY <3>1, <3>2, <3>3, <3>4 DEF TypeOK
  <2>2. FenceNamesOneTerm'
    BY <1>15, <2>1, LeaseAssumption
       DEF TypeOK, Lease, Node, JobLoop, InTerm, Active, FenceNamesOneTerm, OwnedUntilCommit,
           CapturedOwnTerm, TermShape, Crash, Ended
  <2>3. OwnedUntilCommit'
    BY <1>15, <2>1, LeaseAssumption
       DEF TypeOK, Lease, Node, JobLoop, InTerm, Active, FenceNamesOneTerm, OwnedUntilCommit,
           CapturedOwnTerm, TermShape, Crash, Ended
  <2>4. CapturedOwnTerm'
    BY <1>15, <2>1, LeaseAssumption
       DEF TypeOK, Lease, Node, JobLoop, InTerm, Active, FenceNamesOneTerm, OwnedUntilCommit,
           CapturedOwnTerm, TermShape, Crash, Ended
  <2>5. TermShape'
    BY <1>15, <2>1, LeaseAssumption
       DEF TypeOK, Lease, Node, JobLoop, InTerm, Active, FenceNamesOneTerm, OwnedUntilCommit,
           CapturedOwnTerm, TermShape, Crash, Ended
  <2>6. (written <= lease.fence /\ (lease.holder # NoHolder => lease.fence > 0))'
    BY <1>15, <2>1, LeaseAssumption
       DEF TypeOK, Lease, Node, JobLoop, InTerm, Active, FenceNamesOneTerm, OwnedUntilCommit,
           CapturedOwnTerm, TermShape, Crash, Ended
  <2> QED
    BY <2>1, <2>2, <2>3, <2>4, <2>5, <2>6 DEF LeaseInv
<1> QED
  BY <1>1, <1>2, <1>3, <1>4, <1>5, <1>6, <1>7, <1>8, <1>9, <1>10, <1>11, <1>12, <1>13, <1>14, <1>15
     DEF Lead

(* A step of a job of a process preserves the invariant.                   *)
LEMMA WorkInv ==
    ASSUME LeaseInv, NEW n \in Nodes, NEW j \in Jobs, Work(n, j)
    PROVE  LeaseInv'
<1> USE DEF LeaseInv
<1>1. CASE RunJob(n, j)
  <2>1. TypeOK'
    BY <1>1, LeaseAssumption DEF TypeOK, Lease, Node, JobLoop, InTerm, Active, RunJob
  <2>2. FenceNamesOneTerm'
    BY <1>1, <2>1, LeaseAssumption
       DEF TypeOK, Lease, Node, JobLoop, InTerm, Active, FenceNamesOneTerm, OwnedUntilCommit,
           CapturedOwnTerm, TermShape, RunJob
  <2>3. OwnedUntilCommit'
    BY <1>1, <2>1, LeaseAssumption
       DEF TypeOK, Lease, Node, JobLoop, InTerm, Active, FenceNamesOneTerm, OwnedUntilCommit,
           CapturedOwnTerm, TermShape, RunJob
  <2>4. CapturedOwnTerm'
    BY <1>1, <2>1, LeaseAssumption
       DEF TypeOK, Lease, Node, JobLoop, InTerm, Active, FenceNamesOneTerm, OwnedUntilCommit,
           CapturedOwnTerm, TermShape, RunJob
  <2>5. TermShape'
    BY <1>1, <2>1, LeaseAssumption
       DEF TypeOK, Lease, Node, JobLoop, InTerm, Active, FenceNamesOneTerm, OwnedUntilCommit,
           CapturedOwnTerm, TermShape, RunJob
  <2>6. (written <= lease.fence /\ (lease.holder # NoHolder => lease.fence > 0))'
    BY <1>1, <2>1, LeaseAssumption
       DEF TypeOK, Lease, Node, JobLoop, InTerm, Active, FenceNamesOneTerm, OwnedUntilCommit,
           CapturedOwnTerm, TermShape, RunJob
  <2> QED
    BY <2>1, <2>2, <2>3, <2>4, <2>5, <2>6 DEF LeaseInv
<1>2. CASE CaptureFence(n, j)
  <2>1. TypeOK'
    BY <1>2, LeaseAssumption DEF TypeOK, Lease, Node, JobLoop, InTerm, Active, CaptureFence
  <2>2. FenceNamesOneTerm'
    BY <1>2, <2>1, LeaseAssumption
       DEF TypeOK, Lease, Node, JobLoop, InTerm, Active, FenceNamesOneTerm, OwnedUntilCommit,
           CapturedOwnTerm, TermShape, CaptureFence
  <2>3. OwnedUntilCommit'
    BY <1>2, <2>1, LeaseAssumption
       DEF TypeOK, Lease, Node, JobLoop, InTerm, Active, FenceNamesOneTerm, OwnedUntilCommit,
           CapturedOwnTerm, TermShape, CaptureFence
  <2>4. CapturedOwnTerm'
    BY <1>2, <2>1, LeaseAssumption
       DEF TypeOK, Lease, Node, JobLoop, InTerm, Active, FenceNamesOneTerm, OwnedUntilCommit,
           CapturedOwnTerm, TermShape, CaptureFence
  <2>5. TermShape'
    BY <1>2, <2>1, LeaseAssumption
       DEF TypeOK, Lease, Node, JobLoop, InTerm, Active, FenceNamesOneTerm, OwnedUntilCommit,
           CapturedOwnTerm, TermShape, CaptureFence
  <2>6. (written <= lease.fence /\ (lease.holder # NoHolder => lease.fence > 0))'
    BY <1>2, <2>1, LeaseAssumption
       DEF TypeOK, Lease, Node, JobLoop, InTerm, Active, FenceNamesOneTerm, OwnedUntilCommit,
           CapturedOwnTerm, TermShape, CaptureFence
  <2> QED
    BY <2>1, <2>2, <2>3, <2>4, <2>5, <2>6 DEF LeaseInv
<1>3. CASE BeginFenced(n, j)
  <2>1. TypeOK'
    BY <1>3, LeaseAssumption
       DEF TypeOK, Lease, Node, JobLoop, InTerm, Active, BeginFenced, FenceHeld, Locked
  <2>2. FenceNamesOneTerm'
    BY <1>3, <2>1, LeaseAssumption
       DEF TypeOK, Lease, Node, JobLoop, InTerm, Active, FenceNamesOneTerm, OwnedUntilCommit,
           CapturedOwnTerm, TermShape, BeginFenced, FenceHeld, Locked
  <2>3. OwnedUntilCommit'
    BY <1>3, <2>1, LeaseAssumption
       DEF TypeOK, Lease, Node, JobLoop, InTerm, Active, FenceNamesOneTerm, OwnedUntilCommit,
           CapturedOwnTerm, TermShape, BeginFenced, FenceHeld, Locked
  <2>4. CapturedOwnTerm'
    BY <1>3, <2>1, LeaseAssumption
       DEF TypeOK, Lease, Node, JobLoop, InTerm, Active, FenceNamesOneTerm, OwnedUntilCommit,
           CapturedOwnTerm, TermShape, BeginFenced, FenceHeld, Locked
  <2>5. TermShape'
    BY <1>3, <2>1, LeaseAssumption
       DEF TypeOK, Lease, Node, JobLoop, InTerm, Active, FenceNamesOneTerm, OwnedUntilCommit,
           CapturedOwnTerm, TermShape, BeginFenced, FenceHeld, Locked
  <2>6. (written <= lease.fence /\ (lease.holder # NoHolder => lease.fence > 0))'
    BY <1>3, <2>1, LeaseAssumption
       DEF TypeOK, Lease, Node, JobLoop, InTerm, Active, FenceNamesOneTerm, OwnedUntilCommit,
           CapturedOwnTerm, TermShape, BeginFenced, FenceHeld, Locked
  <2> QED
    BY <2>1, <2>2, <2>3, <2>4, <2>5, <2>6 DEF LeaseInv
<1>4. CASE CommitFenced(n, j)
  <2>1. TypeOK'
    BY <1>4, LeaseAssumption DEF TypeOK, Lease, Node, JobLoop, InTerm, Active, CommitFenced
  <2>2. FenceNamesOneTerm'
    BY <1>4, <2>1, LeaseAssumption
       DEF TypeOK, Lease, Node, JobLoop, InTerm, Active, FenceNamesOneTerm, OwnedUntilCommit,
           CapturedOwnTerm, TermShape, CommitFenced
  <2>3. OwnedUntilCommit'
    BY <1>4, <2>1, LeaseAssumption
       DEF TypeOK, Lease, Node, JobLoop, InTerm, Active, FenceNamesOneTerm, OwnedUntilCommit,
           CapturedOwnTerm, TermShape, CommitFenced
  <2>4. CapturedOwnTerm'
    BY <1>4, <2>1, LeaseAssumption
       DEF TypeOK, Lease, Node, JobLoop, InTerm, Active, FenceNamesOneTerm, OwnedUntilCommit,
           CapturedOwnTerm, TermShape, CommitFenced
  <2>5. TermShape'
    BY <1>4, <2>1, LeaseAssumption
       DEF TypeOK, Lease, Node, JobLoop, InTerm, Active, FenceNamesOneTerm, OwnedUntilCommit,
           CapturedOwnTerm, TermShape, CommitFenced
  <2>6. (written <= lease.fence /\ (lease.holder # NoHolder => lease.fence > 0))'
    BY <1>4, <2>1, LeaseAssumption
       DEF TypeOK, Lease, Node, JobLoop, InTerm, Active, FenceNamesOneTerm, OwnedUntilCommit,
           CapturedOwnTerm, TermShape, CommitFenced
  <2> QED
    BY <2>1, <2>2, <2>3, <2>4, <2>5, <2>6 DEF LeaseInv
<1>5. CASE FinishJob(n, j)
  <2>1. TypeOK'
    BY <1>5, LeaseAssumption DEF TypeOK, Lease, Node, JobLoop, InTerm, Active, FinishJob
  <2>2. FenceNamesOneTerm'
    BY <1>5, <2>1, LeaseAssumption
       DEF TypeOK, Lease, Node, JobLoop, InTerm, Active, FenceNamesOneTerm, OwnedUntilCommit,
           CapturedOwnTerm, TermShape, FinishJob
  <2>3. OwnedUntilCommit'
    BY <1>5, <2>1, LeaseAssumption
       DEF TypeOK, Lease, Node, JobLoop, InTerm, Active, FenceNamesOneTerm, OwnedUntilCommit,
           CapturedOwnTerm, TermShape, FinishJob
  <2>4. CapturedOwnTerm'
    BY <1>5, <2>1, LeaseAssumption
       DEF TypeOK, Lease, Node, JobLoop, InTerm, Active, FenceNamesOneTerm, OwnedUntilCommit,
           CapturedOwnTerm, TermShape, FinishJob
  <2>5. TermShape'
    BY <1>5, <2>1, LeaseAssumption
       DEF TypeOK, Lease, Node, JobLoop, InTerm, Active, FenceNamesOneTerm, OwnedUntilCommit,
           CapturedOwnTerm, TermShape, FinishJob
  <2>6. (written <= lease.fence /\ (lease.holder # NoHolder => lease.fence > 0))'
    BY <1>5, <2>1, LeaseAssumption
       DEF TypeOK, Lease, Node, JobLoop, InTerm, Active, FenceNamesOneTerm, OwnedUntilCommit,
           CapturedOwnTerm, TermShape, FinishJob
  <2> QED
    BY <2>1, <2>2, <2>3, <2>4, <2>5, <2>6 DEF LeaseInv
<1>6. CASE EndLoop(n, j)
  <2>1. TypeOK'
    BY <1>6, LeaseAssumption DEF TypeOK, Lease, Node, JobLoop, InTerm, Active, EndLoop, Cancelled
  <2>2. FenceNamesOneTerm'
    BY <1>6, <2>1, LeaseAssumption
       DEF TypeOK, Lease, Node, JobLoop, InTerm, Active, FenceNamesOneTerm, OwnedUntilCommit,
           CapturedOwnTerm, TermShape, EndLoop, Cancelled
  <2>3. OwnedUntilCommit'
    BY <1>6, <2>1, LeaseAssumption
       DEF TypeOK, Lease, Node, JobLoop, InTerm, Active, FenceNamesOneTerm, OwnedUntilCommit,
           CapturedOwnTerm, TermShape, EndLoop, Cancelled
  <2>4. CapturedOwnTerm'
    BY <1>6, <2>1, LeaseAssumption
       DEF TypeOK, Lease, Node, JobLoop, InTerm, Active, FenceNamesOneTerm, OwnedUntilCommit,
           CapturedOwnTerm, TermShape, EndLoop, Cancelled
  <2>5. TermShape'
    BY <1>6, <2>1, LeaseAssumption
       DEF TypeOK, Lease, Node, JobLoop, InTerm, Active, FenceNamesOneTerm, OwnedUntilCommit,
           CapturedOwnTerm, TermShape, EndLoop, Cancelled
  <2>6. (written <= lease.fence /\ (lease.holder # NoHolder => lease.fence > 0))'
    BY <1>6, <2>1, LeaseAssumption
       DEF TypeOK, Lease, Node, JobLoop, InTerm, Active, FenceNamesOneTerm, OwnedUntilCommit,
           CapturedOwnTerm, TermShape, EndLoop, Cancelled
  <2> QED
    BY <2>1, <2>2, <2>3, <2>4, <2>5, <2>6 DEF LeaseInv
<1> QED
  BY <1>1, <1>2, <1>3, <1>4, <1>5, <1>6 DEF Work

(* Every step preserves the invariant.                                     *)
LEMMA NextInv == LeaseInv /\ [Next]_vars => LeaseInv'
<1> SUFFICES ASSUME LeaseInv, [Next]_vars
             PROVE  LeaseInv'
  OBVIOUS
<1>1. CASE \E n \in Nodes : Lead(n)
  BY <1>1, LeadInv
<1>2. CASE \E n \in Nodes, j \in Jobs : Work(n, j)
  BY <1>2, WorkInv
<1>3. CASE Expire
  <2>1. /\ lease' = [lease EXCEPT !.expired = TRUE]
        /\ UNCHANGED <<node, job, written, faults, crashes>>
    BY <1>3 DEF Expire
  <2>2. TypeOK'
    BY <2>1 DEF LeaseInv, TypeOK, Lease
  <2> QED
    BY <2>1, <2>2 DEF LeaseInv, TypeOK, Lease, FenceNamesOneTerm, OwnedUntilCommit,
                      CapturedOwnTerm, TermShape
<1>4. CASE UNCHANGED vars
  BY <1>4 DEF vars, LeaseInv, TypeOK, FenceNamesOneTerm, OwnedUntilCommit,
              CapturedOwnTerm, TermShape
<1> QED
  BY <1>1, <1>2, <1>3, <1>4 DEF Next, Terminated

(* Every reachable state satisfies the invariant of the lease, its terms   *)
(* and their jobs.                                                         *)
THEOREM LeaseInvariant == Spec => []LeaseInv
<1>1. Init => LeaseInv
  BY InitInv
<1>2. LeaseInv /\ [Next]_vars => LeaseInv'
  BY NextInv
<1> QED
  BY <1>1, <1>2, PTL DEF Spec

(* Fences name terms: TryAcquire never gives two processes one fence.      *)
THEOREM FenceNamesOneTermTheorem == Spec => []FenceNamesOneTerm
BY LeaseInvariant, PTL DEF LeaseInv

(* The row lock of a fenced transaction keeps the lease with its process   *)
(* and its term until the commit, for every expiry of the lease.           *)
THEOREM OwnedUntilCommitTheorem == Spec => []OwnedUntilCommit
BY LeaseInvariant, PTL DEF LeaseInv

(* A job works with the fence of its own leadership term.                  *)
THEOREM CapturedOwnTermTheorem == Spec => []CapturedOwnTerm
BY LeaseInvariant, PTL DEF LeaseInv

(* Fenced transactions commit in the order of the terms.                   *)
THEOREM WritesFollowTermsTheorem == Spec => WritesFollowTerms
<1>1. LeaseInv /\ [Next]_vars => [written <= written']_vars
  <2> SUFFICES ASSUME LeaseInv, [Next]_vars
               PROVE  written <= written'
    OBVIOUS
  <2>1. written \in Nat
    BY DEF LeaseInv, TypeOK
  <2>2. CASE \E n \in Nodes, j \in Jobs : CommitFenced(n, j)
    <3>1. PICK n \in Nodes, j \in Jobs : CommitFenced(n, j)
      BY <2>2
    <3>2. written' = lease.fence
      BY <3>1 DEF LeaseInv, OwnedUntilCommit, CommitFenced
    <3> QED
      BY <3>2 DEF LeaseInv
  <2>3. CASE ~ \E n \in Nodes, j \in Jobs : CommitFenced(n, j)
    <3>1. written' = written
      BY <2>3 DEF Next, Lead, Work, Start, Stop, TryAcquire, AcquireLost, Renew, RenewRefused,
                  RenewError, EndLostTerm, Drain, ShutdownJobs, ShutdownJobsEnd, Release,
                  ReleaseError, Exit, Crash, RunJob, CaptureFence, BeginFenced, FinishJob,
                  EndLoop, Expire, Terminated, vars
    <3> QED
      BY <2>1, <3>1
  <2> QED
    BY <2>2, <2>3
<1> QED
  BY <1>1, LeaseInvariant, PTL DEF Spec, WritesFollowTerms

(* A lease is given up only by its holder, after its jobs have ended and   *)
(* its shutdown jobs have run.                                             *)
THEOREM HandoverIsCleanTheorem == Spec => HandoverIsClean
<1> DEFINE Clean ==
        lease.holder # NoHolder /\ lease'.holder = NoHolder =>
          /\ node[lease.holder].flushed
          /\ \A j \in Jobs : job[<<lease.holder, j>>].at = "none"
<1>1. LeaseInv /\ [Next]_vars => [Clean]_vars
  <2> SUFFICES ASSUME LeaseInv, [Next]_vars, lease.holder # NoHolder, lease'.holder = NoHolder
               PROVE  /\ node[lease.holder].flushed
                      /\ \A j \in Jobs : job[<<lease.holder, j>>].at = "none"
    OBVIOUS
  <2>1. lease \in Lease
    BY DEF LeaseInv, TypeOK
  <2>2. CASE \E n \in Nodes : Release(n) \/ ReleaseError(n)
    <3>1. PICK n \in Nodes : Release(n) \/ ReleaseError(n)
      BY <2>2
    <3>2. node[n].at = "releasing" /\ lease.holder = n
      BY <3>1, <2>1 DEF Release, ReleaseError, Released, Lease
    <3> QED
      BY <3>2 DEF LeaseInv, TermShape
  <2>3. CASE ~ \E n \in Nodes : Release(n) \/ ReleaseError(n)
    <3>1. CASE \E n \in Nodes : TryAcquire(n) \/ AcquireLost(n)
      BY <3>1, LeaseAssumption DEF TryAcquire, AcquireLost, Acquired
    <3>2. CASE Expire \/ \E n \in Nodes : Renew(n) \/ RenewError(n)
      BY <3>2, <2>1 DEF Expire, Renew, RenewError, Renewed, MayRenew, Lease
    <3>3. CASE lease' = lease
      BY <3>3
    <3> QED
      BY <2>3, <3>1, <3>2, <3>3
         DEF Next, Lead, Work, Start, Stop, RenewRefused, EndLostTerm, Drain, ShutdownJobs,
             ShutdownJobsEnd, Exit, Crash, RunJob, CaptureFence, BeginFenced, CommitFenced,
             FinishJob, EndLoop, Terminated, vars
  <2> QED
    BY <2>2, <2>3
<1> QED
  BY <1>1, LeaseInvariant, PTL DEF Spec, HandoverIsClean

-----------------------------------------------------------------------------
(* The terms of the processes as FencedTerms sees them, and what it leaves *)
(* of a step that begins or ends no term and writes nothing.               *)
Serving == [n \in Nodes |-> node[n].term]

(* A step that keeps holder, fence, terms and the last write stutters.     *)
LEMMA SameTerms ==
    ASSUME lease'.fence = lease.fence, lease'.holder = lease.holder, written' = written,
           \A n \in Nodes : node'[n].term = node[n].term
    PROVE  [Terms!TNext]_(Terms!tvars)
<1>1. Serving' = Serving
  BY DEF Serving
<1>2. QED
  BY <1>1 DEF Terms!tvars, Serving

(* A process that ends its term, and gives up the lease or not, retires.   *)
LEMMA EndsTerm ==
    ASSUME NEW n \in Nodes, LeaseInv, node[n].term > 0,
           node'[n].term = 0, \A m \in Nodes : m # n => node'[m] = node[m],
           lease' \in {lease, Released(n)}, written' = written
    PROVE  [Terms!TNext]_(Terms!tvars)
<1>1. Serving' = [Serving EXCEPT ![n] = 0]
  BY DEF Serving
<1>2. /\ lease'.fence = lease.fence
      /\ lease'.holder \in {lease.holder, IF lease.holder = n THEN NoHolder ELSE lease.holder}
  BY DEF LeaseInv, TypeOK, Lease, Released
<1>3. Terms!Retire(n)
  BY <1>1, <1>2 DEF Terms!Retire, Serving
<1>4. QED
  BY <1>3 DEF Terms!TNext

(* Taking the row over, noticed or not, elects a process without a term.   *)
LEMMA AcquireElects ==
    ASSUME NEW n \in Nodes, LeaseInv, TryAcquire(n) \/ AcquireLost(n)
    PROVE  [Terms!TNext]_(Terms!tvars)
<1>1. node \in [Nodes -> Node] /\ lease.fence \in Nat
  BY DEF LeaseInv, TypeOK, Lease
<1>2. node[n].at = "idle" /\ node[n].term = 0
  BY <1>1 DEF TryAcquire, AcquireLost, MayAcquire, LeaseInv, TermShape, InTerm, Node
<1>3. lease'.fence = lease.fence + 1 /\ lease'.holder = n /\ written' = written
  BY DEF TryAcquire, AcquireLost, Acquired
<1>4. Serving' \in {Serving, [Serving EXCEPT ![n] = lease'.fence]}
  <2>1. CASE TryAcquire(n)
    BY <2>1, <1>1, <1>3 DEF TryAcquire, Acquired, Serving
  <2>2. CASE AcquireLost(n)
    BY <2>2 DEF AcquireLost, Serving
  <2>3. QED
    BY <2>1, <2>2
<1>5. Terms!Elect(n)
  BY <1>2, <1>3, <1>4 DEF Terms!Elect, Serving
<1>6. QED
  BY <1>5 DEF Terms!TNext

(* Every step of the leadership loop begins a term, ends one or stutters.  *)
LEMMA LeadFenced ==
    ASSUME NEW n \in Nodes, LeaseInv, Lead(n)
    PROVE  [Terms!TNext]_(Terms!tvars)
<1>0. lease \in Lease /\ node \in [Nodes -> Node]
  BY DEF LeaseInv, TypeOK
<1>1. CASE TryAcquire(n) \/ AcquireLost(n)
  BY <1>1, AcquireElects
<1>2. CASE Start(n) \/ Stop(n) \/ RenewRefused(n) \/ Drain(n) \/ ShutdownJobs(n)
           \/ ShutdownJobsEnd(n) \/ Exit(n)
  <2>1. UNCHANGED <<lease, written>>
    BY <1>2 DEF Start, Stop, RenewRefused, Drain, ShutdownJobs, ShutdownJobsEnd, Exit
  <2>2. \A m \in Nodes : node'[m].term = node[m].term
    BY <1>0, <1>2 DEF Start, Stop, RenewRefused, Drain, ShutdownJobs, ShutdownJobsEnd, Exit, Node
  <2>3. QED
    BY <2>1, <2>2, SameTerms
<1>3. CASE Renew(n) \/ RenewError(n)
  <2>1. lease'.fence = lease.fence /\ lease'.holder = lease.holder /\ written' = written
    BY <1>0, <1>3 DEF Renew, RenewError, Renewed, Lease
  <2>2. \A m \in Nodes : node'[m].term = node[m].term
    BY <1>0, <1>3 DEF Renew, RenewError, Node
  <2>3. QED
    BY <2>1, <2>2, SameTerms
<1>4. CASE EndLostTerm(n) \/ Release(n) \/ ReleaseError(n)
  <2>1. node[n].term > 0
    BY <1>4 DEF EndLostTerm, Release, ReleaseError, LeaseInv, TermShape, InTerm
  <2>2. node'[n].term = 0 /\ \A m \in Nodes : m # n => node'[m] = node[m]
    BY <1>0, <1>4 DEF EndLostTerm, Release, ReleaseError, Node
  <2>3. lease' \in {lease, Released(n)} /\ written' = written
    BY <1>4 DEF EndLostTerm, Release, ReleaseError
  <2>4. QED
    BY <2>1, <2>2, <2>3, EndsTerm
<1>5. CASE Crash(n)
  <2>1. node'[n].term = 0 /\ \A m \in Nodes : m # n => node'[m] = node[m]
    BY <1>0, <1>5 DEF Crash, Node
  <2>2. lease' = lease /\ written' = written
    BY <1>5 DEF Crash
  <2>3. CASE node[n].term > 0
    BY <2>1, <2>2, <2>3, EndsTerm
  <2>4. CASE node[n].term = 0
    BY <2>1, <2>2, <2>4, SameTerms
  <2>5. node[n].term \in Nat
    BY <1>0 DEF Node
  <2>6. QED
    BY <2>3, <2>4, <2>5
<1>6. QED
  BY <1>1, <1>2, <1>3, <1>4, <1>5 DEF Lead

(* The lease and its fenced transactions implement FencedTerms: a commit   *)
(* is a write of the latest term by the process that owns and serves it.   *)
THEOREM WritesAreFencedTheorem == Spec => WritesAreFenced
<1>1. Init => Terms!TInit
  BY DEF Init, Terms!TInit
<1>2. LeaseInv /\ [Next]_vars => [Terms!TNext]_(Terms!tvars)
  <2> SUFFICES ASSUME LeaseInv, [Next]_vars PROVE [Terms!TNext]_(Terms!tvars)
    OBVIOUS
  <2>0. lease \in Lease
    BY DEF LeaseInv, TypeOK
  <2>1. CASE \E n \in Nodes : Lead(n)
    BY <2>1, LeadFenced
  <2>2. CASE \E n \in Nodes, j \in Jobs : CommitFenced(n, j)
    <3>1. PICK n \in Nodes, j \in Jobs : CommitFenced(n, j)
      BY <2>2
    <3>2. lease.holder = n /\ node[n].term = lease.fence /\ written' = lease.fence
      BY <3>1 DEF CommitFenced, LeaseInv, OwnedUntilCommit
    <3>3. UNCHANGED <<lease, node>>
      BY <3>1 DEF CommitFenced
    <3>4. Terms!Write(n)
      BY <3>2, <3>3 DEF Terms!Write
    <3>5. QED
      BY <3>4 DEF Terms!TNext
  <2>3. CASE Expire
    <3>1. lease'.fence = lease.fence /\ lease'.holder = lease.holder
      BY <2>0, <2>3 DEF Expire, Lease
    <3>2. UNCHANGED <<node, written>>
      BY <2>3 DEF Expire
    <3>3. QED
      BY <3>1, <3>2, SameTerms
  <2>4. CASE UNCHANGED <<lease, node, written>>
    BY <2>4, SameTerms
  <2>5. QED
    BY <2>1, <2>2, <2>3, <2>4
       DEF Next, Work, RunJob, CaptureFence, BeginFenced, FinishJob, EndLoop, Terminated, vars
<1>3. QED
  BY <1>1, <1>2, LeaseInvariant, PTL DEF Spec, WritesAreFenced, Terms!TSpec

-----------------------------------------------------------------------------
(* When leaders are timely, a process in a term holds an unexpired lease.  *)
TermHoldsLease ==
    \A n \in Nodes : node[n].at \in InTerm => lease.holder = n /\ ~lease.expired

(* A timely leader keeps its lease through every step of any process.      *)
LEMMA TermHoldsLeaseStep ==
    ASSUME Timely, LeaseInv, TermHoldsLease, [Next]_vars
    PROVE  TermHoldsLease'
<1> USE DEF LeaseInv, TypeOK, Lease, Node, InTerm, TermHoldsLease
<1>1. CASE \E n \in Nodes : TryAcquire(n)
  BY <1>1 DEF TryAcquire, MayAcquire, Acquired
<1>2. CASE \E n \in Nodes : AcquireLost(n)
  BY <1>2 DEF AcquireLost, MayAcquire, Acquired
<1>3. CASE \E n \in Nodes : Renew(n)
  BY <1>3 DEF Renew, MayRenew, Renewed
<1>4. CASE \E n \in Nodes : RenewError(n)
  BY <1>4 DEF RenewError, MayRenew, Renewed
<1>5. CASE \E n \in Nodes : Release(n) \/ ReleaseError(n)
  <2>1. PICK n \in Nodes : Release(n) \/ ReleaseError(n)
    BY <1>5
  <2>2. node[n].at = "releasing" /\ lease.holder = n
    BY <2>1 DEF Release, ReleaseError
  <2>3. node' = [node EXCEPT ![n].at = "closing", ![n].term = 0]
    BY <2>1 DEF Release, ReleaseError
  <2>4. \A m \in Nodes : m # n => node[m].at \notin InTerm /\ node'[m] = node[m]
    BY <2>2, <2>3
  <2>5. node'[n].at = "closing"
    BY <2>3
  <2> QED
    BY <2>4, <2>5
<1>6. CASE Expire
  BY <1>6 DEF Expire
<1>7. CASE \E n \in Nodes : \/ Start(n) \/ Stop(n) \/ RenewRefused(n) \/ EndLostTerm(n)
                            \/ Drain(n) \/ ShutdownJobs(n) \/ ShutdownJobsEnd(n)
                            \/ Exit(n) \/ Crash(n)
  BY <1>7 DEF Start, Stop, RenewRefused, EndLostTerm, Drain, ShutdownJobs, ShutdownJobsEnd,
              Exit, Crash
<1>8. CASE UNCHANGED <<lease, node>>
  BY <1>8
<1> QED
  BY <1>1, <1>2, <1>3, <1>4, <1>5, <1>6, <1>7, <1>8
     DEF Next, Lead, Work, RunJob, CaptureFence, BeginFenced, CommitFenced, FinishJob, EndLoop,
         Terminated, vars

(* When leaders renew in time and cancelled jobs end within the TTL, the   *)
(* global write jobs of two processes never run at once.                   *)
THEOREM OneLeaderRunsJobsTheorem ==
    ASSUME Timely
    PROVE  Spec => []OneLeaderRunsJobs
<1>1. Init => TermHoldsLease
  BY DEF Init, TermHoldsLease, InTerm
<1>2. LeaseInv /\ TermHoldsLease /\ [Next]_vars => TermHoldsLease'
  BY TermHoldsLeaseStep
<1>3. LeaseInv /\ TermHoldsLease => OneLeaderRunsJobs
  <2> SUFFICES ASSUME LeaseInv, TermHoldsLease,
                      NEW m \in Nodes, NEW n \in Nodes, Busy(m), Busy(n)
               PROVE  m = n
    BY DEF OneLeaderRunsJobs
  <2>1. node[m].at \in InTerm /\ node[n].at \in InTerm
    BY DEF LeaseInv, TermShape, Busy, Active, InTerm
  <2> QED
    BY <2>1 DEF TermHoldsLease
<1> QED
  BY <1>1, <1>2, <1>3, LeaseInvariant, PTL DEF Spec
================================================================================
