------------------------------ MODULE LeaderLease ------------------------------
(***************************************************************************)
(* The leader lease that decides which process runs the global write jobs  *)
(* (service/kkai_leader_lease.go), the leadership loop that runs the jobs, *)
(* renews and releases the lease (service/background_job_leader.go), the   *)
(* job loops (service/background_job.go) and the fence every business      *)
(* transaction of a job checks (model/shop_worker_fence.go,                *)
(* model/image_async_guard.go).                                            *)
(*                                                                         *)
(* A node is one life of a process: backgroundWorkerID gives every start a *)
(* new holder id.  Every statement reads database time first and compares  *)
(* lease_until with that reading.  All the comparisons leave of the clock  *)
(* is whether the lease has expired when the statement runs, except that a *)
(* reading may be old: then a takeover of an expired lease is refused (the *)
(* node retries) and a renewal of an expired lease is granted.  Expire may *)
(* follow a write at once, which covers a deadline computed too early.     *)
(***************************************************************************)
EXTENDS Integers, FiniteSets

CONSTANTS
    Nodes,          \* processes with the leader role and write jobs enabled
    NoHolder,       \* the empty holder of a released lease
    Jobs,           \* jobs registered with RequiresLeaderLease
    Timely,         \* a live leader renews, and its cancelled jobs end, within the TTL
    MaxTerms,       \* bound: leadership terms
    MaxFaults,      \* bound: failed database operations
    MaxCrashes      \* bound: processes that die

ASSUME LeaseAssumption ==
    /\ NoHolder \notin Nodes
    /\ Timely \in BOOLEAN
    /\ MaxTerms \in Nat /\ MaxFaults \in Nat /\ MaxCrashes \in Nat

VARIABLES
    lease,      \* the row of kkai_job_leases; fence 0: not inserted yet
    node,       \* runLeaderBackgroundJobs of each process
    job,        \* runBackgroundJobLoop of each process and job
    written,    \* history: the fence of the last committed fenced transaction
    faults, crashes

vars == <<lease, node, job, written, faults, crashes>>

Lease == [holder : Nodes \cup {NoHolder}, fence : Nat, expired : BOOLEAN]

(* A leadership term: between a successful TryAcquire and the end of its   *)
(* runLeadershipTerm.                                                      *)
InTerm == {"leading", "lost", "draining", "flushing", "releasing"}

Node ==
    [at : {"off", "idle", "closing", "done", "down"} \cup InTerm,
     stop : BOOLEAN,     \* the parent context is cancelled
     term : Nat,         \* history: the fence of the current term, 0 outside one
     flushed : BOOLEAN]  \* runBackgroundShutdownJobs has run for the leader jobs

Active == {"running", "fenced", "writing"}

JobLoop ==
    [at : {"none", "waiting"} \cup Active,
     fence : Nat]        \* LeaderFence captured for this run of the job, or 0

TypeOK ==
    /\ lease \in Lease
    /\ node \in [Nodes -> Node]
    /\ job \in [Nodes \X Jobs -> JobLoop]
    /\ written \in Nat /\ faults \in Nat /\ crashes \in Nat

Init ==
    /\ lease = [holder |-> NoHolder, fence |-> 0, expired |-> TRUE]
    /\ node = [n \in Nodes |-> [at |-> "off", stop |-> FALSE, term |-> 0, flushed |-> FALSE]]
    /\ job = [x \in Nodes \X Jobs |-> [at |-> "none", fence |-> 0]]
    /\ written = 0 /\ faults = 0 /\ crashes = 0

-----------------------------------------------------------------------------
(* A database operation reports an error; it may have been applied.        *)
DBFails == faults < MaxFaults /\ faults' = faults + 1

(* Mutant: the fence is checked but the row is not locked.                 *)
MutLocked == FALSE

(* A fenced transaction holds the lock of the lease row until it ends.     *)
Locked == \E x \in Nodes \X Jobs : job[x].at = "writing"

(* Nothing of the process runs any more.                                   *)
Ended(n) == node[n].at \in {"off", "done", "down"}

Start(n) ==
    /\ node[n].at = "off"
    /\ node' = [node EXCEPT ![n].at = "idle"]
    /\ UNCHANGED <<lease, job, written, faults, crashes>>

(* stopBackgroundJobs cancels the parent context.                          *)
Stop(n) ==
    /\ ~Ended(n) /\ ~node[n].stop
    /\ node' = [node EXCEPT ![n].stop = TRUE]
    /\ UNCHANGED <<lease, job, written, faults, crashes>>

(* The time of a lease runs out.                                           *)
Expire ==
    /\ lease.holder # NoHolder /\ ~lease.expired
    /\ Timely => node[lease.holder].at \notin InTerm
    /\ lease' = [lease EXCEPT !.expired = TRUE]
    /\ UNCHANGED <<node, job, written, faults, crashes>>

-----------------------------------------------------------------------------
(* Mutant: the takeover does not test lease_until.                         *)
MutMayAcquire(n) == node[n].at = "idle" /\ ~node[n].stop /\ ~Locked /\ lease.fence < MaxTerms

(* Mutant: only a released lease is taken over.                            *)
MutOnlyReleased(n) ==
    /\ node[n].at = "idle" /\ ~node[n].stop
    /\ lease.holder = NoHolder /\ ~Locked
    /\ lease.fence < MaxTerms

(* TryAcquire is called with a live context and its INSERT, or its UPDATE  *)
(* WHERE lease_until <= now, takes the row.                                *)
MayAcquire(n) ==
    /\ node[n].at = "idle" /\ ~node[n].stop
    /\ lease.expired /\ ~Locked
    /\ lease.fence < MaxTerms

(* Mutant: the takeover leaves the fence of the previous holder.           *)
MutAcquired(n) ==
    [holder |-> n, fence |-> IF lease.fence = 0 THEN 1 ELSE lease.fence, expired |-> FALSE]

Acquired(n) == [holder |-> n, fence |-> lease.fence + 1, expired |-> FALSE]

(* TryAcquire succeeds: runLeadershipTerm starts every job.  A TryAcquire  *)
(* that is refused changes nothing and is retried.                         *)
TryAcquire(n) ==
    /\ MayAcquire(n)
    /\ lease' = Acquired(n)
    /\ node' = [node EXCEPT ![n] = [at |-> "leading", stop |-> FALSE,
                                    term |-> Acquired(n).fence, flushed |-> FALSE]]
    /\ job' = [x \in Nodes \X Jobs |->
                  IF x[1] = n THEN [at |-> "waiting", fence |-> 0] ELSE job[x]]
    /\ UNCHANGED <<written, faults, crashes>>

(* The row is taken but the caller gets an error: it owns a lease it does  *)
(* not know of, until the lease expires.                                   *)
AcquireLost(n) ==
    /\ MayAcquire(n) /\ DBFails
    /\ lease' = Acquired(n)
    /\ UNCHANGED <<node, job, written, crashes>>

(* UPDATE WHERE holder = n AND lease_until > now matches the row.          *)
MayRenew(n) == node[n].at = "leading" /\ lease.holder = n /\ ~Locked

Renewed == [lease EXCEPT !.expired = FALSE]

Renew(n) ==
    /\ MayRenew(n) /\ ~node[n].stop
    /\ lease' = Renewed
    /\ UNCHANGED <<node, job, written, faults, crashes>>

(* The UPDATE matches no row: the jobs are cancelled.                      *)
RenewRefused(n) ==
    /\ node[n].at = "leading" /\ ~node[n].stop
    /\ lease.holder # n \/ lease.expired
    /\ node' = [node EXCEPT ![n].at = "lost"]
    /\ UNCHANGED <<lease, job, written, faults, crashes>>

(* Renew returns an error: the database failed, or the parent context was  *)
(* cancelled while or before the ticker branch ran.  The jobs are          *)
(* cancelled as if the lease were lost.                                    *)
RenewError(n) ==
    /\ node[n].at = "leading"
    /\ DBFails \/ (node[n].stop /\ UNCHANGED faults)
    /\ lease' = lease \/ (MayRenew(n) /\ lease' = Renewed)
    /\ node' = [node EXCEPT ![n].at = "lost"]
    /\ UNCHANGED <<job, written, crashes>>

(* Mutant: the next term does not wait for the jobs of this one.           *)
MutJobsEnded(n) == TRUE

(* jobsWG.Wait returns.                                                    *)
JobsEnded(n) == \A j \in Jobs : job[<<n, j>>].at = "none"

(* runLeadershipTerm returns false; without a stop the node tries again.   *)
EndLostTerm(n) ==
    /\ node[n].at = "lost" /\ JobsEnded(n)
    /\ node' = [node EXCEPT ![n].at = "idle", ![n].term = 0]
    /\ UNCHANGED <<lease, job, written, faults, crashes>>

(* The parent.Done branch: cancel, wait for the jobs, run the shutdown     *)
(* jobs, release the lease, return true.                                   *)
Drain(n) ==
    /\ node[n].at = "leading" /\ node[n].stop
    /\ node' = [node EXCEPT ![n].at = "draining"]
    /\ UNCHANGED <<lease, job, written, faults, crashes>>

ShutdownJobs(n) ==
    /\ node[n].at = "draining" /\ JobsEnded(n)
    /\ node' = [node EXCEPT ![n].at = "flushing"]
    /\ UNCHANGED <<lease, job, written, faults, crashes>>

ShutdownJobsEnd(n) ==
    /\ node[n].at = "flushing"
    /\ node' = [node EXCEPT ![n].at = "releasing", ![n].flushed = TRUE]
    /\ UNCHANGED <<lease, job, written, faults, crashes>>

(* Mutant: Release does not compare the holder.                            *)
MutReleased(n) == [lease EXCEPT !.holder = NoHolder, !.expired = TRUE]

(* UPDATE WHERE holder = n; lease_until = 0 is expired.                    *)
Released(n) ==
    IF lease.holder = n THEN [lease EXCEPT !.holder = NoHolder, !.expired = TRUE] ELSE lease

Release(n) ==
    /\ node[n].at = "releasing"
    /\ lease' = Released(n) /\ (lease' # lease => ~Locked)
    /\ node' = [node EXCEPT ![n].at = "closing", ![n].term = 0]
    /\ UNCHANGED <<job, written, faults, crashes>>

(* Release fails or runs out of the five seconds of its context.           *)
ReleaseError(n) ==
    /\ node[n].at = "releasing" /\ DBFails
    /\ lease' = lease \/ (lease' = Released(n) /\ ~Locked)
    /\ node' = [node EXCEPT ![n].at = "closing", ![n].term = 0]
    /\ UNCHANGED <<job, written, crashes>>

(* Run flushes the process-local state and returns; main exits.            *)
Exit(n) ==
    /\ node[n].at = "closing" \/ (node[n].at = "idle" /\ node[n].stop)
    /\ node' = [node EXCEPT ![n].at = "done"]
    /\ UNCHANGED <<lease, job, written, faults, crashes>>

(* The process dies, or main gives up on background jobs that did not stop *)
(* in ten seconds.  The database rolls its transactions back.              *)
Crash(n) ==
    /\ ~Ended(n) /\ crashes < MaxCrashes
    /\ crashes' = crashes + 1
    /\ node' = [node EXCEPT ![n].at = "down", ![n].term = 0]
    /\ job' = [x \in Nodes \X Jobs |->
                  IF x[1] = n THEN [at |-> "none", fence |-> 0] ELSE job[x]]
    /\ UNCHANGED <<lease, written, faults>>

-----------------------------------------------------------------------------
(* The job loop.  Its select may choose a tick or a wakeup although the    *)
(* context is done, and no step of a run looks at the context: the results *)
(* hold for jobs that go on after they were cancelled.                     *)
RunJob(n, j) ==
    /\ job[<<n, j>>].at = "waiting"
    /\ job' = [job EXCEPT ![<<n, j>>].at = "running"]
    /\ UNCHANGED <<lease, node, written, faults, crashes>>

(* shopWorkerDatabase and WithCurrentImageWorkerLease: the run captures    *)
(* the fence of the lease the process holds.  They compare lease_until     *)
(* with the clock of the process, which may be wrong either way.           *)
CaptureFence(n, j) ==
    /\ job[<<n, j>>].at = "running"
    /\ lease.holder = n /\ lease.fence > 0
    /\ job' = [job EXCEPT ![<<n, j>>] = [at |-> "fenced", fence |-> lease.fence]]
    /\ UNCHANGED <<lease, node, written, faults, crashes>>

(* Mutant: the transaction tests only that the captured lease has time.    *)
MutFenceAny(n, j) == ~lease.expired

(* RequireShopWorkerFenceTx, RequireImageWorkerFenceTx, on the locked row. *)
FenceHeld(n, j) ==
    lease.holder = n /\ lease.fence = job[<<n, j>>].fence /\ ~lease.expired

BeginFenced(n, j) ==
    /\ job[<<n, j>>].at = "fenced"
    /\ ~Locked /\ FenceHeld(n, j)
    /\ job' = [job EXCEPT ![<<n, j>>].at = "writing"]
    /\ UNCHANGED <<lease, node, written, faults, crashes>>

CommitFenced(n, j) ==
    /\ job[<<n, j>>].at = "writing"
    /\ job' = [job EXCEPT ![<<n, j>>].at = "fenced"]
    /\ written' = job[<<n, j>>].fence
    /\ UNCHANGED <<lease, node, faults, crashes>>

(* The run returns, with its work done, with ErrShopWorkerFenceLost, with  *)
(* a transaction rolled back or with a recovered panic.                    *)
FinishJob(n, j) ==
    /\ job[<<n, j>>].at \in Active
    /\ job' = [job EXCEPT ![<<n, j>>] = [at |-> "waiting", fence |-> 0]]
    /\ UNCHANGED <<lease, node, written, faults, crashes>>

(* Mutant: the parent.Done branch does not cancel the jobs it waits for.    *)
MutCancelled(n) == node[n].at = "lost"

Cancelled(n) == node[n].stop \/ node[n].at # "leading"

EndLoop(n, j) ==
    /\ job[<<n, j>>].at = "waiting" /\ Cancelled(n)
    /\ job' = [job EXCEPT ![<<n, j>>].at = "none"]
    /\ UNCHANGED <<lease, node, written, faults, crashes>>

(* All processes have ended.                                               *)
Terminated == (\A n \in Nodes : node[n].at \in {"done", "down"}) /\ UNCHANGED vars

Lead(n) ==
    \/ Start(n) \/ Stop(n)
    \/ TryAcquire(n) \/ AcquireLost(n)
    \/ Renew(n) \/ RenewRefused(n) \/ RenewError(n) \/ EndLostTerm(n)
    \/ Drain(n) \/ ShutdownJobs(n) \/ ShutdownJobsEnd(n) \/ Release(n) \/ ReleaseError(n)
    \/ Exit(n) \/ Crash(n)

Work(n, j) ==
    \/ RunJob(n, j) \/ CaptureFence(n, j) \/ BeginFenced(n, j) \/ CommitFenced(n, j)
    \/ FinishJob(n, j) \/ EndLoop(n, j)

Next ==
    \/ \E n \in Nodes : Lead(n)
    \/ \E n \in Nodes, j \in Jobs : Work(n, j)
    \/ Expire
    \/ Terminated

Spec == Init /\ [][Next]_vars

(* Started processes retry every LeaseRetryInterval, time passes, runs of  *)
(* jobs return, and a select that is offered ctx.Done again and again      *)
(* takes it at last.  Nothing makes a process start, stop or crash, and    *)
(* nothing makes a job write.                                              *)
Fairness ==
    /\ WF_vars(Expire)
    /\ \A n \in Nodes :
        /\ WF_vars(TryAcquire(n)) /\ WF_vars(EndLostTerm(n))
        /\ WF_vars(Drain(n)) /\ WF_vars(ShutdownJobs(n)) /\ WF_vars(ShutdownJobsEnd(n))
        /\ WF_vars(Release(n)) /\ WF_vars(Exit(n))
        /\ \A j \in Jobs : WF_vars(FinishJob(n, j)) /\ SF_vars(EndLoop(n, j))

FairSpec == Spec /\ Fairness

-----------------------------------------------------------------------------
(* A fence names one term of one process: no two processes are in a term   *)
(* with the same fence, the fence of the row is at least that of every     *)
(* term, and equal only for its holder (TryAcquire's fence + 1).           *)
FenceNamesOneTerm ==
    \A n \in Nodes : node[n].term > 0 =>
        /\ node[n].term <= lease.fence
        /\ node[n].term = lease.fence => lease.holder = n \/ lease.holder = NoHolder
        /\ \A m \in Nodes : node[m].term = node[n].term => m = n

(* While a fenced transaction is open the lease stays with its process and *)
(* its term, whatever the clock does: the row lock of                      *)
(* RequireShopWorkerFenceTx keeps a successor out until the commit.        *)
OwnedUntilCommit ==
    \A n \in Nodes, j \in Jobs : job[<<n, j>>].at = "writing" =>
        /\ lease.holder = n
        /\ lease.fence = job[<<n, j>>].fence
        /\ node[n].term = lease.fence

(* A job that runs works with the fence of the term that started it, even  *)
(* when the process lost the lease and acquired it again.                  *)
CapturedOwnTerm ==
    \A n \in Nodes, j \in Jobs :
        job[<<n, j>>].at \in {"fenced", "writing"} => job[<<n, j>>].fence = node[n].term

(* Writes of an earlier term never follow writes of a later one: a leader  *)
(* that was paused past its TTL cannot overwrite its successor's work.     *)
WritesFollowTerms == [][written <= written']_vars

(* Every fenced transaction, from its check of the row to its commit, is   *)
(* one write of the latest term by the process that serves it              *)
(* (RequireShopWorkerFenceTx, RequireImageWorkerFenceTx, TryAcquire).      *)
Terms == INSTANCE FencedTerms WITH
    NoOwner <- NoHolder, latest <- lease.fence, owner <- lease.holder,
    serving <- [n \in Nodes |-> node[n].term]

WritesAreFenced == Terms!TSpec

(* Only a term has a fence and jobs, the holder in a term has the fence of *)
(* the row, and a process releases after its flush.                        *)
TermShape ==
    \A n \in Nodes :
        /\ node[n].term > 0 <=> node[n].at \in InTerm
        /\ lease.holder = n /\ node[n].term > 0 => node[n].term = lease.fence
        /\ node[n].at = "releasing" => node[n].flushed
        /\ \A j \in Jobs :
            job[<<n, j>>].at # "none" => node[n].at \in {"leading", "lost", "draining"}

(* The inductive invariant of the lease, its terms and their jobs.         *)
LeaseInv ==
    /\ TypeOK
    /\ FenceNamesOneTerm /\ OwnedUntilCommit /\ CapturedOwnTerm /\ TermShape
    /\ written <= lease.fence
    /\ lease.holder # NoHolder => lease.fence > 0

(* A lease that is given up was given up by the process that held it, with *)
(* all its jobs ended and its shutdown jobs run (runLeadershipTerm's order *)
(* and Release's holder test).                                             *)
HandoverIsClean ==
    [][lease.holder # NoHolder /\ lease'.holder = NoHolder =>
          /\ node[lease.holder].flushed
          /\ \A j \in Jobs : job[<<lease.holder, j>>].at = "none"]_vars

(* A process doing the work of a leader job.                               *)
Busy(n) ==
    node[n].at = "flushing" \/ \E j \in Jobs : job[<<n, j>>].at \in Active

(* When leaders renew in time and cancelled jobs end within the TTL, the   *)
(* global write jobs of two processes never run at once, also those that   *)
(* use no fence.                                                           *)
OneLeaderRunsJobs == \A m, n \in Nodes : Busy(m) /\ Busy(n) => m = n

(* As long as some started process wants to lead, there is a leader again  *)
(* and again: no lost answer, crash or failed release leaves the lease     *)
(* behind for good.                                                        *)
LeaderReturns ==
    []<>((\E n \in Nodes : node[n].at = "leading")
            \/ \A n \in Nodes : Ended(n) \/ node[n].stop)

(* A process asked to stop ends.                                           *)
StopEnds == \A n \in Nodes : node[n].stop ~> Ended(n)

=============================================================================
