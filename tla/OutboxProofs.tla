---------------------------- MODULE OutboxProofs ----------------------------
(***************************************************************************)
(* Proofs about Outbox.  OutboxInv is inductive: one lemma per way a step  *)
(* can change the state (ClaimTakes, FinalizeDelivers, WorkerLeaves, ...), *)
(* then one per action, then the theorems.                                 *)
(***************************************************************************)
EXTENDS Outbox, TLAPS

(* Sanitizing a marker again changes nothing. *)
LEMMA SanitizedMarker ==
    /\ \A m \in Marker : Sanitized(m) \in Marker /\ Sanitized(Sanitized(m)) = Sanitized(m)
    /\ Sanitized(NoKey) = NoKey
    /\ \A m \in Marker : m \notin Redacted => Sanitized(m) = m
BY OutboxAssumption DEF Sanitized, Marker

(* The writes to a row give a row. *)
LEMMA RowTypes ==
    ASSUME NEW r \in Row
    PROVE  /\ \A b \in BOOLEAN : [r EXCEPT !.available = b] \in Row
           /\ \A b \in BOOLEAN : [r EXCEPT !.stale = b] \in Row
           /\ \A f \in Nat : Lock(r, f) \in Row
           /\ Unlock(r) \in Row
           /\ \A f \in Nat : Delivered(r, f) \in Row
           /\ \A m \in Marker : Deferred(r, m) \in Row
           /\ \A n \in Nat, m \in Marker, o \in {"failed", "permanent"} : Failed(r, n, m, o) \in Row
           /\ \A key \in RedriveKeys : Redriven(r, key) \in Row
<1>1. \A key \in RedriveKeys : Sanitized(key) \in Marker
    BY SanitizedMarker DEF Marker
<1>2. QED
    BY <1>1, SanitizedMarker DEF Row, Lock, Unlock, Delivered, Deferred, Failed, Redriven, FailureAudit, NoFence

(* The moves of a worker give a worker. *)
LEMMA WorkTypes ==
    ASSUME NEW s \in Work
    PROVE  /\ Idle \in Work /\ Stopped \in Work /\ Through(s) \in {Idle, Stopped}
           /\ \A at \in {"idle", "stopped", "claiming"} \cup Holding : [s EXCEPT !.at = at] \in Work
           /\ [s EXCEPT !.lost = TRUE] \in Work
           /\ [s EXCEPT !.cancelled = TRUE] \in Work
           /\ \A e \in Events, n \in Nat, m \in Marker :
                 [s EXCEPT !.at = "claiming", !.event = e, !.attempts = n, !.marker = m] \in Work
           /\ \A f \in Nat : [s EXCEPT !.at = "claimed", !.fence = f] \in Work
           /\ \A result \in Results : [s EXCEPT !.at = "returned", !.outcome = HandlerError(result)] \in Work
BY ZenonT(60) DEF Work, Marker, Idle, Stopped, Through, NoEvent, NoFence, Holding, HandlerError, Results

(* A worker stops working on its event without writing the row. *)
LEMMA WorkerLeaves ==
    ASSUME OutboxInv,
           NEW u \in Workers,
           NEW s \in {Idle, Stopped},
           work' = [work EXCEPT ![u] = s],
           faults' \in Nat,
           crashes' \in Nat,
           UNCHANGED <<row, fences, ok, expired, failed, redriven, defers, redrives>>
    PROVE  OutboxInv'
<1> USE OutboxAssumption
<1>a. work[u] \in Work /\ row \in [Events -> Row] /\ work \in [Workers -> Work]
    BY DEF OutboxInv, TypeOK
<1>b. \A w \in Workers : work'[w].at \in Holding => work'[w] = work[w]
    BY <1>a DEF Holding, Idle, Stopped
<1>1. TypeOK'
  <2>1. row' \in [Events -> Row]
    BY <1>a
  <2>2. work' \in [Workers -> Work]
    BY <1>a, WorkTypes
  <2>3. \A w \in Workers : work'[w].at \notin {"idle", "stopped"} => work'[w].event \in Events
    BY <1>a DEF OutboxInv, TypeOK, Work, Holding, Idle, Stopped
  <2>4. QED  BY <2>1, <2>2, <2>3 DEF OutboxInv, TypeOK
<1>2. FencesInv'
    BY <1>b DEF OutboxInv, FencesInv
<1>3. LocksInv'
    BY <1>b DEF OutboxInv, LocksInv
<1>4. SuccessInv'
    BY <1>b DEF OutboxInv, SuccessInv
<1>5. OrderInv'
    BY <1>a DEF OutboxInv, OrderInv, TypeOK, Row, Work, Holding, Predecessors, Idle, Stopped, NoFence, NoEvent
<1>6. BudgetInv'
    BY <1>a DEF OutboxInv, BudgetInv, LocksInv, FencesInv, TypeOK, Row, Work, Holding, Idle, Stopped, NoFence, NoEvent
<1>7. DeliveredMeansHandled'
    BY <1>a DEF OutboxInv, DeliveredMeansHandled, SuccessInv, TypeOK, Row, Work, Holding, Idle, Stopped, NoFence, NoEvent
<1>8. FailureBudget'
    BY <1>a DEF OutboxInv, FailureBudget, BudgetInv, LocksInv, TypeOK, Row, Work, Holding, Idle, Stopped, NoFence, NoEvent
<1>9. QED  BY <1>1, <1>2, <1>3, <1>4, <1>5, <1>6, <1>7, <1>8 DEF OutboxInv

(* A claim sets a new fence. *)
LEMMA ClaimTakes ==
    ASSUME OutboxInv,
           NEW u \in Workers,
           work[u].at = "claiming",
           MayLock(work[u].event),
           fences' = fences + 1,
           row' = [row EXCEPT ![work[u].event] = Lock(@, fences + 1)],
           expired' = IF row[work[u].event].stale THEN [expired EXCEPT ![work[u].event] = @ \cup {row[work[u].event].lock}] ELSE expired,
           work' = [work EXCEPT ![u] = [@ EXCEPT !.at = "claimed", !.fence = fences + 1]],
           UNCHANGED <<ok, failed, redriven, defers, faults, crashes, redrives>>
    PROVE  OutboxInv'
<1> USE OutboxAssumption
<1>a. work[u] \in Work /\ row \in [Events -> Row] /\ work \in [Workers -> Work]
    BY DEF OutboxInv, TypeOK
<1>b. work[u].event \in Events /\ row[work[u].event] \in Row
    BY <1>a DEF OutboxInv, TypeOK, Holding
<1>1. TypeOK'
  <2>1. row' \in [Events -> Row]
    <3>1. fences + 1 \in Nat  BY DEF OutboxInv, TypeOK
    <3>2. QED  BY <1>a, <1>b, <3>1, RowTypes
  <2>2. work' \in [Workers -> Work]
    <3>1. fences + 1 \in Nat  BY DEF OutboxInv, TypeOK
    <3>2. QED  BY <1>a, <3>1, WorkTypes
  <2>3. \A w \in Workers : work'[w].at \notin {"idle", "stopped"} => work'[w].event \in Events
    BY <1>a, <1>b DEF OutboxInv, TypeOK, Work, Holding, Idle, Stopped
  <2>4. expired' \in [Events -> SUBSET Nat]
    BY <1>b DEF OutboxInv, TypeOK, Row
  <2>5. QED  BY <2>1, <2>2, <2>3, <2>4 DEF OutboxInv, TypeOK
<1>2. FencesInv'
    BY <1>a, <1>b DEF OutboxInv, FencesInv, TypeOK, Row, Work, Holding, MayLock, Unlocked, Lock, NoFence
<1>3. LocksInv'
  <2>1. \A e \in Events :
          /\ row'[e].status = row[e].status /\ row'[e].by = row[e].by
          /\ row'[e].lock = IF e = work[u].event THEN fences + 1 ELSE row[e].lock
    BY <1>a, <1>b DEF Row, Lock
  <2>2. /\ work'[u].event = work[u].event /\ work'[u].fence = fences + 1
        /\ \A w \in Workers \ {u} : work'[w] = work[w]
    BY <1>a DEF Work
  <2>3. row[work[u].event].status = "pending" /\ (row[work[u].event].lock = NoFence \/ row[work[u].event].stale)
    BY DEF MayLock, Unlocked
  <2>4. \A e \in Events : /\ row'[e].lock # NoFence => row'[e].status = "pending"
                          /\ row'[e].by # NoFence => row'[e].status = "delivered"
    BY <2>1, <2>3 DEF OutboxInv, LocksInv
  <2>5. ASSUME NEW w \in Workers, work'[w].at \in Holding
        PROVE  /\ \A e \in Events : row'[e].lock = work'[w].fence => e = work'[w].event
               /\ row'[work'[w].event].lock = work'[w].fence \/ work'[w].fence \in expired'[work'[w].event]
    <3>1. CASE w = u
      BY <1>b, <2>1, <2>2, <3>1 DEF OutboxInv, FencesInv, TypeOK, Row
    <3>2. CASE w # u
      <4>1. work'[w] = work[w] /\ work[w].event \in Events /\ work[w].fence \in Nat
        BY <1>a, <2>2, <2>5, <3>2 DEF OutboxInv, TypeOK, Holding, Work
      <4>6. 0 < work[w].fence /\ work[w].fence <= fences /\ fences \in Nat
        BY <2>5, <4>1 DEF OutboxInv, FencesInv, TypeOK
      <4>2. 0 < work[w].fence /\ work[w].fence # fences + 1
        BY <4>1, <4>6
      <4>3. /\ \A e \in Events : row[e].lock = work[w].fence => e = work[w].event
            /\ row[work[w].event].lock = work[w].fence \/ work[w].fence \in expired[work[w].event]
        BY <2>5, <4>1 DEF OutboxInv, LocksInv
      <4>4. work[w].event = work[u].event /\ row[work[w].event].lock = work[w].fence
              => work[w].fence \in expired'[work[w].event]
        BY <1>b, <2>3, <4>2 DEF OutboxInv, TypeOK, NoFence
      <4>5. \A e \in Events : expired[e] \subseteq expired'[e]
        BY <1>b DEF OutboxInv, TypeOK
      <4>7. \A e \in Events : row'[e].lock = work[w].fence => row[e].lock = work[w].fence
        BY <2>1, <4>2
      <4>8. CASE row[work[w].event].lock = work[w].fence
        BY ZenonT(60), <2>1, <4>1, <4>3, <4>4, <4>7, <4>8
      <4>9. CASE work[w].fence \in expired[work[w].event]
        BY <4>1, <4>3, <4>5, <4>7, <4>9
      <4> QED  BY <4>3, <4>8, <4>9
    <3> QED  BY <3>1, <3>2
  <2> QED  BY <2>4, <2>5 DEF LocksInv
<1>4. SuccessInv'
    BY <1>a, <1>b DEF OutboxInv, SuccessInv, LocksInv, FencesInv, TypeOK, Row, Work, Holding, NoFence, MayLock, Unlocked, Lock
<1>5. OrderInv'
    BY <1>a, <1>b DEF OutboxInv, OrderInv, TypeOK, Row, Work, Holding, Predecessors, MayLock, Unlocked, Lock, NoFence
<1>6. BudgetInv'
    BY SMTT(60), <1>a, <1>b DEF OutboxInv, BudgetInv, LocksInv, FencesInv, TypeOK, Row, Work, Holding, MayLock, Unlocked, Lock, NoFence
<1>7. DeliveredMeansHandled'
    BY <1>a, <1>b DEF OutboxInv, DeliveredMeansHandled, SuccessInv, TypeOK, Row, Work, Holding, MayLock, Unlocked, Lock, NoFence
<1>8. FailureBudget'
    BY <1>a, <1>b DEF OutboxInv, FailureBudget, BudgetInv, LocksInv, TypeOK, Row, Work, Holding, MayLock, Unlocked, Lock, NoFence
<1>9. QED  BY <1>1, <1>2, <1>3, <1>4, <1>5, <1>6, <1>7, <1>8 DEF OutboxInv

(* The heartbeat renews the lock. *)
LEMMA HeartbeatRenews ==
    ASSUME OutboxInv,
           NEW u \in Workers,
           work[u].at \in Holding,
           Fenced(u),
           row' = [row EXCEPT ![work[u].event].stale = FALSE],
           UNCHANGED <<work, fences, ok, expired, failed, redriven, defers, faults, crashes, redrives>>
    PROVE  OutboxInv'
<1> USE OutboxAssumption
<1>a. work[u] \in Work /\ row \in [Events -> Row] /\ work \in [Workers -> Work]
    BY DEF OutboxInv, TypeOK
<1>b. work[u].event \in Events /\ row[work[u].event] \in Row
    BY <1>a DEF OutboxInv, TypeOK, Holding
<1>1. TypeOK'
  <2>1. row' \in [Events -> Row]
    BY <1>a, <1>b, RowTypes
  <2>2. work' \in [Workers -> Work]
    BY <1>a
  <2>3. \A w \in Workers : work'[w].at \notin {"idle", "stopped"} => work'[w].event \in Events
    BY <1>a, <1>b DEF OutboxInv, TypeOK, Work, Holding, Idle, Stopped
  <2>4. QED  BY <2>1, <2>2, <2>3 DEF OutboxInv, TypeOK
<1>2. FencesInv'
    BY <1>a, <1>b DEF OutboxInv, FencesInv, TypeOK, Row, Work, Holding, Fenced
<1>3. LocksInv'
    BY <1>a, <1>b DEF OutboxInv, LocksInv, FencesInv, TypeOK, Row, Work, Holding, NoFence, Fenced
<1>4. SuccessInv'
    BY <1>a, <1>b DEF OutboxInv, SuccessInv, LocksInv, FencesInv, TypeOK, Row, Work, Holding, NoFence, Fenced
<1>5. OrderInv'
    BY <1>a, <1>b DEF OutboxInv, OrderInv, TypeOK, Row, Work, Holding, Predecessors, Fenced
<1>6. BudgetInv'
    BY <1>a, <1>b DEF OutboxInv, BudgetInv, LocksInv, FencesInv, TypeOK, Row, Work, Holding, Fenced
<1>7. DeliveredMeansHandled'
    BY <1>a, <1>b DEF OutboxInv, DeliveredMeansHandled, SuccessInv, TypeOK, Row, Work, Holding, Fenced
<1>8. FailureBudget'
    BY <1>a, <1>b DEF OutboxInv, FailureBudget, BudgetInv, LocksInv, TypeOK, Row, Work, Holding, Fenced
<1>9. QED  BY <1>1, <1>2, <1>3, <1>4, <1>5, <1>6, <1>7, <1>8 DEF OutboxInv

(* The heartbeat reports the lock lost. *)
LEMMA HeartbeatLoses ==
    ASSUME OutboxInv,
           NEW u \in Workers,
           work[u].at \in Holding,
           work' = [work EXCEPT ![u].lost = TRUE],
           faults' \in Nat,
           UNCHANGED <<row, fences, ok, expired, failed, redriven, defers, crashes, redrives>>
    PROVE  OutboxInv'
<1> USE OutboxAssumption
<1>a. work[u] \in Work /\ row \in [Events -> Row] /\ work \in [Workers -> Work]
    BY DEF OutboxInv, TypeOK
<1>1. TypeOK'
  <2>1. row' \in [Events -> Row]
    BY <1>a
  <2>2. work' \in [Workers -> Work]
    BY <1>a, WorkTypes
  <2>3. \A w \in Workers : work'[w].at \notin {"idle", "stopped"} => work'[w].event \in Events
    BY <1>a DEF OutboxInv, TypeOK, Work, Holding, Idle, Stopped
  <2>4. QED  BY <2>1, <2>2, <2>3 DEF OutboxInv, TypeOK
<1>2. FencesInv'
    BY <1>a DEF OutboxInv, FencesInv, TypeOK, Row, Work, Holding
<1>3. LocksInv'
    BY <1>a DEF OutboxInv, LocksInv, FencesInv, TypeOK, Row, Work, Holding, NoFence
<1>4. SuccessInv'
    BY <1>a DEF OutboxInv, SuccessInv, LocksInv, FencesInv, TypeOK, Row, Work, Holding, NoFence
<1>5. OrderInv'
    BY <1>a DEF OutboxInv, OrderInv, TypeOK, Row, Work, Holding, Predecessors
<1>6. BudgetInv'
    BY <1>a DEF OutboxInv, BudgetInv, LocksInv, FencesInv, TypeOK, Row, Work, Holding
<1>7. DeliveredMeansHandled'
    BY <1>a DEF OutboxInv, DeliveredMeansHandled, SuccessInv, TypeOK, Row, Work, Holding
<1>8. FailureBudget'
    BY <1>a DEF OutboxInv, FailureBudget, BudgetInv, LocksInv, TypeOK, Row, Work, Holding
<1>9. QED  BY <1>1, <1>2, <1>3, <1>4, <1>5, <1>6, <1>7, <1>8 DEF OutboxInv

(* A worker gives up its lock: what claims and markers say stays true when  *)
(* the attempts and the markers stay.                                      *)
LEMMA BudgetAfterUnlock ==
    ASSUME TypeOK, BudgetInv, FencesInv,
           NEW u \in Workers,
           NEW x \in Events,
           RowFree(u, x),
           redriven' = redriven,
           \A e \in Events : row'[e].attempts = row[e].attempts /\ row'[e].marker = row[e].marker,
           \A e \in Events \ {x} : row'[e] = row[e],
           row'[x].status # "absent" /\ row'[x].lock = NoFence,
           \A w \in Workers \ {u} : work'[w] = work[w],
           work'[u].at \in {"idle", "stopped"}
    PROVE  BudgetInv'
<1>1. \A e \in Events : row'[e].status = "absent" =>
          row'[e].attempts = 0 /\ row'[e].marker = NoKey /\ redriven'[e] = NoKey
    BY DEF BudgetInv
<1>2. ASSUME RowLocks, NEW w \in Workers, work'[w].at = "claiming"
      PROVE  LET r == row'[work'[w].event]
             IN  r.status = "pending" /\ r.available
                 /\ r.attempts = work'[w].attempts /\ r.marker = work'[w].marker
  <2>1. w # u /\ work'[w] = work[w] /\ work[w].event \in Events
    BY <1>2 DEF TypeOK
  <2>2. work[w].event # x
    BY <1>2, <2>1 DEF RowFree
  <2> QED  BY <1>2, <2>1, <2>2 DEF BudgetInv
<1>3. ASSUME RowLocks, NEW w \in Workers, NEW v \in Workers, work'[w].at = "claiming",
             work'[v].at = "claiming", work'[w].event = work'[v].event
      PROVE  w = v
  <2>1. work'[w] = work[w] /\ work'[v] = work[v]
    BY <1>3
  <2> QED  BY <1>3, <2>1 DEF BudgetInv
<1>4. ASSUME RowLocks, NEW w \in Workers, work'[w].at \in Holding,
             row'[work'[w].event].lock = work'[w].fence
      PROVE  row'[work'[w].event].attempts = work'[w].attempts /\ row'[work'[w].event].marker = work'[w].marker
  <2>1. w # u /\ work'[w] = work[w] /\ work[w].event \in Events
    BY <1>4 DEF TypeOK, Holding
  <2>2. work[w].event # x
    BY <1>4, <2>1 DEF FencesInv, NoFence
  <2> QED  BY <1>4, <2>1, <2>2 DEF BudgetInv
<1>5. RowLocks => \A e \in Events : row'[e].marker = Sanitized(redriven'[e])
    BY DEF BudgetInv
<1> QED  BY <1>1, <1>2, <1>3, <1>4, <1>5 DEF BudgetInv, Sanitized

(* An unstarted claim is released. *)
LEMMA ReleaseUnlocks ==
    ASSUME OutboxInv,
           NEW u \in Workers,
           work[u].at = "releasing",
           Fenced(u),
           RowFree(u, work[u].event),
           NEW s \in {Idle, Stopped},
           work' = [work EXCEPT ![u] = s],
           row' = [row EXCEPT ![work[u].event] = [Unlock(@) EXCEPT !.available = FALSE]],
           UNCHANGED <<fences, ok, expired, failed, redriven, defers, faults, crashes, redrives>>
    PROVE  OutboxInv'
<1> USE OutboxAssumption
<1>a. work[u] \in Work /\ row \in [Events -> Row] /\ work \in [Workers -> Work]
    BY DEF OutboxInv, TypeOK
<1>b. work[u].event \in Events /\ row[work[u].event] \in Row
    BY <1>a DEF OutboxInv, TypeOK, Holding
<1>1. TypeOK'
  <2>1. row' \in [Events -> Row]
    <3>1. [Unlock(row[work[u].event]) EXCEPT !.available = FALSE] \in Row  BY <1>b, RowTypes
    <3>2. QED  BY <1>a, <1>b, <3>1
  <2>2. work' \in [Workers -> Work]
    BY <1>a, WorkTypes
  <2>3. \A w \in Workers : work'[w].at \notin {"idle", "stopped"} => work'[w].event \in Events
    BY <1>a, <1>b DEF OutboxInv, TypeOK, Work, Holding, Idle, Stopped
  <2>4. QED  BY <2>1, <2>2, <2>3 DEF OutboxInv, TypeOK
<1>2. FencesInv'
    BY <1>a, <1>b DEF OutboxInv, FencesInv, TypeOK, Row, Work, Holding, Fenced, RowFree, Unlock, Idle, Stopped, NoFence, NoEvent
<1>3. LocksInv'
  <2>1. \A e \in Events :
          /\ row'[e].by = row[e].by
          /\ e # work[u].event => row'[e].status = row[e].status /\ row'[e].lock = row[e].lock
          /\ e = work[u].event => row'[e].status = "pending" /\ row'[e].lock = NoFence
    BY <1>a, <1>b DEF Row, Unlock, Fenced
  <2>2. work'[u].at \notin Holding /\ \A w \in Workers \ {u} : work'[w] = work[w]
    BY <1>a DEF Idle, Stopped, Holding
  <2>3. row[work[u].event].status = "pending" /\ row[work[u].event].lock = work[u].fence
    BY DEF Fenced
  <2>4. \A e \in Events : /\ row'[e].lock # NoFence => row'[e].status = "pending"
                          /\ row'[e].by # NoFence => row'[e].status = "delivered"
    BY <2>1, <2>3 DEF OutboxInv, LocksInv
  <2>5. ASSUME NEW w \in Workers, work'[w].at \in Holding
        PROVE  /\ \A e \in Events : row'[e].lock = work'[w].fence => e = work'[w].event
               /\ row'[work'[w].event].lock = work'[w].fence \/ work'[w].fence \in expired'[work'[w].event]
    <3>1. w # u /\ work'[w] = work[w] /\ work[w].event \in Events
      BY <2>2, <2>5 DEF OutboxInv, TypeOK, Holding
    <3>2. 0 < work[w].fence /\ work[w].fence # work[u].fence
      BY <2>5, <3>1 DEF OutboxInv, FencesInv, Holding
    <3>3. /\ \A e \in Events : row[e].lock = work[w].fence => e = work[w].event
          /\ row[work[w].event].lock = work[w].fence \/ work[w].fence \in expired[work[w].event]
      BY <2>5, <3>1 DEF OutboxInv, LocksInv
    <3> QED  BY <2>1, <2>3, <3>1, <3>2, <3>3 DEF NoFence
  <2> QED  BY <2>4, <2>5 DEF LocksInv
<1>4. SuccessInv'
    BY <1>a, <1>b DEF OutboxInv, SuccessInv, LocksInv, FencesInv, TypeOK, Row, Work, Holding, NoFence, Fenced, RowFree, Unlock, Idle, Stopped, NoEvent
<1>5. OrderInv'
    BY <1>a, <1>b DEF OutboxInv, OrderInv, TypeOK, Row, Work, Holding, Predecessors, Fenced, RowFree, Unlock, Idle, Stopped, NoFence, NoEvent
<1>6. BudgetInv'
  <2>1. /\ \A e \in Events : row'[e].attempts = row[e].attempts /\ row'[e].marker = row[e].marker
        /\ \A e \in Events \ {work[u].event} : row'[e] = row[e]
        /\ row'[work[u].event].status # "absent" /\ row'[work[u].event].lock = NoFence
    BY <1>a, <1>b DEF Row, Unlock, Fenced, NoFence
  <2>2. work'[u].at \in {"idle", "stopped"} /\ \A w \in Workers \ {u} : work'[w] = work[w]
    BY <1>a DEF Idle, Stopped
  <2> QED  BY <1>b, <2>1, <2>2, BudgetAfterUnlock DEF OutboxInv
<1>7. DeliveredMeansHandled'
    BY <1>a, <1>b DEF OutboxInv, DeliveredMeansHandled, SuccessInv, TypeOK, Row, Work, Holding, Fenced, RowFree, Unlock, Idle, Stopped, NoFence, NoEvent
<1>8. FailureBudget'
    BY <1>a, <1>b DEF OutboxInv, FailureBudget, BudgetInv, LocksInv, TypeOK, Row, Work, Holding, Fenced, RowFree, Unlock, Idle, Stopped, NoFence, NoEvent
<1>9. QED  BY <1>1, <1>2, <1>3, <1>4, <1>5, <1>6, <1>7, <1>8 DEF OutboxInv

(* markDelivered. *)
LEMMA FinalizeDelivers ==
    ASSUME OutboxInv,
           NEW u \in Workers,
           work[u].at = "finalize",
           Fenced(u),
           RowFree(u, work[u].event),
           work[u].outcome = "ok",
           NEW s \in {Idle, Stopped},
           work' = [work EXCEPT ![u] = s],
           row' = [row EXCEPT ![work[u].event] = Delivered(@, work[u].fence)],
           UNCHANGED <<fences, ok, expired, failed, redriven, defers, faults, crashes, redrives>>
    PROVE  OutboxInv'
<1> USE OutboxAssumption
<1>a. work[u] \in Work /\ row \in [Events -> Row] /\ work \in [Workers -> Work]
    BY DEF OutboxInv, TypeOK
<1>b. work[u].event \in Events /\ row[work[u].event] \in Row
    BY <1>a DEF OutboxInv, TypeOK, Holding
<1>1. TypeOK'
  <2>1. row' \in [Events -> Row]
    <3>1. work[u].fence \in Nat  BY <1>a DEF Work
    <3>2. QED  BY <1>a, <1>b, <3>1, RowTypes
  <2>2. work' \in [Workers -> Work]
    BY <1>a, WorkTypes
  <2>3. \A w \in Workers : work'[w].at \notin {"idle", "stopped"} => work'[w].event \in Events
    BY <1>a, <1>b DEF OutboxInv, TypeOK, Work, Holding, Idle, Stopped
  <2>4. QED  BY <2>1, <2>2, <2>3 DEF OutboxInv, TypeOK
<1>2. FencesInv'
    BY <1>a, <1>b DEF OutboxInv, FencesInv, TypeOK, Row, Work, Holding, Fenced, RowFree, Unlock, Delivered, Idle, Stopped, NoFence, NoEvent
<1>3. LocksInv'
  <2>1. \A e \in Events :
          /\ row'[e].lock # NoFence => row'[e].status = "pending"
          /\ row'[e].by # NoFence => row'[e].status = "delivered"
    BY <1>a, <1>b DEF OutboxInv, LocksInv, Delivered, Unlock, Row, NoFence
  <2>2. \A w \in Workers \ {u} : work[w].at \in Holding => work[w].fence # work[u].fence
    BY <1>a DEF OutboxInv, FencesInv, Holding
  <2>3. ASSUME NEW w \in Workers, work'[w].at \in Holding
        PROVE  /\ \A e \in Events : row'[e].lock = work'[w].fence => e = work'[w].event
               /\ row'[work'[w].event].lock = work'[w].fence \/ work'[w].fence \in expired'[work'[w].event]
    <3>1. w # u /\ work'[w] = work[w]
      BY <1>a, <2>3 DEF Idle, Stopped, Holding
    <3>2. work[w].fence > 0 /\ work[w].event \in Events /\ row[work[u].event].lock = work[u].fence
      BY <2>3, <3>1 DEF OutboxInv, FencesInv, TypeOK, Holding, Fenced
    <3>3. \A e \in Events : row'[e].lock = IF e = work[u].event THEN 0 ELSE row[e].lock
      BY <1>a, <1>b DEF Delivered, Unlock, Row, NoFence
    <3>4. QED
      BY <2>2, <2>3, <3>1, <3>2, <3>3 DEF OutboxInv, LocksInv
  <2>4. QED  BY <2>1, <2>3 DEF LocksInv
<1>4. SuccessInv'
    BY <1>a, <1>b DEF OutboxInv, SuccessInv, LocksInv, FencesInv, TypeOK, Row, Work, Holding, NoFence, Fenced, RowFree, Unlock, Delivered, Idle, Stopped, NoEvent
<1>5. OrderInv'
    BY <1>a, <1>b DEF OutboxInv, OrderInv, TypeOK, Row, Work, Holding, Predecessors, Fenced, RowFree, Unlock, Delivered, Idle, Stopped, NoFence, NoEvent
<1>6. BudgetInv'
  <2>1. /\ \A e \in Events : row'[e].attempts = row[e].attempts /\ row'[e].marker = row[e].marker
        /\ \A e \in Events \ {work[u].event} : row'[e] = row[e]
        /\ row'[work[u].event].status # "absent" /\ row'[work[u].event].lock = NoFence
    BY <1>a, <1>b DEF Row, Unlock, Fenced, NoFence, Delivered
  <2>2. work'[u].at \in {"idle", "stopped"} /\ \A w \in Workers \ {u} : work'[w] = work[w]
    BY <1>a DEF Idle, Stopped
  <2> QED  BY <1>b, <2>1, <2>2, BudgetAfterUnlock DEF OutboxInv
<1>7. DeliveredMeansHandled'
    BY <1>a, <1>b DEF OutboxInv, DeliveredMeansHandled, SuccessInv, TypeOK, Row, Work, Holding, Fenced, RowFree, Unlock, Delivered, Idle, Stopped, NoFence, NoEvent
<1>8. FailureBudget'
    BY <1>a, <1>b DEF OutboxInv, FailureBudget, BudgetInv, LocksInv, TypeOK, Row, Work, Holding, Fenced, RowFree, Unlock, Delivered, Idle, Stopped, NoFence, NoEvent
<1>9. QED  BY <1>1, <1>2, <1>3, <1>4, <1>5, <1>6, <1>7, <1>8 DEF OutboxInv

(* markDeferred. *)
LEMMA FinalizeDefers ==
    ASSUME OutboxInv,
           NEW u \in Workers,
           work[u].at = "finalize",
           Fenced(u),
           RowFree(u, work[u].event),
           work[u].outcome = "deferred",
           NEW s \in {Idle, Stopped},
           work' = [work EXCEPT ![u] = s],
           row' = [row EXCEPT ![work[u].event] = Deferred(@, work[u].marker)],
           UNCHANGED <<fences, ok, expired, failed, redriven, defers, faults, crashes, redrives>>
    PROVE  OutboxInv'
<1> USE OutboxAssumption
<1>a. work[u] \in Work /\ row \in [Events -> Row] /\ work \in [Workers -> Work]
    BY DEF OutboxInv, TypeOK
<1>b. work[u].event \in Events /\ row[work[u].event] \in Row
    BY <1>a DEF OutboxInv, TypeOK, Holding
<1>1. TypeOK'
  <2>1. row' \in [Events -> Row]
    BY <1>a, <1>b, RowTypes DEF Work
  <2>2. work' \in [Workers -> Work]
    BY <1>a, WorkTypes
  <2>3. \A w \in Workers : work'[w].at \notin {"idle", "stopped"} => work'[w].event \in Events
    BY <1>a, <1>b DEF OutboxInv, TypeOK, Work, Holding, Idle, Stopped
  <2>4. QED  BY <2>1, <2>2, <2>3 DEF OutboxInv, TypeOK
<1>2. FencesInv'
    BY <1>a, <1>b DEF OutboxInv, FencesInv, TypeOK, Row, Work, Holding, Fenced, RowFree, Unlock, Deferred, FailureAudit, Idle, Stopped, NoFence, NoEvent
<1>3. LocksInv'
    BY SMTT(30), <1>a, <1>b DEF OutboxInv, LocksInv, FencesInv, TypeOK, Row, Work, Holding, NoFence, Fenced, RowFree, Unlock, Deferred, FailureAudit, Idle, Stopped, NoEvent
<1>4. SuccessInv'
    BY <1>a, <1>b DEF OutboxInv, SuccessInv, LocksInv, FencesInv, TypeOK, Row, Work, Holding, NoFence, Fenced, RowFree, Unlock, Deferred, FailureAudit, Idle, Stopped, NoEvent
<1>5. OrderInv'
    BY <1>a, <1>b DEF OutboxInv, OrderInv, TypeOK, Row, Work, Holding, Predecessors, Fenced, RowFree, Unlock, Deferred, FailureAudit, Idle, Stopped, NoFence, NoEvent
<1>6. BudgetInv'
  <2>1. \A e \in Events : row'[e].status = "absent" =>
          row'[e].attempts = 0 /\ row'[e].marker = NoKey /\ redriven'[e] = NoKey
    BY <1>a, <1>b DEF OutboxInv, BudgetInv, TypeOK, Row, Work, Holding, Fenced, Unlock, Deferred, FailureAudit, Idle, Stopped, NoFence
  <2>5. ASSUME RowLocks, NEW e \in Events
        PROVE  row'[e].marker = Sanitized(redriven'[e])
    <3>1. CASE e # work[u].event
      BY <1>a, <2>5, <3>1 DEF OutboxInv, BudgetInv
    <3>2. CASE e = work[u].event
      <4>1. row[e].marker = work[u].marker /\ row[e].marker = Sanitized(redriven[e])
        BY <2>5, <3>2 DEF OutboxInv, BudgetInv, Fenced, Holding
      <4>2. redriven[e] \in Marker
        BY DEF OutboxInv, TypeOK, Marker
      <4>3. row'[e].marker = Sanitized(work[u].marker)
        BY <1>a, <1>b, <3>2 DEF Row, Unlock, Deferred, FailureAudit
      <4> QED
        BY <4>1, <4>2, <4>3, SanitizedMarker
    <3> QED
      BY <3>1, <3>2
  <2>2. ASSUME RowLocks, NEW w \in Workers, work'[w].at = "claiming"
        PROVE  LET r == row'[work'[w].event]
               IN  r.status = "pending" /\ r.available
                   /\ r.attempts = work'[w].attempts /\ r.marker = work'[w].marker
    <3>1. w # u /\ work'[w] = work[w]
      BY <1>a, <2>2 DEF Idle, Stopped
    <3>2. work[w].event # work[u].event
      BY <2>2, <3>1 DEF RowFree
    <3>3. work[w].event \in Events
      BY <2>2, <3>1 DEF OutboxInv, TypeOK
    <3> QED
      BY <1>a, <2>2, <3>1, <3>2, <3>3 DEF OutboxInv, BudgetInv
  <2>3. ASSUME RowLocks, NEW w \in Workers, NEW v \in Workers,
               work'[w].at = "claiming", work'[v].at = "claiming", work'[w].event = work'[v].event
        PROVE  w = v
    <3>1. w # u /\ v # u /\ work'[w] = work[w] /\ work'[v] = work[v]
      BY <1>a, <2>3 DEF Idle, Stopped
    <3> QED
      BY <2>3, <3>1 DEF OutboxInv, BudgetInv
  <2>4. ASSUME RowLocks, NEW w \in Workers, work'[w].at \in Holding,
               row'[work'[w].event].lock = work'[w].fence
        PROVE  LET r == row'[work'[w].event]
               IN  r.attempts = work'[w].attempts /\ r.marker = work'[w].marker
    <3>1. w # u /\ work'[w] = work[w] /\ work[w].at \in Holding /\ work[w].event \in Events
      BY <1>a, <2>4 DEF OutboxInv, TypeOK, Holding, Idle, Stopped
    <3>2. 0 < work[w].fence
      BY <3>1 DEF OutboxInv, FencesInv
    <3>3. work[w].event # work[u].event
      BY <1>a, <1>b, <2>4, <3>1, <3>2 DEF Row, Unlock, Deferred, FailureAudit, NoFence
    <3> QED
      BY <1>a, <2>4, <3>1, <3>3 DEF OutboxInv, BudgetInv
  <2> QED
    BY <2>1, <2>2, <2>3, <2>4, <2>5 DEF BudgetInv
<1>7. DeliveredMeansHandled'
    BY <1>a, <1>b DEF OutboxInv, DeliveredMeansHandled, SuccessInv, TypeOK, Row, Work, Holding, Fenced, RowFree, Unlock, Deferred, FailureAudit, Idle, Stopped, NoFence, NoEvent
<1>8. FailureBudget'
    BY <1>a, <1>b DEF OutboxInv, FailureBudget, BudgetInv, LocksInv, TypeOK, Row, Work, Holding, Fenced, RowFree, Unlock, Deferred, FailureAudit, Idle, Stopped, NoFence, NoEvent
<1>9. QED  BY <1>1, <1>2, <1>3, <1>4, <1>5, <1>6, <1>7, <1>8 DEF OutboxInv

(* markFailed. *)
LEMMA FinalizeFails ==
    ASSUME OutboxInv,
           NEW u \in Workers,
           work[u].at = "finalize",
           Fenced(u),
           RowFree(u, work[u].event),
           work[u].outcome \in {"failed", "permanent"},
           NEW s \in {Idle, Stopped},
           work' = [work EXCEPT ![u] = s],
           row' = [row EXCEPT ![work[u].event] = Failed(@, work[u].attempts + 1, work[u].marker, work[u].outcome)],
           failed' = [failed EXCEPT ![work[u].event] = @ + 1],
           UNCHANGED <<fences, ok, expired, redriven, defers, faults, crashes, redrives>>
    PROVE  OutboxInv'
<1> USE OutboxAssumption
<1>a. work[u] \in Work /\ row \in [Events -> Row] /\ work \in [Workers -> Work]
    BY DEF OutboxInv, TypeOK
<1>b. work[u].event \in Events /\ row[work[u].event] \in Row
    BY <1>a DEF OutboxInv, TypeOK, Holding
<1>1. TypeOK'
  <2>1. row' \in [Events -> Row]
    <3>1. work[u].attempts + 1 \in Nat /\ work[u].marker \in Marker  BY <1>a DEF Work
    <3>2. QED  BY <1>a, <1>b, <3>1, RowTypes
  <2>2. work' \in [Workers -> Work]
    BY <1>a, WorkTypes
  <2>3. \A w \in Workers : work'[w].at \notin {"idle", "stopped"} => work'[w].event \in Events
    BY <1>a, <1>b DEF OutboxInv, TypeOK, Work, Holding, Idle, Stopped
  <2>4. failed' \in [Events -> Nat]
    <3>1. failed \in [Events -> Nat]  BY DEF OutboxInv, TypeOK
    <3>2. \A e \in Events : failed[e] + 1 \in Nat  BY <3>1
    <3>3. QED  BY <1>b, <3>1, <3>2
  <2>5. QED  BY <2>1, <2>2, <2>3, <2>4 DEF OutboxInv, TypeOK
<1>2. FencesInv'
    BY <1>a, <1>b DEF OutboxInv, FencesInv, TypeOK, Row, Work, Holding, Fenced, RowFree, Unlock, Failed, IsDead, FailureAudit, Idle, Stopped, NoFence, NoEvent
<1>3. LocksInv'
    BY SMTT(30), <1>a, <1>b DEF OutboxInv, LocksInv, FencesInv, TypeOK, Row, Work, Holding, NoFence, Fenced, RowFree, Unlock, Failed, IsDead, FailureAudit, Idle, Stopped, NoEvent
<1>4. SuccessInv'
    BY <1>a, <1>b DEF OutboxInv, SuccessInv, LocksInv, FencesInv, TypeOK, Row, Work, Holding, NoFence, Fenced, RowFree, Unlock, Failed, IsDead, FailureAudit, Idle, Stopped, NoEvent
<1>5. OrderInv'
    BY <1>a, <1>b DEF OutboxInv, OrderInv, TypeOK, Row, Work, Holding, Predecessors, Fenced, RowFree, Unlock, Failed, IsDead, FailureAudit, Idle, Stopped, NoFence, NoEvent
<1>6. BudgetInv'
  <2>1. \A e \in Events : row'[e].status = "absent" =>
          row'[e].attempts = 0 /\ row'[e].marker = NoKey /\ redriven'[e] = NoKey
    BY <1>a, <1>b DEF OutboxInv, BudgetInv, TypeOK, Row, Work, Holding, Fenced, Unlock, Failed, IsDead, FailureAudit, Idle, Stopped, NoFence
  <2>5. ASSUME RowLocks, NEW e \in Events
        PROVE  row'[e].marker = Sanitized(redriven'[e])
    <3>1. CASE e # work[u].event
      BY <1>a, <2>5, <3>1 DEF OutboxInv, BudgetInv
    <3>2. CASE e = work[u].event
      <4>1. row[e].marker = work[u].marker /\ row[e].marker = Sanitized(redriven[e])
        BY <2>5, <3>2 DEF OutboxInv, BudgetInv, Fenced, Holding
      <4>2. redriven[e] \in Marker
        BY DEF OutboxInv, TypeOK, Marker
      <4>3. row'[e].marker = Sanitized(work[u].marker)
        BY <1>a, <1>b, <3>2 DEF Row, Unlock, Failed, IsDead, FailureAudit
      <4> QED
        BY <4>1, <4>2, <4>3, SanitizedMarker
    <3> QED
      BY <3>1, <3>2
  <2>2. ASSUME RowLocks, NEW w \in Workers, work'[w].at = "claiming"
        PROVE  LET r == row'[work'[w].event]
               IN  r.status = "pending" /\ r.available
                   /\ r.attempts = work'[w].attempts /\ r.marker = work'[w].marker
    <3>1. w # u /\ work'[w] = work[w]
      BY <1>a, <2>2 DEF Idle, Stopped
    <3>2. work[w].event # work[u].event
      BY <2>2, <3>1 DEF RowFree
    <3>3. work[w].event \in Events
      BY <2>2, <3>1 DEF OutboxInv, TypeOK
    <3> QED
      BY <1>a, <2>2, <3>1, <3>2, <3>3 DEF OutboxInv, BudgetInv
  <2>3. ASSUME RowLocks, NEW w \in Workers, NEW v \in Workers,
               work'[w].at = "claiming", work'[v].at = "claiming", work'[w].event = work'[v].event
        PROVE  w = v
    <3>1. w # u /\ v # u /\ work'[w] = work[w] /\ work'[v] = work[v]
      BY <1>a, <2>3 DEF Idle, Stopped
    <3> QED
      BY <2>3, <3>1 DEF OutboxInv, BudgetInv
  <2>4. ASSUME RowLocks, NEW w \in Workers, work'[w].at \in Holding,
               row'[work'[w].event].lock = work'[w].fence
        PROVE  LET r == row'[work'[w].event]
               IN  r.attempts = work'[w].attempts /\ r.marker = work'[w].marker
    <3>1. w # u /\ work'[w] = work[w] /\ work[w].at \in Holding /\ work[w].event \in Events
      BY <1>a, <2>4 DEF OutboxInv, TypeOK, Holding, Idle, Stopped
    <3>2. 0 < work[w].fence
      BY <3>1 DEF OutboxInv, FencesInv
    <3>3. work[w].event # work[u].event
      BY <1>a, <1>b, <2>4, <3>1, <3>2 DEF Row, Unlock, Failed, IsDead, FailureAudit, NoFence
    <3> QED
      BY <1>a, <2>4, <3>1, <3>3 DEF OutboxInv, BudgetInv
  <2> QED
    BY <2>1, <2>2, <2>3, <2>4, <2>5 DEF BudgetInv
<1>7. DeliveredMeansHandled'
    BY <1>a, <1>b DEF OutboxInv, DeliveredMeansHandled, SuccessInv, TypeOK, Row, Work, Holding, Fenced, RowFree, Unlock, Failed, IsDead, FailureAudit, Idle, Stopped, NoFence, NoEvent
<1>8. FailureBudget'
    BY SMTT(60), <1>a, <1>b DEF OutboxInv, FailureBudget, BudgetInv, LocksInv, TypeOK, Row, Work, Holding, Fenced, RowFree, Unlock, Failed, IsDead, FailureAudit, Idle, Stopped, NoFence, NoEvent
<1>9. QED  BY <1>1, <1>2, <1>3, <1>4, <1>5, <1>6, <1>7, <1>8 DEF OutboxInv

(* Enqueue. *)
LEMMA EnqueueKeeps ==
    ASSUME OutboxInv, NEW x \in Events, NEW available \in BOOLEAN, Enqueue(x, available)
    PROVE  OutboxInv'
<1> USE OutboxAssumption
<1>a. row \in [Events -> Row] /\ row[x] \in Row
    BY DEF OutboxInv, TypeOK
<1>1. TypeOK'
  <2>1. row' \in [Events -> Row]
    <3>1. [NewRow EXCEPT !.status = "pending", !.available = available] \in Row
      BY DEF Row, Marker, NewRow, NoFence
    <3>2. QED  BY <1>a, <3>1 DEF Enqueue
  <2>2. QED  BY <2>1 DEF OutboxInv, TypeOK, Enqueue
<1>2. FencesInv'
    BY <1>a DEF OutboxInv, FencesInv, TypeOK, Row, Work, Holding, Enqueue, NewRow, Predecessors, NoFence
<1>3. LocksInv'
    BY <1>a DEF OutboxInv, LocksInv, FencesInv, TypeOK, Row, Work, Holding, NoFence, Enqueue, NewRow, Predecessors
<1>4. SuccessInv'
    BY <1>a DEF OutboxInv, SuccessInv, LocksInv, FencesInv, TypeOK, Row, Work, Holding, NoFence, Enqueue, NewRow, Predecessors
<1>5. OrderInv'
    BY <1>a DEF OutboxInv, OrderInv, TypeOK, Row, Work, Holding, Predecessors, Enqueue, NewRow, NoFence
<1>6. BudgetInv'
    BY <1>a DEF OutboxInv, BudgetInv, LocksInv, FencesInv, TypeOK, Row, Work, Holding, Enqueue, NewRow, Predecessors, NoFence
<1>7. DeliveredMeansHandled'
    BY <1>a DEF OutboxInv, DeliveredMeansHandled, SuccessInv, TypeOK, Row, Work, Holding, Enqueue, NewRow, Predecessors, NoFence
<1>8. FailureBudget'
    BY <1>a DEF OutboxInv, FailureBudget, BudgetInv, LocksInv, TypeOK, Row, Work, Holding, Enqueue, NewRow, Predecessors, NoFence
<1>9. QED  BY <1>1, <1>2, <1>3, <1>4, <1>5, <1>6, <1>7, <1>8 DEF OutboxInv

(* BecomeAvailable. *)
LEMMA BecomeAvailableKeeps ==
    ASSUME OutboxInv, NEW x \in Events, BecomeAvailable(x)
    PROVE  OutboxInv'
<1> USE OutboxAssumption
<1>a. row \in [Events -> Row] /\ row[x] \in Row
    BY DEF OutboxInv, TypeOK
<1>1. TypeOK'
  <2>1. row' \in [Events -> Row]
    BY <1>a, RowTypes DEF BecomeAvailable
  <2>2. QED  BY <2>1 DEF OutboxInv, TypeOK, BecomeAvailable
<1>2. FencesInv'
    BY <1>a DEF OutboxInv, FencesInv, TypeOK, Row, Work, Holding, BecomeAvailable
<1>3. LocksInv'
    BY <1>a DEF OutboxInv, LocksInv, FencesInv, TypeOK, Row, Work, Holding, NoFence, BecomeAvailable
<1>4. SuccessInv'
    BY <1>a DEF OutboxInv, SuccessInv, LocksInv, FencesInv, TypeOK, Row, Work, Holding, NoFence, BecomeAvailable
<1>5. OrderInv'
    BY <1>a DEF OutboxInv, OrderInv, TypeOK, Row, Work, Holding, Predecessors, BecomeAvailable
<1>6. BudgetInv'
  <2>1. \A e \in Events :
          /\ row'[e].marker = row[e].marker /\ row'[e].status = row[e].status
          /\ row'[e].attempts = row[e].attempts /\ row'[e].lock = row[e].lock
          /\ row[e].available => row'[e].available
    BY <1>a DEF BecomeAvailable, Row
  <2>2. \A w \in Workers : work[w].at \notin {"idle", "stopped"} => work[w].event \in Events
    BY DEF OutboxInv, TypeOK
  <2>3. QED
    BY <2>1, <2>2 DEF BecomeAvailable, OutboxInv, BudgetInv, Holding
<1>7. DeliveredMeansHandled'
    BY <1>a DEF OutboxInv, DeliveredMeansHandled, SuccessInv, TypeOK, Row, Work, Holding, BecomeAvailable
<1>8. FailureBudget'
    BY <1>a DEF OutboxInv, FailureBudget, BudgetInv, LocksInv, TypeOK, Row, Work, Holding, BecomeAvailable
<1>9. QED  BY <1>1, <1>2, <1>3, <1>4, <1>5, <1>6, <1>7, <1>8 DEF OutboxInv

(* Expire. *)
LEMMA ExpireKeeps ==
    ASSUME OutboxInv, NEW x \in Events, Expire(x)
    PROVE  OutboxInv'
<1> USE OutboxAssumption
<1>a. row \in [Events -> Row] /\ row[x] \in Row
    BY DEF OutboxInv, TypeOK
<1>1. TypeOK'
  <2>1. row' \in [Events -> Row]
    BY <1>a, RowTypes DEF Expire
  <2>2. QED  BY <2>1 DEF OutboxInv, TypeOK, Expire
<1>2. FencesInv'
    BY <1>a DEF OutboxInv, FencesInv, TypeOK, Row, Work, Holding, Expire
<1>3. LocksInv'
    BY <1>a DEF OutboxInv, LocksInv, FencesInv, TypeOK, Row, Work, Holding, NoFence, Expire
<1>4. SuccessInv'
    BY <1>a DEF OutboxInv, SuccessInv, LocksInv, FencesInv, TypeOK, Row, Work, Holding, NoFence, Expire
<1>5. OrderInv'
    BY <1>a DEF OutboxInv, OrderInv, TypeOK, Row, Work, Holding, Predecessors, Expire
<1>6. BudgetInv'
    BY SMTT(30), <1>a DEF OutboxInv, BudgetInv, LocksInv, FencesInv, TypeOK, Row, Work, Holding, Expire
<1>7. DeliveredMeansHandled'
    BY <1>a DEF OutboxInv, DeliveredMeansHandled, SuccessInv, TypeOK, Row, Work, Holding, Expire
<1>8. FailureBudget'
    BY <1>a DEF OutboxInv, FailureBudget, BudgetInv, LocksInv, TypeOK, Row, Work, Holding, Expire
<1>9. QED  BY <1>1, <1>2, <1>3, <1>4, <1>5, <1>6, <1>7, <1>8 DEF OutboxInv

(* Redrive. *)
LEMMA RedriveKeeps ==
    ASSUME OutboxInv, NEW x \in Events, NEW key \in RedriveKeys, Redrive(x, key)
    PROVE  OutboxInv'
<1> USE OutboxAssumption
<1>a. row \in [Events -> Row] /\ row[x] \in Row
    BY DEF OutboxInv, TypeOK
<1>1. TypeOK'
  <2>1. row' \in [Events -> Row]
    BY <1>a, RowTypes DEF Redrive
  <2>2. failed' \in [Events -> Nat] /\ redriven' \in [Events -> RedriveKeys \cup {NoKey}] /\ redrives' \in Nat
    BY DEF OutboxInv, TypeOK, Redrive
  <2>3. QED  BY <2>1, <2>2 DEF OutboxInv, TypeOK, Redrive
<1>2. FencesInv'
    BY <1>a DEF OutboxInv, FencesInv, TypeOK, Row, Work, Holding, Redrive, MayRedrive, Redriven, Unlock, NoFence
<1>3. LocksInv'
  <2>1. \A e \in Events :
          /\ row'[e].by = row[e].by
          /\ e # x => row'[e].status = row[e].status /\ row'[e].lock = row[e].lock
          /\ e = x => row'[e].status = "pending" /\ row'[e].lock = NoFence
    BY <1>a DEF Redrive, Redriven, Row, Unlock
  <2>2. row[x].status = "dead" /\ work' = work /\ expired' = expired
    BY DEF Redrive, MayRedrive
  <2>3. \A e \in Events : /\ row'[e].lock # NoFence => row'[e].status = "pending"
                          /\ row'[e].by # NoFence => row'[e].status = "delivered"
    BY <2>1, <2>2 DEF OutboxInv, LocksInv
  <2>4. ASSUME NEW w \in Workers, work'[w].at \in Holding
        PROVE  /\ \A e \in Events : row'[e].lock = work'[w].fence => e = work'[w].event
               /\ row'[work'[w].event].lock = work'[w].fence \/ work'[w].fence \in expired'[work'[w].event]
    <3>1. 0 < work[w].fence /\ work[w].event \in Events
      BY <2>2, <2>4 DEF OutboxInv, FencesInv, TypeOK, Holding
    <3>2. /\ \A e \in Events : row[e].lock = work[w].fence => e = work[w].event
          /\ row[work[w].event].lock = work[w].fence \/ work[w].fence \in expired[work[w].event]
          /\ row[x].lock = NoFence
      BY <2>2, <2>4 DEF OutboxInv, LocksInv
    <3> QED  BY <2>1, <2>2, <3>1, <3>2 DEF NoFence
  <2> QED  BY <2>3, <2>4 DEF LocksInv
<1>4. SuccessInv'
    BY <1>a DEF OutboxInv, SuccessInv, LocksInv, FencesInv, TypeOK, Row, Work, Holding, NoFence, Redrive, MayRedrive, Redriven, Unlock
<1>5. OrderInv'
    BY <1>a DEF OutboxInv, OrderInv, TypeOK, Row, Work, Holding, Predecessors, Redrive, MayRedrive, Redriven, Unlock, NoFence
<1>6. BudgetInv'
  <2>1. \A e \in Events \ {x} : row'[e] = row[e] /\ redriven'[e] = redriven[e]
    BY <1>a DEF Redrive, OutboxInv, TypeOK
  <2>2. row'[x].marker = Sanitized(key) /\ redriven'[x] = key /\ row'[x].status = "pending" /\ row'[x].lock = NoFence
    BY <1>a DEF Redrive, Redriven, Unlock, Row, OutboxInv, TypeOK
  <2>3. \A w \in Workers : work[w].at \notin {"idle", "stopped"} => work[w].event \in Events
    BY DEF OutboxInv, TypeOK
  <2>4. \A w \in Workers : RowLocks /\ work[w].at = "claiming" => work[w].event # x
    BY DEF OutboxInv, BudgetInv, Redrive, MayRedrive
  <2>5. \A w \in Workers : work[w].at \in Holding => work[w].fence # NoFence
    BY DEF OutboxInv, FencesInv, NoFence
  <2>6. \A w \in Workers : work[w].at \in Holding => work[w].at \notin {"idle", "stopped"}
    BY DEF Holding
  <2>7. work' = work
    BY DEF Redrive
  <2>8. \A e \in Events :
          /\ RowLocks => row'[e].marker = Sanitized(redriven'[e])
          /\ row'[e].status = "absent" =>
                row'[e].attempts = 0 /\ row'[e].marker = NoKey /\ redriven'[e] = NoKey
    BY <2>1, <2>2 DEF OutboxInv, BudgetInv
  <2>9. ASSUME RowLocks, NEW w \in Workers, work'[w].at = "claiming"
        PROVE  row'[work'[w].event] = row[work[w].event]
    BY <2>1, <2>3, <2>4, <2>7, <2>9
  <2>10. ASSUME NEW w \in Workers, work'[w].at \in Holding, row'[work'[w].event].lock = work'[w].fence
         PROVE  row'[work'[w].event] = row[work[w].event]
    BY <2>1, <2>2, <2>3, <2>5, <2>6, <2>7, <2>10
  <2>11. QED
    BY <2>7, <2>8, <2>9, <2>10 DEF OutboxInv, BudgetInv
<1>7. DeliveredMeansHandled'
    BY <1>a DEF OutboxInv, DeliveredMeansHandled, SuccessInv, TypeOK, Row, Work, Holding, Redrive, MayRedrive, Redriven, Unlock, NoFence
<1>8. FailureBudget'
    BY <1>a DEF OutboxInv, FailureBudget, BudgetInv, LocksInv, TypeOK, Row, Work, Holding, Redrive, MayRedrive, Redriven, Unlock, NoFence
<1>9. QED  BY <1>1, <1>2, <1>3, <1>4, <1>5, <1>6, <1>7, <1>8 DEF OutboxInv

(* Select. *)
LEMMA SelectKeeps ==
    ASSUME OutboxInv, NEW u \in Workers, Select(u)
    PROVE  OutboxInv'
<1> USE OutboxAssumption
<1>a. work \in [Workers -> Work] /\ work[u] \in Work /\ row \in [Events -> Row]
    BY DEF OutboxInv, TypeOK
<1>1. TypeOK'
  <2>1. work' \in [Workers -> Work]
    <3>1. PICK e \in Events :
            work' = [work EXCEPT ![u] = [@ EXCEPT !.at = "claiming", !.event = e,
                                                  !.attempts = row[e].attempts, !.marker = row[e].marker]]
      BY DEF Select
    <3>2. row[e].attempts \in Nat /\ row[e].marker \in Marker  BY <1>a DEF Row
    <3>3. QED  BY <1>a, <3>1, <3>2, WorkTypes
  <2>2. \A w \in Workers : work'[w].at \notin {"idle", "stopped"} => work'[w].event \in Events
    BY <1>a DEF OutboxInv, TypeOK, Work, Holding, Select
  <2>3. QED  BY <2>1, <2>2 DEF OutboxInv, TypeOK, Select
<1>2. FencesInv'
    BY <1>a DEF OutboxInv, FencesInv, TypeOK, Row, Work, Holding, Select, Claimable, Unlocked, RowFree
<1>3. LocksInv'
    BY <1>a DEF OutboxInv, LocksInv, FencesInv, TypeOK, Row, Work, Holding, NoFence, Select, Claimable, Unlocked, RowFree
<1>4. SuccessInv'
    BY <1>a DEF OutboxInv, SuccessInv, LocksInv, FencesInv, TypeOK, Row, Work, Holding, NoFence, Select, Claimable, Unlocked, RowFree
<1>5. OrderInv'
    BY <1>a DEF OutboxInv, OrderInv, TypeOK, Row, Work, Holding, Predecessors, Select, Claimable, Unlocked, RowFree
<1>6. BudgetInv'
    BY <1>a DEF OutboxInv, BudgetInv, LocksInv, FencesInv, TypeOK, Row, Work, Holding, Select, Claimable, Unlocked, RowFree
<1>7. DeliveredMeansHandled'
    BY <1>a DEF OutboxInv, DeliveredMeansHandled, SuccessInv, TypeOK, Row, Work, Holding, Select, Claimable, Unlocked, RowFree
<1>8. FailureBudget'
    BY <1>a DEF OutboxInv, FailureBudget, BudgetInv, LocksInv, TypeOK, Row, Work, Holding, Select, Claimable, Unlocked, RowFree
<1>9. QED  BY <1>1, <1>2, <1>3, <1>4, <1>5, <1>6, <1>7, <1>8 DEF OutboxInv

(* CheckContext. *)
LEMMA CheckContextKeeps ==
    ASSUME OutboxInv, NEW u \in Workers, CheckContext(u)
    PROVE  OutboxInv'
<1> USE OutboxAssumption
<1>a. work \in [Workers -> Work] /\ work[u] \in Work /\ row \in [Events -> Row]
    BY DEF OutboxInv, TypeOK
<1>1. TypeOK'
  <2>1. work' \in [Workers -> Work]
    BY <1>a, WorkTypes DEF CheckContext, WorkerOnly, Holding
  <2>2. \A w \in Workers : work'[w].at \notin {"idle", "stopped"} => work'[w].event \in Events
    BY <1>a DEF OutboxInv, TypeOK, Work, Holding, CheckContext, WorkerOnly
  <2>3. QED  BY <2>1, <2>2 DEF OutboxInv, TypeOK, CheckContext, WorkerOnly
<1>2. FencesInv'
    BY <1>a DEF OutboxInv, FencesInv, TypeOK, Row, Work, Holding, CheckContext, WorkerOnly
<1>3. LocksInv'
    BY <1>a DEF OutboxInv, LocksInv, FencesInv, TypeOK, Row, Work, Holding, NoFence, CheckContext, WorkerOnly
<1>4. SuccessInv'
    BY <1>a DEF OutboxInv, SuccessInv, LocksInv, FencesInv, TypeOK, Row, Work, Holding, NoFence, CheckContext, WorkerOnly
<1>5. OrderInv'
    BY <1>a DEF OutboxInv, OrderInv, TypeOK, Row, Work, Holding, Predecessors, CheckContext, WorkerOnly
<1>6. BudgetInv'
    BY <1>a DEF OutboxInv, BudgetInv, LocksInv, FencesInv, TypeOK, Row, Work, Holding, CheckContext, WorkerOnly
<1>7. DeliveredMeansHandled'
    BY <1>a DEF OutboxInv, DeliveredMeansHandled, SuccessInv, TypeOK, Row, Work, Holding, CheckContext, WorkerOnly
<1>8. FailureBudget'
    BY <1>a DEF OutboxInv, FailureBudget, BudgetInv, LocksInv, TypeOK, Row, Work, Holding, CheckContext, WorkerOnly
<1>9. QED  BY <1>1, <1>2, <1>3, <1>4, <1>5, <1>6, <1>7, <1>8 DEF OutboxInv

(* Start. *)
LEMMA StartKeeps ==
    ASSUME OutboxInv, NEW u \in Workers, Start(u)
    PROVE  OutboxInv'
<1> USE OutboxAssumption
<1>a. work \in [Workers -> Work] /\ work[u] \in Work /\ row \in [Events -> Row]
    BY DEF OutboxInv, TypeOK
<1>1. TypeOK'
  <2>1. work' \in [Workers -> Work]
    BY <1>a, WorkTypes DEF Start, WorkerOnly, Holding
  <2>2. \A w \in Workers : work'[w].at \notin {"idle", "stopped"} => work'[w].event \in Events
    BY <1>a DEF OutboxInv, TypeOK, Work, Holding, Start, WorkerOnly
  <2>3. QED  BY <2>1, <2>2 DEF OutboxInv, TypeOK, Start, WorkerOnly
<1>2. FencesInv'
    BY <1>a DEF OutboxInv, FencesInv, TypeOK, Row, Work, Holding, Start, WorkerOnly
<1>3. LocksInv'
    BY <1>a DEF OutboxInv, LocksInv, FencesInv, TypeOK, Row, Work, Holding, NoFence, Start, WorkerOnly
<1>4. SuccessInv'
    BY <1>a DEF OutboxInv, SuccessInv, LocksInv, FencesInv, TypeOK, Row, Work, Holding, NoFence, Start, WorkerOnly
<1>5. OrderInv'
    BY ZenonT(40), <1>a DEF OutboxInv, OrderInv, TypeOK, Row, Work, Holding, Predecessors, Start, WorkerOnly
<1>6. BudgetInv'
  <2>1. \A w \in Workers :
          /\ work'[w].event = work[w].event /\ work'[w].fence = work[w].fence
          /\ work'[w].attempts = work[w].attempts /\ work'[w].marker = work[w].marker
          /\ work'[w].at = "claiming" => work[w].at = "claiming"
          /\ work'[w].at \in Holding => work[w].at \in Holding
    BY <1>a DEF Work, Holding, Start, WorkerOnly
  <2>2. row' = row /\ redriven' = redriven
    BY DEF Start, WorkerOnly
  <2> QED  BY <2>1, <2>2 DEF OutboxInv, BudgetInv
<1>7. DeliveredMeansHandled'
    BY <1>a DEF OutboxInv, DeliveredMeansHandled, SuccessInv, TypeOK, Row, Work, Holding, Start, WorkerOnly
<1>8. FailureBudget'
    BY <1>a DEF OutboxInv, FailureBudget, BudgetInv, LocksInv, TypeOK, Row, Work, Holding, Start, WorkerOnly
<1>9. QED  BY <1>1, <1>2, <1>3, <1>4, <1>5, <1>6, <1>7, <1>8 DEF OutboxInv

(* CancelUnstarted. *)
LEMMA CancelUnstartedKeeps ==
    ASSUME OutboxInv, NEW u \in Workers, CancelUnstarted(u)
    PROVE  OutboxInv'
<1> USE OutboxAssumption
<1>a. work \in [Workers -> Work] /\ work[u] \in Work /\ row \in [Events -> Row]
    BY DEF OutboxInv, TypeOK
<1>1. TypeOK'
  <2>1. work' \in [Workers -> Work]
    BY <1>a, WorkTypes DEF CancelUnstarted, WorkerOnly, Holding
  <2>2. \A w \in Workers : work'[w].at \notin {"idle", "stopped"} => work'[w].event \in Events
    BY <1>a DEF OutboxInv, TypeOK, Work, Holding, CancelUnstarted, WorkerOnly
  <2>3. QED  BY <2>1, <2>2 DEF OutboxInv, TypeOK, CancelUnstarted, WorkerOnly
<1>2. FencesInv'
    BY <1>a DEF OutboxInv, FencesInv, TypeOK, Row, Work, Holding, CancelUnstarted, WorkerOnly
<1>3. LocksInv'
    BY <1>a DEF OutboxInv, LocksInv, FencesInv, TypeOK, Row, Work, Holding, NoFence, CancelUnstarted, WorkerOnly
<1>4. SuccessInv'
    BY <1>a DEF OutboxInv, SuccessInv, LocksInv, FencesInv, TypeOK, Row, Work, Holding, NoFence, CancelUnstarted, WorkerOnly
<1>5. OrderInv'
    BY <1>a DEF OutboxInv, OrderInv, TypeOK, Row, Work, Holding, Predecessors, CancelUnstarted, WorkerOnly
<1>6. BudgetInv'
  <2>1. \A w \in Workers :
          /\ work'[w].event = work[w].event /\ work'[w].fence = work[w].fence
          /\ work'[w].attempts = work[w].attempts /\ work'[w].marker = work[w].marker
          /\ work'[w].at = "claiming" => work[w].at = "claiming"
          /\ work'[w].at \in Holding => work[w].at \in Holding
    BY <1>a DEF Work, Holding, CancelUnstarted, WorkerOnly
  <2>2. row' = row /\ redriven' = redriven
    BY DEF CancelUnstarted, WorkerOnly
  <2> QED  BY <2>1, <2>2 DEF OutboxInv, BudgetInv
<1>7. DeliveredMeansHandled'
    BY <1>a DEF OutboxInv, DeliveredMeansHandled, SuccessInv, TypeOK, Row, Work, Holding, CancelUnstarted, WorkerOnly
<1>8. FailureBudget'
    BY <1>a DEF OutboxInv, FailureBudget, BudgetInv, LocksInv, TypeOK, Row, Work, Holding, CancelUnstarted, WorkerOnly
<1>9. QED  BY <1>1, <1>2, <1>3, <1>4, <1>5, <1>6, <1>7, <1>8 DEF OutboxInv

(* The lease was not lost: the worker goes on to write the result. *)
LEMMA LeaseStopped ==
    ASSUME OutboxInv,
           NEW u \in Workers,
           work[u].at = "returned",
           work' = [work EXCEPT ![u] = [@ EXCEPT !.at = "finalize"]],
           UNCHANGED <<row, fences, ok, expired, failed, redriven, defers, faults, crashes, redrives>>
    PROVE  OutboxInv'
<1> USE OutboxAssumption
<1>a. work[u] \in Work /\ row \in [Events -> Row] /\ work \in [Workers -> Work]
    BY DEF OutboxInv, TypeOK
<1>1. TypeOK'
  <2>1. row' \in [Events -> Row]
    BY <1>a
  <2>2. work' \in [Workers -> Work]
    BY <1>a, WorkTypes DEF Holding
  <2>3. \A w \in Workers : work'[w].at \notin {"idle", "stopped"} => work'[w].event \in Events
    BY <1>a DEF OutboxInv, TypeOK, Work, Holding, Idle, Stopped
  <2>4. QED  BY <2>1, <2>2, <2>3 DEF OutboxInv, TypeOK
<1>2. FencesInv'
    BY <1>a DEF OutboxInv, FencesInv, TypeOK, Row, Work, Holding
<1>3. LocksInv'
    BY <1>a DEF OutboxInv, LocksInv, FencesInv, TypeOK, Row, Work, Holding, NoFence
<1>4. SuccessInv'
    BY <1>a DEF OutboxInv, SuccessInv, LocksInv, FencesInv, TypeOK, Row, Work, Holding, NoFence
<1>5. OrderInv'
    BY <1>a DEF OutboxInv, OrderInv, TypeOK, Row, Work, Holding, Predecessors
<1>6. BudgetInv'
  <2>1. \A w \in Workers :
          /\ work'[w].event = work[w].event /\ work'[w].fence = work[w].fence
          /\ work'[w].attempts = work[w].attempts /\ work'[w].marker = work[w].marker
          /\ work'[w].at = "claiming" => work[w].at = "claiming"
          /\ work'[w].at \in Holding => work[w].at \in Holding
    BY <1>a DEF Work, Holding
  <2>2. row' = row /\ redriven' = redriven
    OBVIOUS
  <2> QED  BY <2>1, <2>2 DEF OutboxInv, BudgetInv
<1>7. DeliveredMeansHandled'
    BY <1>a DEF OutboxInv, DeliveredMeansHandled, SuccessInv, TypeOK, Row, Work, Holding
<1>8. FailureBudget'
    BY <1>a DEF OutboxInv, FailureBudget, BudgetInv, LocksInv, TypeOK, Row, Work, Holding
<1>9. QED  BY <1>1, <1>2, <1>3, <1>4, <1>5, <1>6, <1>7, <1>8 DEF OutboxInv

(* Cancel of a worker that is not idle. *)
LEMMA ContextCancelled ==
    ASSUME OutboxInv,
           NEW u \in Workers,
           crashes' \in Nat,
           work' = [work EXCEPT ![u] = [@ EXCEPT !.cancelled = TRUE]],
           UNCHANGED <<row, fences, ok, expired, failed, redriven, defers, faults, redrives>>
    PROVE  OutboxInv'
<1> USE OutboxAssumption
<1>a. work[u] \in Work /\ row \in [Events -> Row] /\ work \in [Workers -> Work]
    BY DEF OutboxInv, TypeOK
<1>1. TypeOK'
  <2>1. row' \in [Events -> Row]
    BY <1>a
  <2>2. work' \in [Workers -> Work]
    BY <1>a, WorkTypes
  <2>3. \A w \in Workers : work'[w].at \notin {"idle", "stopped"} => work'[w].event \in Events
    BY <1>a DEF OutboxInv, TypeOK, Work, Holding, Idle, Stopped
  <2>4. QED  BY <2>1, <2>2, <2>3 DEF OutboxInv, TypeOK
<1>2. FencesInv'
    BY <1>a DEF OutboxInv, FencesInv, TypeOK, Row, Work, Holding
<1>3. LocksInv'
    BY <1>a DEF OutboxInv, LocksInv, FencesInv, TypeOK, Row, Work, Holding, NoFence
<1>4. SuccessInv'
    BY <1>a DEF OutboxInv, SuccessInv, LocksInv, FencesInv, TypeOK, Row, Work, Holding, NoFence
<1>5. OrderInv'
    BY <1>a DEF OutboxInv, OrderInv, TypeOK, Row, Work, Holding, Predecessors
<1>6. BudgetInv'
    BY <1>a DEF OutboxInv, BudgetInv, LocksInv, FencesInv, TypeOK, Row, Work, Holding
<1>7. DeliveredMeansHandled'
    BY <1>a DEF OutboxInv, DeliveredMeansHandled, SuccessInv, TypeOK, Row, Work, Holding
<1>8. FailureBudget'
    BY <1>a DEF OutboxInv, FailureBudget, BudgetInv, LocksInv, TypeOK, Row, Work, Holding
<1>9. QED  BY <1>1, <1>2, <1>3, <1>4, <1>5, <1>6, <1>7, <1>8 DEF OutboxInv

(* HandlerReturns. *)
LEMMA HandlerReturnsKeeps ==
    ASSUME OutboxInv, NEW u \in Workers, NEW result \in Results, HandlerReturns(u, result)
    PROVE  OutboxInv'
<1> USE OutboxAssumption
<1>a. work \in [Workers -> Work] /\ work[u] \in Work /\ row \in [Events -> Row]
    BY DEF OutboxInv, TypeOK
<1>1. TypeOK'
  <2>1. work' \in [Workers -> Work]
    BY <1>a, WorkTypes DEF HandlerReturns, Holding
  <2>2. \A w \in Workers : work'[w].at \notin {"idle", "stopped"} => work'[w].event \in Events
    BY <1>a DEF OutboxInv, TypeOK, Work, Holding, HandlerReturns
  <2>3. ok' \in [Events -> SUBSET Nat] /\ defers' \in Nat
    BY <1>a DEF OutboxInv, TypeOK, HandlerReturns, Work
  <2>4. QED  BY <2>1, <2>2, <2>3 DEF OutboxInv, TypeOK, HandlerReturns
<1>2. FencesInv'
    BY <1>a DEF OutboxInv, FencesInv, TypeOK, Row, Work, Holding, HandlerReturns, HandlerError, Results
<1>3. LocksInv'
    BY <1>a DEF OutboxInv, LocksInv, FencesInv, TypeOK, Row, Work, Holding, NoFence, HandlerReturns, HandlerError, Results
<1>4. SuccessInv'
    BY <1>a DEF OutboxInv, SuccessInv, LocksInv, FencesInv, TypeOK, Row, Work, Holding, NoFence, HandlerReturns, HandlerError, Results
<1>5. OrderInv'
    BY <1>a DEF OutboxInv, OrderInv, TypeOK, Row, Work, Holding, Predecessors, HandlerReturns, HandlerError, Results
<1>6. BudgetInv'
    BY <1>a DEF OutboxInv, BudgetInv, LocksInv, FencesInv, TypeOK, Row, Work, Holding, HandlerReturns, HandlerError, Results
<1>7. DeliveredMeansHandled'
    BY <1>a DEF OutboxInv, DeliveredMeansHandled, SuccessInv, TypeOK, Row, Work, Holding, HandlerReturns, HandlerError, Results
<1>8. FailureBudget'
    BY <1>a DEF OutboxInv, FailureBudget, BudgetInv, LocksInv, TypeOK, Row, Work, Holding, HandlerReturns, HandlerError, Results
<1>9. QED  BY <1>1, <1>2, <1>3, <1>4, <1>5, <1>6, <1>7, <1>8 DEF OutboxInv

(* claim's UPDATE. *)
LEMMA ClaimKeeps ==
    ASSUME OutboxInv, NEW u \in Workers, Claim(u)
    PROVE  OutboxInv'
<1>a. faults \in Nat /\ crashes \in Nat /\ work[u] \in Work
    BY DEF OutboxInv, TypeOK
<1>1. CASE /\ MayLock(work[u].event) /\ fences' = fences + 1
           /\ row' = [row EXCEPT ![work[u].event] = Lock(@, fences + 1)]
           /\ expired' = IF row[work[u].event].stale
                         THEN [expired EXCEPT ![work[u].event] = @ \cup {row[work[u].event].lock}] ELSE expired
           /\ work' = [work EXCEPT ![u] = [@ EXCEPT !.at = "claimed", !.fence = fences + 1]]
           /\ UNCHANGED faults
    BY <1>1, ClaimTakes DEF Claim
<1>2. CASE work' = [work EXCEPT ![u] = Through(work[u])] /\ faults' \in Nat /\ UNCHANGED <<row, fences, expired>>
  <2>1. Through(work[u]) \in {Idle, Stopped}  BY <1>a, WorkTypes
  <2>2. UNCHANGED <<ok, failed, redriven, defers, crashes, redrives>>  BY DEF Claim
  <2>3. QED  BY <1>a, <1>2, <2>1, <2>2, WorkerLeaves
<1>3. QED  BY <1>a, <1>1, <1>2 DEF Claim, DBFails

(* renewKKAIOutboxLease. *)
LEMMA HeartbeatKeeps ==
    ASSUME OutboxInv, NEW u \in Workers, Heartbeat(u)
    PROVE  OutboxInv'
<1>1. work[u].at \in Holding /\ faults \in Nat
    BY DEF Heartbeat, OutboxInv, TypeOK
<1>2. CASE Fenced(u) /\ row' = [row EXCEPT ![work[u].event].stale = FALSE] /\ UNCHANGED <<work, faults>>
    BY <1>1, <1>2, HeartbeatRenews DEF Heartbeat
<1>3. CASE work' = [work EXCEPT ![u].lost = TRUE] /\ faults' \in Nat /\ UNCHANGED row
    BY <1>1, <1>3, HeartbeatLoses DEF Heartbeat
<1>4. QED  BY <1>1, <1>2, <1>3 DEF Heartbeat, DBFails

(* releaseUnstartedClaim. *)
LEMMA ReleaseKeeps ==
    ASSUME OutboxInv, NEW u \in Workers, Release(u)
    PROVE  OutboxInv'
<1>1. /\ work[u].at = "releasing" /\ RowFree(u, work[u].event) /\ faults \in Nat /\ crashes \in Nat
      /\ Through(work[u]) \in {Idle, Stopped}
    BY WorkTypes DEF Release, OutboxInv, TypeOK
<1>2. work' = [work EXCEPT ![u] = Through(work[u])]
    BY DEF Release
<1>3. CASE Fenced(u) /\ row' = [row EXCEPT ![work[u].event] = [Unlock(@) EXCEPT !.available = FALSE]] /\ UNCHANGED faults
    BY <1>1, <1>2, <1>3, ReleaseUnlocks DEF Release
<1>4. CASE UNCHANGED row /\ faults' \in Nat
    BY <1>1, <1>2, <1>4, WorkerLeaves DEF Release
<1>5. QED  BY <1>1, <1>3, <1>4 DEF Release, DBFails

(* lease.stop. *)
LEMMA StopLeaseKeeps ==
    ASSUME OutboxInv, NEW u \in Workers, StopLease(u)
    PROVE  OutboxInv'
<1>1. Through(work[u]) \in {Idle, Stopped} /\ faults \in Nat /\ crashes \in Nat /\ work[u].at = "returned"
    BY WorkTypes DEF OutboxInv, TypeOK, StopLease
<1>2. CASE work[u].lost
  <2>1. work' = [work EXCEPT ![u] = Through(work[u])]
    BY <1>2 DEF StopLease, AfterLease
  <2>2. QED  BY <1>1, <2>1, WorkerLeaves DEF StopLease, WorkerOnly
<1>3. CASE ~work[u].lost
  <2>1. work' = [work EXCEPT ![u] = [@ EXCEPT !.at = "finalize"]]
    BY <1>3 DEF StopLease, AfterLease
  <2>2. QED  BY <1>1, <2>1, LeaseStopped DEF StopLease, WorkerOnly
<1>4. QED  BY <1>2, <1>3

(* markDelivered, markDeferred and markFailed. *)
LEMMA FinalizeKeeps ==
    ASSUME OutboxInv, NEW u \in Workers, Finalize(u)
    PROVE  OutboxInv'
<1>1. /\ work[u].at = "finalize" /\ RowFree(u, work[u].event) /\ faults \in Nat /\ crashes \in Nat
      /\ Through(work[u]) \in {Idle, Stopped}
    BY WorkTypes DEF Finalize, OutboxInv, TypeOK
<1>2. work' = [work EXCEPT ![u] = Through(work[u])]
    BY DEF Finalize
<1>3. UNCHANGED <<fences, ok, expired, redriven, defers, crashes, redrives>>
    BY DEF Finalize
<1>4. CASE Fenced(u) /\ work[u].outcome = "ok" /\ UNCHANGED <<failed, faults>>
           /\ row' = [row EXCEPT ![work[u].event] = Delivered(@, work[u].fence)]
    BY <1>1, <1>2, <1>3, <1>4, FinalizeDelivers
<1>5. CASE Fenced(u) /\ work[u].outcome = "deferred" /\ UNCHANGED <<failed, faults>>
           /\ row' = [row EXCEPT ![work[u].event] = Deferred(@, work[u].marker)]
    BY <1>1, <1>2, <1>3, <1>5, FinalizeDefers
<1>6. CASE Fenced(u) /\ work[u].outcome \in {"failed", "permanent"} /\ UNCHANGED faults
           /\ row' = [row EXCEPT ![work[u].event] = Failed(@, work[u].attempts + 1, work[u].marker, work[u].outcome)]
           /\ failed' = [failed EXCEPT ![work[u].event] = @ + 1]
    BY <1>1, <1>2, <1>3, <1>6, FinalizeFails
<1>7. CASE faults' \in Nat /\ UNCHANGED <<row, failed>>
    BY <1>1, <1>2, <1>3, <1>7, WorkerLeaves
<1>8. QED  BY <1>1, <1>4, <1>5, <1>6, <1>7 DEF Finalize, MayFinalize, DBFails

(* Shutdown, crash and restart of a worker. *)
LEMMA CancelKeeps ==
    ASSUME OutboxInv, NEW u \in Workers, Cancel(u) \/ Crash(u) \/ Restart(u)
    PROVE  OutboxInv'
<1>1. crashes' \in Nat /\ faults \in Nat /\ UNCHANGED <<row, fences, ok, expired, failed, redriven, defers, faults, redrives>>
    BY DEF Cancel, Crash, Restart, OutboxInv, TypeOK
<1>2. CASE \E s \in {Idle, Stopped} : work' = [work EXCEPT ![u] = s]
    BY <1>1, <1>2, WorkerLeaves
<1>3. CASE work' = [work EXCEPT ![u] = [@ EXCEPT !.cancelled = TRUE]]
    BY <1>1, <1>3, ContextCancelled
<1>4. QED  BY <1>2, <1>3 DEF Cancel, Crash, Restart

(* The invariant is inductive. *)
LEMMA NextKeeps ==
    ASSUME OutboxInv, [Next]_vars
    PROVE  OutboxInv'
<1>1. CASE UNCHANGED vars
    BY <1>1 DEF vars, OutboxInv, TypeOK, FencesInv, LocksInv, SuccessInv, OrderInv, BudgetInv,
                DeliveredMeansHandled, FailureBudget
<1>2. CASE \E x \in Events : BecomeAvailable(x) \/ Expire(x)
    BY <1>2, BecomeAvailableKeeps, ExpireKeeps
<1>3. CASE \E x \in Events, available \in BOOLEAN : Enqueue(x, available)
    BY <1>3, EnqueueKeeps
<1>4. CASE \E x \in Events, key \in RedriveKeys : Redrive(x, key)
    BY <1>4, RedriveKeeps
<1>5. CASE \E u \in Workers : Poll(u)
    BY <1>1, <1>5 DEF Poll
<1>6. CASE \E u \in Workers : Heartbeat(u) \/ Cancel(u) \/ Crash(u) \/ Restart(u)
    BY <1>6, HeartbeatKeeps, CancelKeeps
<1>7. CASE \E u \in Workers : Process(u)
    BY <1>7, SelectKeeps, ClaimKeeps, CheckContextKeeps, StartKeeps, CancelUnstartedKeeps,
       ReleaseKeeps, HandlerReturnsKeeps, StopLeaseKeeps, FinalizeKeeps DEF Process
<1>8. QED  BY <1>1, <1>2, <1>3, <1>4, <1>5, <1>6, <1>7 DEF Next

(* The initial state satisfies the invariant. *)
LEMMA InitEstablishes == Init => OutboxInv
<1> SUFFICES ASSUME Init PROVE OutboxInv  OBVIOUS
<1>1. TypeOK
  <2>1. NewRow \in Row /\ Idle \in Work
    BY DEF Row, NewRow, Work, Idle, Marker, NoFence, NoEvent
  <2>2. QED  BY <2>1 DEF Init, TypeOK, Idle
<1>2. FencesInv /\ LocksInv /\ SuccessInv
    BY DEF Init, FencesInv, LocksInv, SuccessInv, NewRow, Idle, Holding, NoFence
<1>3. OrderInv /\ BudgetInv /\ DeliveredMeansHandled /\ FailureBudget
    BY OutboxAssumption, SanitizedMarker DEF Init, OrderInv, BudgetInv, DeliveredMeansHandled, FailureBudget, NewRow, Idle, Holding
<1>4. QED  BY <1>1, <1>2, <1>3 DEF OutboxInv

(* The inductive invariant holds of every reachable state, for any numbers *)
(* of events and workers (claim, the lease and the three mark functions).  *)
THEOREM OutboxInvariant == Spec => []OutboxInv
<1>1. Init => OutboxInv  BY InitEstablishes
<1>2. OutboxInv /\ [Next]_vars => OutboxInv'  BY NextKeeps
<1>3. QED  BY <1>1, <1>2, PTL DEF Spec

(* markDelivered: a delivered event was handled under the fence that       *)
(* delivered it.                                                           *)
THEOREM DeliveredMeansHandledTheorem == Spec => []DeliveredMeansHandled
<1>1. OutboxInv => DeliveredMeansHandled  BY DEF OutboxInv
<1>2. QED  BY <1>1, OutboxInvariant, PTL

(* claim and processClaimedEvent: a success is repeated only when a lock   *)
(* expired.                                                                *)
THEOREM HandledOnceTheorem == Spec => []HandledOnceUnlessExpired
<1>1. OutboxInv => HandledOnceUnlessExpired
  <2> SUFFICES ASSUME OutboxInv, NEW e \in Events, NEW f \in ok[e] \ expired[e], NEW g \in ok[e] \ expired[e]
               PROVE  f = g
    BY DEF HandledOnceUnlessExpired
  <2>1. f = row[e].lock \/ f = row[e].by  BY DEF OutboxInv, SuccessInv
  <2>2. g = row[e].lock \/ g = row[e].by  BY DEF OutboxInv, SuccessInv
  <2>3. row[e].lock = NoFence \/ row[e].by = NoFence  BY DEF OutboxInv, LocksInv
  <2>4. f # NoFence /\ g # NoFence  BY DEF OutboxInv, FencesInv, TypeOK, NoFence
  <2>5. QED  BY <2>1, <2>2, <2>3, <2>4
<1>2. QED  BY <1>1, OutboxInvariant, PTL

(* newKKAIOutboxClaimQuery: events of an aggregate are handled in order.   *)
THEOREM AggregateOrderTheorem == Spec => []AggregateOrder
<1>1. OutboxInv => AggregateOrder  BY DEF OutboxInv, OrderInv, AggregateOrder
<1>2. QED  BY <1>1, OutboxInvariant, PTL

(* markFailed: every failure counts once, and pending events have attempts *)
(* left.                                                                   *)
THEOREM FailureBudgetTheorem == Spec => []FailureBudget
<1>1. OutboxInv => FailureBudget  BY DEF OutboxInv
<1>2. QED  BY <1>1, OutboxInvariant, PTL

(* Only a redrive brings a dead event back. *)
LEMMA DeadStays ==
    ASSUME OutboxInv, [Next]_vars, NEW e \in Events, row[e].status = "dead", row'[e].status = "pending"
    PROVE  \E key \in RedriveKeys : Redrive(e, key)
<1>1. row \in [Events -> Row] /\ row[e].status # "pending"
    BY DEF OutboxInv, TypeOK
<1>2. CASE \E x \in Events : BecomeAvailable(x) \/ Expire(x)
    BY <1>1, <1>2 DEF BecomeAvailable, Expire, Row
<1>3. CASE \E x \in Events, available \in BOOLEAN : Enqueue(x, available)
    BY <1>1, <1>3 DEF Enqueue
<1>4. CASE \E x \in Events, key \in RedriveKeys : Redrive(x, key)
    BY <1>1, <1>4 DEF Redrive
<1>5. CASE \E u \in Workers : Claim(u)
    BY <1>1, <1>5 DEF Claim, MayLock
<1>6. CASE \E u \in Workers : Heartbeat(u)
    BY <1>1, <1>6 DEF Heartbeat, Fenced
<1>7. CASE \E u \in Workers : Release(u)
    BY <1>1, <1>7 DEF Release, Fenced
<1>8. CASE \E u \in Workers : Finalize(u)
    BY <1>1, <1>8 DEF Finalize, MayFinalize, Fenced
<1>9. CASE UNCHANGED row
    BY <1>1, <1>9
<1>10. QED
    BY <1>2, <1>3, <1>4, <1>5, <1>6, <1>7, <1>8, <1>9
    DEF Next, Process, vars, Poll, Select, CheckContext, Start, CancelUnstarted, HandlerReturns,
        StopLease, WorkerOnly, Cancel, Crash, Restart

(* redriveKKAIOutboxDeadEvent: with row-locking claims, a replayed key     *)
(* that sanitizeKKAIOutboxError leaves readable does nothing.              *)
THEOREM RedriveReplayTheorem == Spec => RedriveReplayIgnored
<1>1. ASSUME OutboxInv, [Next]_vars
      PROVE  [RowLocks => \A e \in Events :
                row[e].status = "dead" /\ row'[e].status = "pending" /\ redriven'[e] \notin Redacted
                    => redriven'[e] # redriven[e]]_vars
  <2> SUFFICES ASSUME RowLocks, NEW e \in Events, row[e].status = "dead",
                      row'[e].status = "pending", redriven'[e] \notin Redacted
               PROVE  redriven'[e] # redriven[e]
    OBVIOUS
  <2>1. PICK key \in RedriveKeys : Redrive(e, key)
    BY <1>1, DeadStays
  <2>2. row[e].marker = Sanitized(redriven[e]) /\ redriven' = [redriven EXCEPT ![e] = key] /\ row[e].marker # key
    BY <1>1, <2>1 DEF OutboxInv, BudgetInv, Redrive, MayRedrive
  <2>3. redriven'[e] = key /\ redriven[e] \in Marker
    BY <1>1, <2>2 DEF OutboxInv, TypeOK, Marker
  <2>4. QED  BY <2>2, <2>3, SanitizedMarker
<1>2. QED  BY <1>1, OutboxInvariant, PTL DEF Spec, RedriveReplayIgnored

(* claim, in a transaction that locks the row: the row claimed is the row  *)
(* selected.                                                               *)
THEOREM ClaimTakesSelectedRowTheorem ==
    ASSUME RowLocks
    PROVE  Spec => ClaimTakesSelectedRow
<1>1. ASSUME OutboxInv, [Next]_vars
      PROVE  [\A w \in Workers : work[w].at = "claiming" /\ work'[w].at = "claimed" =>
                LET r == row[work[w].event]
                IN  r.attempts = work[w].attempts /\ r.marker = work[w].marker /\ r.available]_vars
    BY RowLocks, <1>1 DEF OutboxInv, BudgetInv
<1>2. QED  BY <1>1, OutboxInvariant, PTL DEF Spec, ClaimTakesSelectedRow

-----------------------------------------------------------------------------
(* Only a lock grows stale: a claim overtakes exactly the attempts whose   *)
(* lock was still set.                                                     *)
StaleIsLocked == \A e \in Events : row[e].stale => row[e].lock # NoFence

(* No write leaves a stale row without a lock. *)
LEMMA StaleIsLockedStep ==
    ASSUME OutboxInv, StaleIsLocked, [Next]_vars
    PROVE  StaleIsLocked'
<1>0. row \in [Events -> Row] /\ fences \in Nat
    BY DEF OutboxInv, TypeOK
<1>1. CASE \E x \in Events : BecomeAvailable(x) \/ Expire(x)
    BY <1>0, <1>1 DEF BecomeAvailable, Expire, StaleIsLocked, Row
<1>2. CASE \E x \in Events, available \in BOOLEAN : Enqueue(x, available)
    BY <1>0, <1>2 DEF Enqueue, NewRow, StaleIsLocked
<1>3. CASE \E x \in Events, key \in RedriveKeys : Redrive(x, key)
    BY <1>0, <1>3 DEF Redrive, Redriven, Unlock, StaleIsLocked, Row
<1>4. CASE \E u \in Workers : Claim(u)
    BY ZenonT(60), <1>0, <1>4 DEF Claim, Lock, StaleIsLocked, Row
<1>5. CASE \E u \in Workers : Heartbeat(u)
    BY <1>0, <1>5 DEF Heartbeat, StaleIsLocked, Row
<1>6. CASE \E u \in Workers : Release(u) \/ Finalize(u)
  <2>1. PICK u \in Workers : Release(u) \/ Finalize(u)
    BY <1>6
  <2>2. work[u].event \in Events
    BY <2>1 DEF Release, Finalize, OutboxInv, TypeOK
  <2>3. row[work[u].event] \in Row
    BY <1>0, <2>2
  <2>4. UNCHANGED row \/ \E r : row' = [row EXCEPT ![work[u].event] = r] /\ ~r.stale
    <3>1. CASE Release(u)
      <4>1. ~[Unlock(row[work[u].event]) EXCEPT !.available = FALSE].stale
        BY <2>3 DEF Unlock, Row
      <4>2. QED  BY <3>1, <4>1 DEF Release
    <3>2. CASE Finalize(u)
      <4>1. /\ ~Delivered(row[work[u].event], work[u].fence).stale
            /\ ~Deferred(row[work[u].event], work[u].marker).stale
            /\ ~Failed(row[work[u].event], work[u].attempts + 1, work[u].marker, work[u].outcome).stale
        BY <2>3 DEF Delivered, Deferred, Failed, Unlock, Row
      <4>2. QED  BY <3>2, <4>1 DEF Finalize
    <3>3. QED  BY <2>1, <3>1, <3>2
  <2>5. QED  BY <1>0, <2>2, <2>4 DEF StaleIsLocked
<1>7. CASE UNCHANGED row
    BY <1>7 DEF StaleIsLocked
<1>8. QED
    BY <1>1, <1>2, <1>3, <1>4, <1>5, <1>6, <1>7
    DEF Next, Process, vars, Poll, Select, CheckContext, Start, CancelUnstarted, HandlerReturns,
        StopLease, WorkerOnly, Cancel, Crash, Restart

(* The events as OrderedDelivery sees them. *)
Statuses == [e \in Events |-> row[e].status]
Attempts == [e \in Events |-> row[e].lock]
Revivals == [e \in Events |-> redriven[e] # NoKey]

(* A step that keeps statuses and locks of the rows stutters.              *)
LEMMA SameDelivery ==
    ASSUME \A e \in Events : row'[e].status = row[e].status /\ row'[e].lock = row[e].lock,
           UNCHANGED <<ok, expired, fences, redriven>>
    PROVE  [Delivery!DNext]_(Delivery!dvars)
<1>1. Statuses' = Statuses /\ Attempts' = Attempts /\ Revivals' = Revivals
    BY DEF Statuses, Attempts, Revivals
<1>2. QED  BY <1>1 DEF Delivery!dvars, Statuses, Attempts, Revivals

(* Rows other than the one written keep their status and their lock.       *)
LEMMA OneRow ==
    ASSUME NEW e \in Events, row \in [Events -> Row], NEW r, row' = [row EXCEPT ![e] = r]
    PROVE  /\ Statuses' = [Statuses EXCEPT ![e] = r.status]
           /\ Attempts' = [Attempts EXCEPT ![e] = r.lock]
<1>1. \A x \in Events : row'[x] = IF x = e THEN r ELSE row[x]
    OBVIOUS
<1>2. QED  BY <1>1 DEF Statuses, Attempts

(* The predecessors of an event that a worker holds are due. *)
LEMMA DueWhileWorking ==
    ASSUME OutboxInv, NEW w \in Workers, work[w].at \notin {"idle", "stopped"}
    PROVE  work[w].event \in Events /\ Delivery!Due(work[w].event)
<1>1. work[w].event \in Events
    BY DEF OutboxInv, TypeOK
<1>2. \A p \in Predecessors(work[w].event) : p \in Events
    BY DEF Predecessors
<1>3. QED  BY <1>1, <1>2 DEF OutboxInv, OrderInv, Delivery!Due

(* An event is put behind its predecessors. *)
LEMMA EnqueuePuts ==
    ASSUME OutboxInv, NEW e \in Events, NEW available \in BOOLEAN, Enqueue(e, available)
    PROVE  Delivery!Put(e)
<1>1. row \in [Events -> Row]
    BY DEF OutboxInv, TypeOK
<1>2. row[e].lock = NoFence
    BY <1>1 DEF OutboxInv, LocksInv, Enqueue
<1>3. /\ row' = [row EXCEPT ![e] = [NewRow EXCEPT !.status = "pending", !.available = available]]
      /\ [NewRow EXCEPT !.status = "pending", !.available = available].status = "pending"
      /\ [NewRow EXCEPT !.status = "pending", !.available = available].lock = NoFence
    BY DEF Enqueue, NewRow
<1>4. Statuses' = [Statuses EXCEPT ![e] = "pending"] /\ Attempts' = [Attempts EXCEPT ![e] = NoFence]
    BY <1>1, <1>3, OneRow
<1>5. Attempts' = Attempts /\ Revivals' = Revivals
    BY <1>2, <1>4 DEF Attempts, Revivals, Enqueue
<1>6. \A p \in Predecessors(e) : p \in Events
    BY DEF Predecessors
<1>7. QED
    BY <1>4, <1>5, <1>6 DEF Delivery!Put, Enqueue, Statuses, Attempts, Revivals

(* A claim opens an attempt. *)
LEMMA ClaimOpens ==
    ASSUME OutboxInv, StaleIsLocked, NEW w \in Workers, Claim(w)
    PROVE  [Delivery!DNext]_(Delivery!dvars)
<1> DEFINE e == work[w].event
<1>0. row \in [Events -> Row] /\ fences \in Nat /\ expired \in [Events -> SUBSET Nat]
    BY DEF OutboxInv, TypeOK
<1>1. e \in Events /\ Delivery!Due(e)
    BY DueWhileWorking DEF Claim
<1>2. CASE UNCHANGED <<row, fences, expired>>
    BY <1>2, SameDelivery DEF Claim
<1>3. CASE ~ UNCHANGED <<row, fences, expired>>
  <2>1. /\ MayLock(e) /\ fences' = fences + 1
        /\ row' = [row EXCEPT ![e] = Lock(row[e], fences + 1)]
        /\ expired' = IF row[e].stale THEN [expired EXCEPT ![e] = @ \cup {row[e].lock}] ELSE expired
    BY <1>3 DEF Claim
  <2>2. UNCHANGED <<ok, redriven>>
    BY DEF Claim
  <2>3. Lock(row[e], fences + 1).status = row[e].status /\ Lock(row[e], fences + 1).lock = fences + 1
    BY <1>0, <1>1 DEF Lock, Row
  <2>4. Statuses' = [Statuses EXCEPT ![e] = row[e].status] /\ Attempts' = [Attempts EXCEPT ![e] = fences + 1]
    <3> DEFINE r == Lock(row[e], fences + 1)
    <3> HIDE DEF e
    <3>1. row' = [row EXCEPT ![e] = r] /\ r.status = row[e].status /\ r.lock = fences + 1
      BY <2>1, <2>3
    <3> HIDE DEF r
    <3>2. Statuses' = [Statuses EXCEPT ![e] = r.status] /\ Attempts' = [Attempts EXCEPT ![e] = r.lock]
      BY <1>0, <1>1, <3>1, OneRow
    <3>3. QED  BY <3>1, <3>2
  <2>5. Statuses' = Statuses /\ Revivals' = Revivals
    BY <1>1, <2>2, <2>4 DEF Statuses, Revivals
  <2>6. expired' = [expired EXCEPT ![e] = @ \cup ({row[e].lock} \ {0})]
    <3>1. CASE row[e].stale
      <4>1. {row[e].lock} \ {0} = {row[e].lock}
        BY <1>1, <3>1 DEF StaleIsLocked, NoFence
      <4>2. QED  BY <2>1, <3>1, <4>1
    <3>2. CASE ~row[e].stale
      <4>1. {row[e].lock} \ {0} = {} /\ expired[e] \cup {} = expired[e]
        BY <2>1, <3>2 DEF MayLock, Unlocked, NoFence
      <4>2. [expired EXCEPT ![e] = expired[e]] = expired
        BY <1>0
      <4>3. QED  BY <2>1, <3>2, <4>1, <4>2
    <3>3. QED  BY <3>1, <3>2
  <2>7. row[e].status = "pending"
    BY <2>1 DEF MayLock
  <2>8. PICK x \in Events : x = e
    BY <1>1
  <2>9. Delivery!Open(x)
    BY <1>1, <2>1, <2>2, <2>4, <2>5, <2>6, <2>7, <2>8 DEF Delivery!Open, Statuses, Attempts, Revivals
  <2>10. QED  BY <2>9 DEF Delivery!DNext
<1>4. QED  BY <1>2, <1>3

(* A handler that returns without an error lets its attempt succeed. *)
LEMMA HandlerSucceeds ==
    ASSUME OutboxInv, NEW w \in Workers, NEW result \in Results, HandlerReturns(w, result)
    PROVE  [Delivery!DNext]_(Delivery!dvars)
<1> DEFINE e == work[w].event
<1> DEFINE f == work[w].fence
<1>1. e \in Events /\ Delivery!Due(e)
    BY DueWhileWorking DEF HandlerReturns
<1>2. UNCHANGED <<row, fences, expired, redriven>>
    BY DEF HandlerReturns
<1>3. CASE result = "ok"
  <2>1. ok' = [ok EXCEPT ![e] = @ \cup {f}]
    BY <1>3 DEF HandlerReturns
  <2>2. work[w].at = "running" /\ work[w].at \in Holding
    BY DEF HandlerReturns, Holding
  <2>3. f # 0 /\ (f = row[e].lock \/ f \in expired[e])
    BY <1>1, <2>2 DEF OutboxInv, LocksInv, FencesInv
  <2>4. f \notin ok[e]
    BY <1>1, <2>2 DEF OutboxInv, SuccessInv
  <2>5. Delivery!Succeed(e)
    BY <1>1, <1>2, <2>1, <2>3, <2>4 DEF Delivery!Succeed
  <2>6. QED  BY <1>1, <2>5 DEF Delivery!DNext
<1>4. CASE result # "ok"
  <2>1. ok' = ok
    BY <1>4 DEF HandlerReturns
  <2>2. QED  BY <1>2, <2>1, SameDelivery
<1>5. QED  BY <1>3, <1>4

(* An attempt that ends without success is closed. *)
LEMMA AttemptCloses ==
    ASSUME OutboxInv, NEW e \in Events, row[e].status = "pending", row[e].lock # NoFence,
           row[e].lock \notin ok[e], NEW r, row' = [row EXCEPT ![e] = r],
           r.status \in {"pending", "dead"}, r.lock = NoFence,
           UNCHANGED <<fences, ok, expired, redriven>>
    PROVE  [Delivery!DNext]_(Delivery!dvars)
<1>1. row \in [Events -> Row]
    BY DEF OutboxInv, TypeOK
<1>2. Statuses' = [Statuses EXCEPT ![e] = r.status] /\ Attempts' = [Attempts EXCEPT ![e] = 0]
    BY <1>1, OneRow DEF NoFence
<1>3. Statuses' \in {Statuses, [Statuses EXCEPT ![e] = "dead"]}
    BY <1>2 DEF Statuses
<1>4. Revivals' = Revivals
    BY DEF Revivals
<1>5. Delivery!Close(e)
    BY <1>2, <1>3, <1>4 DEF Delivery!Close, Statuses, Attempts, Revivals, NoFence
<1>6. QED  BY <1>5 DEF Delivery!DNext

(* The outcome of the handler of an attempt that holds its lock. *)
LEMMA HoldsAttempt ==
    ASSUME OutboxInv, NEW w \in Workers, work[w].at \in Holding, Fenced(w)
    PROVE  LET e == work[w].event
           IN  /\ e \in Events /\ row[e] \in Row
               /\ row[e].status = "pending" /\ row[e].lock = work[w].fence /\ row[e].lock # NoFence
               /\ row[e].lock \in ok[e] <=>
                     work[w].at \in {"returned", "finalize"} /\ work[w].outcome = "ok"
<1>1. work[w].event \in Events
    BY DEF OutboxInv, TypeOK, Holding
<1>2. QED  BY <1>1 DEF OutboxInv, TypeOK, FencesInv, SuccessInv, Fenced, NoFence

(* A released claim closes its attempt. *)
LEMMA ReleaseCloses ==
    ASSUME OutboxInv, NEW w \in Workers, Release(w)
    PROVE  [Delivery!DNext]_(Delivery!dvars)
<1> DEFINE e == work[w].event
<1>1. UNCHANGED <<fences, ok, expired, redriven>>
    BY DEF Release
<1>2. CASE UNCHANGED row
    BY <1>1, <1>2, SameDelivery
<1>3. CASE row' # row
  <2> DEFINE r == [Unlock(row[e]) EXCEPT !.available = FALSE]
  <2>1. Fenced(w) /\ row' = [row EXCEPT ![e] = r]
    BY <1>3 DEF Release
  <2>2. work[w].at = "releasing" /\ work[w].at \in Holding
    BY DEF Release, Holding
  <2>3. /\ e \in Events /\ row[e] \in Row /\ row[e].status = "pending"
        /\ row[e].lock # NoFence /\ row[e].lock \notin ok[e]
    BY <2>1, <2>2, HoldsAttempt
  <2>4. r.status = "pending" /\ r.lock = NoFence
    BY <2>3 DEF Unlock, Row
  <2> HIDE DEF r
  <2>5. QED  BY <1>1, <2>1, <2>3, <2>4, AttemptCloses
<1>4. QED  BY <1>2, <1>3

(* markDelivered delivers, markDeferred and markFailed close the attempt. *)
LEMMA FinalizeDecides ==
    ASSUME OutboxInv, NEW w \in Workers, Finalize(w)
    PROVE  [Delivery!DNext]_(Delivery!dvars)
<1> DEFINE s == work[w]
<1> DEFINE e == s.event
<1>0. row \in [Events -> Row]
    BY DEF OutboxInv, TypeOK
<1>1. UNCHANGED <<fences, ok, expired, redriven>>
    BY DEF Finalize
<1>2. CASE UNCHANGED row
    BY <1>1, <1>2, SameDelivery
<1>3. CASE row' # row
  <2>1. s.at = "finalize" /\ s.at \in Holding /\ Fenced(w)
    BY <1>3 DEF Finalize, MayFinalize, Holding
  <2>2. /\ e \in Events /\ row[e] \in Row /\ row[e].status = "pending"
        /\ row[e].lock = s.fence /\ row[e].lock # NoFence
        /\ row[e].lock \in ok[e] <=> s.outcome = "ok"
    BY <2>1, HoldsAttempt
  <2>3. CASE s.outcome = "ok"
    <3>1. row' = [row EXCEPT ![e] = Delivered(row[e], s.fence)]
      BY <1>3, <2>3 DEF Finalize
    <3>2. Delivered(row[e], s.fence).status = "delivered" /\ Delivered(row[e], s.fence).lock = 0
      BY <2>2 DEF Delivered, Unlock, Row, NoFence
    <3>3. Statuses' = [Statuses EXCEPT ![e] = "delivered"] /\ Attempts' = [Attempts EXCEPT ![e] = 0]
      <4> DEFINE r == Delivered(row[e], s.fence)
      <4> HIDE DEF e
      <4>1. e \in Events /\ row' = [row EXCEPT ![e] = r] /\ r.status = "delivered" /\ r.lock = 0
        BY <2>2, <3>1, <3>2
      <4> HIDE DEF r
      <4>2. Statuses' = [Statuses EXCEPT ![e] = r.status] /\ Attempts' = [Attempts EXCEPT ![e] = r.lock]
        BY <1>0, <4>1, OneRow
      <4>3. QED  BY <4>1, <4>2
    <3>4. Revivals' = Revivals
      BY <1>1 DEF Revivals
    <3>5. PICK x \in Events : x = e
      BY <2>2
    <3>6. Delivery!Deliver(x)
      BY <1>1, <2>2, <2>3, <3>3, <3>4, <3>5 DEF Delivery!Deliver, Statuses, Attempts, Revivals
    <3>7. QED  BY <3>6 DEF Delivery!DNext
  <2>4. CASE s.outcome = "deferred"
    <3>1. row' = [row EXCEPT ![e] = Deferred(row[e], s.marker)]
      BY <1>3, <2>4 DEF Finalize
    <3>2. Deferred(row[e], s.marker).status = "pending" /\ Deferred(row[e], s.marker).lock = NoFence
      BY <2>2 DEF Deferred, Unlock, Row
    <3>3. QED  BY <1>1, <2>2, <2>4, <3>1, <3>2, AttemptCloses
  <2>5. CASE s.outcome \in {"failed", "permanent"}
    <3> DEFINE r == Failed(row[e], s.attempts + 1, s.marker, s.outcome)
    <3>1. row' = [row EXCEPT ![e] = r]
      BY <1>3, <2>5 DEF Finalize
    <3>2. r.status \in {"pending", "dead"} /\ r.lock = NoFence
      BY <2>2 DEF Failed, Unlock, Row
    <3> HIDE DEF r
    <3>3. QED  BY <1>1, <2>2, <2>5, <3>1, <3>2, AttemptCloses
  <2>6. QED  BY <1>3, <2>3, <2>4, <2>5 DEF Finalize
<1>4. QED  BY <1>2, <1>3

(* A redrive revives a dead event. *)
LEMMA RedriveRevives ==
    ASSUME OutboxInv, NEW e \in Events, NEW key \in RedriveKeys, Redrive(e, key)
    PROVE  Delivery!Revive(e)
<1>1. row \in [Events -> Row] /\ redriven \in [Events -> RedriveKeys \cup {NoKey}]
    BY DEF OutboxInv, TypeOK
<1>2. row[e].status = "dead" /\ row[e].lock = NoFence
    BY DEF OutboxInv, LocksInv, Redrive, MayRedrive
<1>3. /\ row' = [row EXCEPT ![e] = Redriven(row[e], key)]
      /\ Redriven(row[e], key).status = "pending" /\ Redriven(row[e], key).lock = NoFence
    BY <1>1 DEF Redrive, Redriven, Unlock, Row
<1>4. Statuses' = [Statuses EXCEPT ![e] = "pending"] /\ Attempts' = [Attempts EXCEPT ![e] = NoFence]
    BY <1>1, <1>3, OneRow
<1>5. Attempts' = Attempts
    BY <1>2, <1>4 DEF Attempts
<1>6. Revivals' = [Revivals EXCEPT ![e] = TRUE]
  <2>1. redriven' = [redriven EXCEPT ![e] = key] /\ key # NoKey
    BY OutboxAssumption DEF Redrive
  <2>2. QED  BY <1>1, <2>1 DEF Revivals
<1>7. QED
    BY <1>2, <1>4, <1>5, <1>6 DEF Delivery!Revive, Redrive, Statuses, Attempts, Revivals

(* The outbox implements OrderedDelivery: every step of a worker, an       *)
(* operator or the clock is a step of it or leaves it alone.               *)
THEOREM DeliversInOrderTheorem == Spec => DeliversInOrder
<1>1. Init => Delivery!DInit /\ StaleIsLocked
  <2> SUFFICES ASSUME Init PROVE Delivery!DInit /\ StaleIsLocked
    OBVIOUS
  <2>1. \A e \in Events : row[e] = NewRow /\ redriven[e] = NoKey
    BY DEF Init
  <2>2. QED  BY <2>1 DEF Init, Delivery!DInit, StaleIsLocked, NewRow, NoFence
<1>2. OutboxInv /\ StaleIsLocked /\ [Next]_vars => StaleIsLocked'
    BY StaleIsLockedStep
<1>3. OutboxInv /\ StaleIsLocked /\ [Next]_vars => [Delivery!DNext]_(Delivery!dvars)
  <2> SUFFICES ASSUME OutboxInv, StaleIsLocked, [Next]_vars PROVE [Delivery!DNext]_(Delivery!dvars)
    OBVIOUS
  <2>0. row \in [Events -> Row]
    BY DEF OutboxInv, TypeOK
  <2>1. CASE \E x \in Events : BecomeAvailable(x) \/ Expire(x)
    <3>1. \A e \in Events : row'[e].status = row[e].status /\ row'[e].lock = row[e].lock
      BY <2>0, <2>1 DEF BecomeAvailable, Expire, Row
    <3>2. QED  BY <2>1, <3>1, SameDelivery DEF BecomeAvailable, Expire
  <2>2. CASE \E x \in Events, available \in BOOLEAN : Enqueue(x, available)
    BY <2>2, EnqueuePuts DEF Delivery!DNext
  <2>3. CASE \E x \in Events, key \in RedriveKeys : Redrive(x, key)
    BY <2>3, RedriveRevives DEF Delivery!DNext
  <2>4. CASE \E u \in Workers : Claim(u)
    BY <2>4, ClaimOpens
  <2>5. CASE \E u \in Workers : Heartbeat(u)
    <3>1. \A e \in Events : row'[e].status = row[e].status /\ row'[e].lock = row[e].lock
      BY <2>0, <2>5 DEF Heartbeat, Row
    <3>2. QED  BY <2>5, <3>1, SameDelivery DEF Heartbeat
  <2>6. CASE \E u \in Workers : Release(u)
    BY <2>6, ReleaseCloses
  <2>7. CASE \E u \in Workers : Finalize(u)
    BY <2>7, FinalizeDecides
  <2>8. CASE \E u \in Workers, result \in Results : HandlerReturns(u, result)
    BY <2>8, HandlerSucceeds
  <2>9. CASE UNCHANGED <<row, fences, ok, expired, redriven>>
    BY <2>9, SameDelivery
  <2>10. QED
    BY <2>1, <2>2, <2>3, <2>4, <2>5, <2>6, <2>7, <2>8, <2>9
    DEF Next, Process, vars, Poll, Select, CheckContext, Start, CancelUnstarted,
        StopLease, WorkerOnly, Cancel, Crash, Restart
<1>4. QED
    BY <1>1, <1>2, <1>3, OutboxInvariant, PTL DEF Spec, DeliversInOrder, Delivery!DSpec
=============================================================================
