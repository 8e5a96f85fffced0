--------------------------- MODULE VideoSubmission ---------------------------
(***************************************************************************)
(* Paid video submissions in the browser: the composer's submit function   *)
(* (use-video-submission.ts), the recovery records it keeps in             *)
(* localStorage (video-studio-submission-store.ts), the identity checks of *)
(* video-submission-protocol.ts and api.ts, and the notice that closes a   *)
(* record once its generation has finished.                                *)
(*                                                                         *)
(* Several tabs share one localStorage.  Code between two awaits runs to   *)
(* completion in its tab, but localStorage has no lock: a block that       *)
(* changes records reads them in one step and writes them in another, and  *)
(* other tabs and the server work in between.  Blocks that only read are   *)
(* one step; sign-ins, remounts, edits and reloads come between blocks.    *)
(***************************************************************************)
EXTENDS Naturals, FiniteSets

CONSTANTS
  Tabs, Users, Ops,
  Contents,       \* what a request asks for, the token's group included
  NoUser,         \* a signed-out tab
  NotReady,       \* a form whose quote or references are not ready, or expired
  PendingLimit,   \* unresolved records one user may have (100 in the code)
  AcceptedKept,   \* accepted records kept when one is added (19 in the code)
  FaultyTabs,     \* the tabs in which localStorage may throw
  MaxEpoch, MaxMount  \* bounds on each tab's identity changes and composers

ASSUME VideoAssumption ==
  /\ NoUser \notin Users
  /\ Tabs # {}
  /\ Ops \subseteq Nat
  /\ NotReady \notin Contents
  /\ PendingLimit \in Nat /\ AcceptedKept \in Nat
  /\ FaultyTabs \subseteq Tabs
  /\ MaxEpoch \in [Tabs -> Nat] /\ MaxMount \in [Tabs -> Nat]

VARIABLES
  user,    \* useAuthStore: the user signed in to each tab
  epoch,   \* identityEpoch of each tab
  mount,   \* the instance of the composer each tab shows
  form,    \* what that composer would submit now
  mem,     \* useVideoStudioSubmissionStore of each tab
  store,   \* localStorage: the records of each user
  reading, \* the tabs in a block that has read the records and not yet written
  view,    \* the records such a block has read
  lost,    \* history: a write undid what another tab wrote since the read before it
  sub,     \* the submissions, by operation id
  verdict, \* server: what became of each POST
  done     \* server: operations whose generation is archiving or ready

tabVars == <<user, epoch, mount, form>>
storeVars == <<store, reading, view, lost>>
serverVars == <<verdict, done>>
vars == <<user, epoch, mount, form, mem, storeVars, sub, verdict, done>>

Once == INSTANCE SubmitOnce WITH
  Keys <- (Users \cup {NoUser}) \X (Contents \cup {NotReady}),
  key <- [o \in Ops |-> <<sub[o].user, sub[o].content>>],
  held <- {o \in Ops : \E u \in Users : store[u][o].state \in {"sending", "unknown"}}

-----------------------------------------------------------------------------
Record == [state : {"none", "sending", "unknown", "accepted"}, task : BOOLEAN]
NoRecord == [state |-> "none", task |-> FALSE]
NoRecords == [o \in Ops |-> NoRecord]
Unread == [u \in Users |-> NoRecords]
Pending(r) == r.state \in {"sending", "unknown"}

Memory == [owner : Users \cup {NoUser}, records : [Ops -> Record],
           storageError : BOOLEAN]
EmptyMemory == [owner |-> NoUser, records |-> NoRecords, storageError |-> FALSE]

Submission ==
  [pc : {"new", "hash", "checked", "begun", "attached", "undo", "wait", "mark", "over"},
   tab : Tabs, user : Users \cup {NoUser}, epoch : Nat, mount : Nat,
   content : Contents \cup {NotReady}, header : Users \cup {NoUser}]

\* The tab written for an operation that no tab is working on.
AnyTab == CHOOSE t \in Tabs : TRUE

Init ==
  /\ user = [t \in Tabs |-> NoUser]
  /\ epoch = [t \in Tabs |-> 0]
  /\ mount = [t \in Tabs |-> 0]
  /\ form = [t \in Tabs |-> NotReady]
  /\ mem = [t \in Tabs |-> EmptyMemory]
  /\ store = [u \in Users |-> NoRecords]
  /\ reading = {} /\ view = [t \in Tabs |-> Unread] /\ lost = FALSE
  /\ sub = [o \in Ops |->
       [pc |-> "new", tab |-> AnyTab, user |-> NoUser,
        epoch |-> 0, mount |-> 0, content |-> NotReady, header |-> NoUser]]
  /\ verdict = [o \in Ops |-> "none"]
  /\ done = {}

-----------------------------------------------------------------------------
(* Recovery records.                                                       *)

\* Whether the next access of tab t to localStorage works.
Works(t) == IF t \in FaultyTabs THEN BOOLEAN ELSE {TRUE}

\* hydrate: the memory of tab t after reading the records of u.
Hydrated(t, u, ok) ==
  IF u = NoUser THEN EmptyMemory
  ELSE IF ok THEN [owner |-> u, records |-> store[u], storageError |-> FALSE]
  ELSE [owner |-> u,
        records |-> IF mem[t].owner = u THEN mem[t].records ELSE NoRecords,
        storageError |-> TRUE]

\* Mutant: memory follows storage whoever is signed in.
MutMayShow(t, u) == TRUE

\* Whether the memory of tab t may show the records of u.
MayShow(t, u) == user[t] = u

\* The block of tab t that read the records is over.
Close(t) == reading' = reading \ {t} /\ view' = [view EXCEPT ![t] = Unread]

\* persistRecords: storage first, then the memory if its user is still here.
Persist(t, u, records) ==
  /\ t \in reading /\ Close(t)
  /\ store' = [store EXCEPT ![u] = records]
  /\ lost' = (lost \/ view[t][u] # store[u])
  /\ mem' = IF MayShow(t, u)
            THEN [mem EXCEPT ![t] = [owner |-> u, records |-> records,
                                     storageError |-> FALSE]]
            ELSE mem

\* storageFailure, when the read or the write throws: nothing is overwritten
\* and the guard in memory stays.
StorageFailure(t, u) ==
  mem' = IF MayShow(t, u)
         THEN [mem EXCEPT ![t].owner = u, ![t].storageError = TRUE]
         ELSE mem

PersistFails(t, u) ==
  /\ FALSE \in Works(t)
  /\ StorageFailure(t, u) /\ Close(t)
  /\ UNCHANGED <<store, lost>>

\* Mutant: without a task id there is nothing to verify, so nothing is kept.
MutMarked(records, o, task) ==
  [records EXCEPT ![o] = IF task /\ @.state # "none"
                         THEN [state |-> "unknown", task |-> TRUE]
                         ELSE NoRecord]

\* markUnknown and resolve change one record, when it is there.
Marked(records, o, task) ==
  [records EXCEPT ![o] =
     IF @.state = "none" THEN @
     ELSE [state |-> "unknown", task |-> @.task \/ task]]

Resolved(records, o) ==
  [records EXCEPT ![o] =
     IF @.state = "none" THEN @ ELSE [state |-> "accepted", task |-> TRUE]]

Removed(records, o) == [records EXCEPT ![o] = NoRecord]

Ended(s) == [s EXCEPT !.pc = "over", !.tab = AnyTab, !.epoch = 0, !.mount = 0]

-----------------------------------------------------------------------------
(* The tab.                                                                *)

\* No block of tab t is under way.
Free(t) ==
  /\ t \notin reading
  /\ \A o \in Ops : sub[o].tab = t => sub[o].pc \notin {"checked", "undo", "mark"}

\* The signed-in user or the session changes.  Only another user rehydrates.
SwitchIdentity(t, u) ==
  /\ Free(t) /\ epoch[t] < MaxEpoch[t]
  /\ ~(u = NoUser /\ user[t] = NoUser)
  /\ user' = [user EXCEPT ![t] = u]
  /\ epoch' = [epoch EXCEPT ![t] = @ + 1]
  /\ IF u = user[t] THEN mem' = mem
     ELSE \E ok \in Works(t) : mem' = [mem EXCEPT ![t] = Hydrated(t, u, ok)]
  /\ UNCHANGED <<mount, form, storeVars, sub, serverVars>>

\* A reload or a crash: every script of the tab ends, memory starts empty.
Reload(t) ==
  /\ user' = [user EXCEPT ![t] = NoUser]
  /\ epoch' = [epoch EXCEPT ![t] = 0]
  /\ mount' = [mount EXCEPT ![t] = 0]
  /\ form' = [form EXCEPT ![t] = NotReady]
  /\ mem' = [mem EXCEPT ![t] = EmptyMemory]
  /\ sub' = [o \in Ops |-> IF sub[o].tab = t /\ sub[o].pc # "new"
                           THEN Ended(sub[o]) ELSE sub[o]]
  /\ Close(t)
  /\ UNCHANGED <<store, lost, serverVars>>

\* The composer is unmounted and mounted again: mountedRef and
\* submissionBusyRef of the old instance are left to its submissions.
Remount(t) ==
  /\ Free(t) /\ mount[t] < MaxMount[t]
  /\ mount' = [mount EXCEPT ![t] = @ + 1]
  /\ UNCHANGED <<user, epoch, form, mem, storeVars, sub, serverVars>>

\* The form, the token, the quote or the references change.
Edit(t, c) ==
  /\ Free(t) /\ form[t] # c
  /\ form' = [form EXCEPT ![t] = c]
  /\ UNCHANGED <<user, epoch, mount, mem, storeVars, sub, serverVars>>

\* The storage event of another tab's write arrives, at some time after that
\* write, or the recovery notice mounts: the records are read again.
Rehydrate(t) ==
  /\ Free(t)
  /\ \E ok \in Works(t) : mem' = [mem EXCEPT ![t] = Hydrated(t, user[t], ok)]
  /\ UNCHANGED <<tabVars, storeVars, sub, serverVars>>

\* Mutant: the task id of a record is not looked at.
MutConfirmable(t) == {o \in done : Pending(mem[t].records[o])}

\* The records in memory that a list of finished generations can resolve.
Confirmable(t) ==
  {o \in done : Pending(mem[t].records[o]) /\ mem[t].records[o].task}

MayConfirm(t) ==
  user[t] # NoUser /\ mem[t].owner = user[t] /\ ~mem[t].storageError

\* confirmGenerations resolves the records that the list shows finished, each
\* in a read and a write of its own; one that another tab resolved meanwhile
\* is passed over here and written again, unchanged, by the code.
ConfirmGenerations(t, o) ==
  /\ MayConfirm(t) /\ o \in Confirmable(t)
  /\ \A p \in Ops : sub[p].tab = t => sub[p].pc \notin {"checked", "undo", "mark"}
  /\ \/ Persist(t, user[t], Resolved(view[t][user[t]], o))
     \/ PersistFails(t, user[t])
  /\ UNCHANGED <<tabVars, sub, serverVars>>

-----------------------------------------------------------------------------
(* One submission.                                                         *)

\* submissionBusyRef of the composer that tab t shows.
Busy(t) == \E o \in Ops : /\ sub[o].tab = t /\ sub[o].mount = mount[t]
                          /\ sub[o].pc \notin {"new", "over"}

\* Mutant: the user is compared, the epoch is not.
MutIsCurrentIdentity(s) ==
  /\ s.user # NoUser
  /\ s.user = user[s.tab]

\* isCurrentVideoSubmissionIdentity for the identity the submission captured.
\* api.ts captures a later one of its own: this check implies that one.
IsCurrentIdentity(s) ==
  /\ s.user # NoUser
  /\ s.user = user[s.tab]
  /\ s.epoch = epoch[s.tab]

\* verifyCurrentContext does not throw.
ContextVerified(s) ==
  /\ s.mount = mount[s.tab]
  /\ IsCurrentIdentity(s)
  /\ form[s.tab] = s.content

\* readRecords at the start of a block that changes records.  Which block it
\* is shows at its end: nothing that tells them apart changes in between
\* except at the server, whose steps might as well come before the read.
ReadRecords(t) ==
  /\ t \notin reading
  /\ \/ \E o \in Ops : sub[o].tab = t /\ sub[o].pc \in {"checked", "undo", "mark"}
     \/ \E o \in Ops : /\ sub[o].tab = t
                      /\ \/ sub[o].pc = "wait"
                         \/ sub[o].pc = "attached" /\ ~ContextVerified(sub[o])
     \/ MayConfirm(t) /\ Confirmable(t) # {}
  /\ reading' = reading \cup {t}
  /\ view' = [view EXCEPT ![t] = store]
  /\ UNCHANGED <<tabVars, mem, store, lost, sub, serverVars>>

\* submit returns; what only it had captured is gone.
Over(o) == sub' = [sub EXCEPT ![o] = Ended(@)]

\* submit up to the digest: guards, the identity, the frozen request.
\* Operation ids are random and alike: they are numbered in order of use.
Submit(o, t) ==
  /\ Free(t) /\ sub[o].pc = "new"
  /\ \A p \in Ops : p < o => sub[p].pc # "new"
  /\ ~Busy(t)
  /\ user[t] # NoUser
  /\ form[t] # NotReady
  /\ sub' = [sub EXCEPT ![o] =
       [pc |-> "hash", tab |-> t, user |-> user[t], epoch |-> epoch[t],
        mount |-> mount[t], content |-> form[t], header |-> NoUser]]
  /\ UNCHANGED <<tabVars, mem, storeVars, serverVars>>

\* Mutant: only the tab's own busy flag stops an equal request.
MutEquivalent(records, o) == FALSE

\* An unresolved record with the same fingerprint.
Equivalent(records, o) ==
  \E p \in Ops : Pending(records[p]) /\ sub[p].content = sub[o].content

\* The digest is there, but the submission does not start: the context
\* changed, the records cannot be read, or an equal request is unresolved.
NotBegun(o) ==
  LET s == sub[o] IN
  /\ s.pc = "hash" /\ Free(s.tab)
  /\ \/ ~ContextVerified(s) /\ mem' = mem
     \/ /\ ContextVerified(s)
        /\ FALSE \in Works(s.tab)
        /\ mem' = [mem EXCEPT ![s.tab] = Hydrated(s.tab, s.user, FALSE)]
     \/ /\ ContextVerified(s)
        /\ Equivalent(store[s.user], o)
        /\ mem' = [mem EXCEPT ![s.tab] = Hydrated(s.tab, s.user, TRUE)]
  /\ Over(o)
  /\ UNCHANGED <<tabVars, storeVars, serverVars>>

\* The context is verified and the records show no equal request.
Checked(o) ==
  LET s == sub[o] IN
  /\ s.pc = "hash" /\ Free(s.tab)
  /\ ContextVerified(s)
  /\ ~Equivalent(store[s.user], o)
  /\ mem' = [mem EXCEPT ![s.tab] = Hydrated(s.tab, s.user, TRUE)]
  /\ sub' = [sub EXCEPT ![o].pc = "checked"]
  /\ UNCHANGED <<tabVars, storeVars, serverVars>>

PendingOps(records) == {p \in Ops : Pending(records[p])}
AcceptedOps(records) == {p \in Ops : records[p].state = "accepted"}

\* What begin writes: unresolved records stay, the oldest accepted ones go.
Begun(records, o, kept) ==
  [p \in Ops |->
     IF p = o THEN [state |-> "sending", task |-> FALSE]
     ELSE IF p \in kept \/ Pending(records[p]) THEN records[p] ELSE NoRecord]

\* begin looks again, at the records it has read itself.
Begin(o) ==
  LET s == sub[o]
      records == view[s.tab][s.user] IN
  /\ s.pc = "checked"
  /\ ~Equivalent(records, o)
  /\ Cardinality(PendingOps(records)) < PendingLimit
  /\ \E kept \in SUBSET AcceptedOps(records) :
       /\ kept = AcceptedOps(records) \/ Cardinality(kept) = AcceptedKept
       /\ Cardinality(kept) <= AcceptedKept
       /\ Persist(s.tab, s.user, Begun(records, o, kept))
  /\ sub' = [sub EXCEPT ![o].pc = "begun"]
  /\ UNCHANGED <<tabVars, serverVars>>

\* begin throws: at an equal request that another tab has begun since the
\* check, at the limit, or because the storage does.
BeginFails(o) ==
  LET s == sub[o]
      records == view[s.tab][s.user] IN
  /\ s.pc = "checked"
  /\ \/ s.tab \in reading /\ Equivalent(records, o) /\ mem' = mem
     \/ /\ s.tab \in reading /\ ~Equivalent(records, o)
        /\ Cardinality(PendingOps(records)) >= PendingLimit
        /\ StorageFailure(s.tab, s.user)
     \/ FALSE \in Works(s.tab) /\ StorageFailure(s.tab, s.user)
  /\ Close(s.tab)
  /\ sub' = [sub EXCEPT ![o].pc = "undo"]
  /\ UNCHANGED <<tabVars, store, lost, serverVars>>

\* The mutation runs, at once or after an offline pause, and the request
\* interceptor puts the current user's token on the request.
Attach(o) ==
  /\ sub[o].pc = "begun" /\ Free(sub[o].tab)
  /\ sub' = [sub EXCEPT ![o] =
               [@ EXCEPT !.pc = "attached", !.header = user[sub[o].tab]]]
  /\ UNCHANGED <<tabVars, mem, storeVars, serverVars>>

\* The adapter: beforeSend passes, postInvoked is set and the POST leaves.
Send(o) ==
  /\ sub[o].pc = "attached" /\ Free(sub[o].tab)
  /\ ContextVerified(sub[o])
  /\ sub' = [sub EXCEPT ![o].pc = "wait"]
  /\ verdict' = [verdict EXCEPT ![o] = "undecided"]
  /\ UNCHANGED <<tabVars, mem, storeVars, done>>

\* The block that ends submission o: no other block of its tab is under way.
Ending(o) ==
  \A p \in Ops \ {o} : sub[p].tab = sub[o].tab => sub[p].pc \notin {"checked", "undo", "mark"}

\* begin or beforeSend threw: nothing was sent, so the record is removed.
NotSent(o) ==
  LET s == sub[o] IN
  /\ s.pc = "undo" \/ (s.pc = "attached" /\ ~ContextVerified(s))
  /\ Ending(o)
  /\ \/ Persist(s.tab, s.user, Removed(view[s.tab][s.user], o))
     \/ PersistFails(s.tab, s.user)
  /\ Over(o)
  /\ UNCHANGED <<tabVars, serverVars>>

\* A valid receipt: resolve; when that throws, markUnknown is tried without
\* the task id.
ReceiveReceipt(o) ==
  LET s == sub[o] IN
  /\ s.pc = "wait" /\ Ending(o)
  /\ verdict[o] = "accepted"
  /\ \/ Persist(s.tab, s.user, Resolved(view[s.tab][s.user], o)) /\ Over(o)
     \/ PersistFails(s.tab, s.user) /\ sub' = [sub EXCEPT ![o].pc = "mark"]
  /\ UNCHANGED <<tabVars, serverVars>>

\* One of the codes of rejectedVideoCodes: the record is removed.
ReceiveRejected(o) ==
  LET s == sub[o] IN
  /\ s.pc = "wait" /\ Ending(o)
  /\ verdict[o] = "refused"
  /\ \/ Persist(s.tab, s.user, Removed(view[s.tab][s.user], o))
     \/ PersistFails(s.tab, s.user)
  /\ Over(o)
  /\ UNCHANGED <<tabVars, serverVars>>

\* Anything else, a lost connection included: markUnknown, with the task id
\* when the answer carries one.
ReceiveUnknown(o, task) ==
  LET s == sub[o] IN
  /\ s.pc = "wait" \/ (s.pc = "mark" /\ ~task)
  /\ Ending(o)
  /\ task => verdict[o] # "refused"
  /\ \/ Persist(s.tab, s.user, Marked(view[s.tab][s.user], o, task))
     \/ PersistFails(s.tab, s.user)
  /\ Over(o)
  /\ UNCHANGED <<tabVars, serverVars>>

-----------------------------------------------------------------------------
(* The server, as far as the browser can tell.                             *)

Decide(o) ==
  /\ verdict[o] = "undecided"
  /\ \E v \in {"accepted", "refused"} :
       verdict' = [verdict EXCEPT ![o] = v]
  /\ UNCHANGED <<tabVars, mem, storeVars, sub, done>>

Finish(o) ==
  /\ verdict[o] = "accepted" /\ o \notin done
  /\ done' = done \cup {o}
  /\ UNCHANGED <<tabVars, mem, storeVars, sub, verdict>>

-----------------------------------------------------------------------------
TabStep(t) ==
  \/ \E u \in Users \cup {NoUser} : SwitchIdentity(t, u)
  \/ Reload(t)
  \/ Remount(t)
  \/ \E c \in Contents \cup {NotReady} : Edit(t, c)
  \/ Rehydrate(t)
  \/ ReadRecords(t)
  \/ \E o \in Ops : ConfirmGenerations(t, o)
  \/ \E o \in Ops : Submit(o, t)

SubmissionStep(o) ==
  \/ NotBegun(o) \/ Checked(o) \/ Begin(o) \/ BeginFails(o)
  \/ Attach(o) \/ Send(o) \/ NotSent(o)
  \/ ReceiveReceipt(o) \/ ReceiveRejected(o)
  \/ \E task \in BOOLEAN : ReceiveUnknown(o, task)
  \/ Decide(o) \/ Finish(o)

Next == (\E t \in Tabs : TabStep(t)) \/ (\E o \in Ops : SubmissionStep(o))

Spec == Init /\ [][Next]_vars

-----------------------------------------------------------------------------
(* Properties.                                                             *)

TypeOK ==
  /\ user \in [Tabs -> Users \cup {NoUser}]
  /\ epoch \in [Tabs -> Nat]
  /\ mount \in [Tabs -> Nat]
  /\ form \in [Tabs -> Contents \cup {NotReady}]
  /\ mem \in [Tabs -> Memory]
  /\ store \in [Users -> [Ops -> Record]]
  /\ reading \subseteq Tabs /\ view \in [Tabs -> [Users -> [Ops -> Record]]] /\ lost \in BOOLEAN
  /\ sub \in [Ops -> Submission]
  /\ verdict \in [Ops -> Once!Verdicts]
  /\ done \subseteq Ops

\* Stored records, and what a block has read of them.
Shelves == {store} \cup {view[t] : t \in Tabs}

\* A record belongs to the user that began it, wherever it is kept.
RecordsOwned ==
  \A s \in Shelves, o \in Ops, u \in Users :
    s[u][o].state # "none" => sub[o].user = u

\* A record is accepted, and a generation finished, on the server's word.
AcceptedTrue ==
  /\ \A s \in Shelves, o \in Ops, u \in Users :
       s[u][o].state = "accepted" => verdict[o] = "accepted"
  /\ \A o \in done : verdict[o] = "accepted"

\* A task id is known only once the submission has ended, and nobody has a
\* record of an operation that has not begun.
TaskAfterAnswer ==
  \A o \in Ops :
    /\ sub[o].pc # "over" =>
         /\ \A s \in Shelves, u \in Users : ~s[u][o].task
         /\ \A t \in Tabs : ~mem[t].records[o].task
    /\ sub[o].pc \in {"new", "hash", "checked"} =>
         /\ \A s \in Shelves, u \in Users : s[u][o].state = "none"
         /\ \A t \in Tabs : mem[t].records[o].state = "none"

\* The POST of an operation is out, or not.
Posted ==
  \A o \in Ops :
    /\ sub[o].pc \in {"new", "hash", "checked", "begun", "attached", "undo"} => verdict[o] = "none"
    /\ sub[o].pc \in {"wait", "mark"} => verdict[o] # "none"
    /\ sub[o].pc # "new" => sub[o].user \in Users

\* Unless a tab undid what another wrote, an operation has its record from
\* begin until its outcome is known ...
RecordKept ==
  \A o \in Ops :
    sub[o].pc \in {"begun", "attached", "wait", "mark"} \/ verdict[o] = "undecided" =>
      Pending(store[sub[o].user][o])

\* ... and two unresolved records of a user are for different requests.
PendingDistinct ==
  \A u \in Users : \A o, p \in Ops :
    (o # p /\ Pending(store[u][o]) /\ Pending(store[u][p])) =>
      sub[o].content # sub[p].content

RecordsSound ==
  /\ RecordsOwned /\ AcceptedTrue /\ TaskAfterAnswer /\ Posted
  /\ ~lost => RecordKept /\ PendingDistinct

\* Until the POST leaves, an unchanged epoch means an unchanged user, also
\* for the token the interceptor attached.
IdentitySound ==
  \A o \in Ops :
    LET s == sub[o] IN
    s.pc \in {"hash", "checked", "begun", "attached"} =>
      /\ s.epoch <= epoch[s.tab]
      /\ s.epoch = epoch[s.tab] =>
           s.user = user[s.tab] /\ (s.pc = "attached" => s.header = s.user)

\* A tab that is alone undoes nothing: what it has read is what is stored.
Alone == \A t, x \in Tabs : t = x
AloneSound ==
  Alone => ~lost /\ \A t \in reading : view[t] = store

\* What the records, the identities and the answers mean in every state; the
\* promises about other tabs' records end with the first lost update.
SubmissionInv == TypeOK /\ RecordsSound /\ IdentitySound /\ AloneSound

\* A POST carries the token of the user whose quote and record it is, also
\* when users were switched, or switched and back, while the request waited
\* for the network (beforeSend and the identity epoch).
PostedAsSubmitter ==
  \A o \in Ops : verdict[o] # "none" => sub[o].header = sub[o].user

\* A tab shows recovery records of the user signed in to it and of nobody
\* else, whatever submissions of earlier users still write from that tab.
OwnRecordsOnly ==
  \A t \in Tabs :
    /\ mem[t].owner = user[t]
    /\ \A o \in Ops : mem[t].records[o].state # "none" =>
         user[t] # NoUser /\ sub[o].user = user[t]

\* As long as no tab undid what another wrote, the records guard submissions
\* as SubmitOnce promises: a request that may still be charged keeps its place
\* through reloads, sign-outs, other tabs and failed writes, and no equal one
\* is sent meanwhile (begin, resolve and markUnknown of the store).
GuardsSubmissions ==
  Once!SInit /\ [][~lost' => [Once!SNext]_(Once!svars)]_vars

\* Of two equal requests of a user at most one can still turn into a charge,
\* unless a tab undid what another wrote: only then did both pass begin.
NoSecondCharge == ~lost => Once!AtMostOneUndecided

\* A record that was accepted never becomes unresolved again, unless a tab
\* undid what another wrote: a late answer or a stale memory cannot undo what
\* a receipt or a generation proved.
AcceptedIsFinal ==
  [][~lost' => \A u \in Users, o \in Ops :
       store[u][o].state = "accepted" => ~Pending(store'[u][o])]_vars
=============================================================================
