----------------------- MODULE VideoSubmissionProofs -----------------------
(***************************************************************************)
(* Proofs about VideoSubmission, for any tabs, users, contents and         *)
(* operations: its invariants and that it implements SubmitOnce as long as *)
(* no tab has undone what another wrote.                                   *)
(***************************************************************************)
EXTENDS VideoSubmission, TLAPS

Records == [Ops -> Record]
Anyone == Users \cup {NoUser}

-----------------------------------------------------------------------------
(* What the record operators return.                                       *)

LEMMA NoRecordsType ==
  /\ NoRecords \in Records /\ EmptyMemory \in Memory
  /\ Unread \in [Users -> Records] /\ NoRecord \in Record
BY DEF NoRecords, NoRecord, Record, Records, EmptyMemory, Memory, Unread

LEMMA AnyTabType == AnyTab \in Tabs
BY VideoAssumption DEF AnyTab

LEMMA EndedType ==
  ASSUME NEW s \in Submission
  PROVE  /\ Ended(s) \in Submission
         /\ Ended(s).pc = "over"
         /\ Ended(s).user = s.user
         /\ Ended(s).content = s.content
         /\ Ended(s).header = s.header
BY AnyTabType DEF Ended, Submission

\* r is r0 with the record of o left alone, removed, marked or resolved.
Rewrite(r0, o, r) ==
  /\ r \in Records
  /\ \A p \in Ops \ {o} : r[p] = r0[p]
  /\ \/ r[o] = r0[o]
     \/ r[o] = NoRecord
     \/ r0[o].state # "none" /\ r[o].state \in {"unknown", "accepted"}

LEMMA MarkedFacts ==
  ASSUME NEW r \in Records, NEW o \in Ops, NEW task \in BOOLEAN
  PROVE  /\ Rewrite(r, o, Marked(r, o, task))
         /\ r[o].state = "none" => Marked(r, o, task)[o] = r[o]
         /\ r[o].state # "none" => Marked(r, o, task)[o].state = "unknown"
BY DEF Marked, Records, Record, Rewrite

LEMMA ResolvedFacts ==
  ASSUME NEW r \in Records, NEW o \in Ops
  PROVE  /\ Rewrite(r, o, Resolved(r, o))
         /\ r[o].state = "none" => Resolved(r, o)[o] = r[o]
         /\ r[o].state # "none" => Resolved(r, o)[o].state = "accepted"
BY DEF Resolved, Records, Record, Rewrite

LEMMA RemovedFacts ==
  ASSUME NEW r \in Records, NEW o \in Ops
  PROVE  Rewrite(r, o, Removed(r, o)) /\ Removed(r, o)[o] = NoRecord
BY NoRecordsType DEF Removed, Records, Rewrite

\* begin keeps unresolved records, some accepted ones, and adds its own.
LEMMA BegunFacts ==
  ASSUME NEW r \in Records, NEW o \in Ops, NEW kept
  PROVE  /\ Begun(r, o, kept) \in Records
         /\ Begun(r, o, kept)[o] = [state |-> "sending", task |-> FALSE]
         /\ \A p \in Ops : Pending(r[p]) /\ p # o => Begun(r, o, kept)[p] = r[p]
         /\ \A p \in Ops \ {o} : Begun(r, o, kept)[p] = r[p] \/ Begun(r, o, kept)[p] = NoRecord
BY NoRecordsType DEF Begun, Records, Record

LEMMA HydratedType ==
  ASSUME TypeOK, NEW t \in Tabs, NEW u \in Anyone, NEW ok \in BOOLEAN
  PROVE  Hydrated(t, u, ok) \in Memory
BY NoRecordsType DEF Hydrated, TypeOK, Memory, Records, Anyone

LEMMA WorksType == ASSUME NEW t PROVE Works(t) \subseteq BOOLEAN
BY DEF Works

-----------------------------------------------------------------------------
(* The types of what a step changes.                                       *)

TabTypes ==
  /\ user \in [Tabs -> Anyone] /\ epoch \in [Tabs -> Nat] /\ mount \in [Tabs -> Nat]
  /\ form \in [Tabs -> Contents \cup {NotReady}]

StoreTypes ==
  /\ store \in [Users -> Records] /\ reading \subseteq Tabs
  /\ view \in [Tabs -> [Users -> Records]] /\ lost \in BOOLEAN

ServerTypes == verdict \in [Ops -> Once!Verdicts] /\ done \subseteq Ops

LEMMA TypeParts ==
  TypeOK <=> /\ TabTypes /\ StoreTypes /\ ServerTypes
             /\ mem \in [Tabs -> Memory] /\ sub \in [Ops -> Submission]
BY DEF TypeOK, TabTypes, StoreTypes, ServerTypes, Anyone, Records

LEMMA TypePartsNext ==
  ASSUME TabTypes', StoreTypes', ServerTypes', (mem \in [Tabs -> Memory])',
         (sub \in [Ops -> Submission])'
  PROVE  TypeOK'
BY DEF TypeOK, TabTypes, StoreTypes, ServerTypes, Anyone, Records

LEMMA SameTypes ==
  ASSUME TypeOK
  PROVE  /\ UNCHANGED tabVars => TabTypes'
         /\ UNCHANGED storeVars => StoreTypes'
         /\ UNCHANGED serverVars => ServerTypes'
BY TypeParts DEF TabTypes, StoreTypes, ServerTypes, tabVars, storeVars, serverVars

LEMMA CloseFacts ==
  ASSUME TypeOK, NEW t \in Tabs, Close(t)
  PROVE  /\ reading' \subseteq Tabs /\ t \notin reading'
         /\ view' \in [Tabs -> [Users -> Records]]
         /\ view'[t] = Unread
         /\ \A x \in Tabs \ {t} : view'[x] = view[x] /\ (x \in reading' <=> x \in reading)
BY NoRecordsType, TypeParts DEF Close, StoreTypes

\* A write: the view it rests on is closed, and only one user's records change.
LEMMA PersistFacts ==
  ASSUME TypeOK, NEW t \in Tabs, NEW u \in Users, NEW r \in Records,
         Persist(t, u, r)
  PROVE  /\ StoreTypes' /\ (mem \in [Tabs -> Memory])'
         /\ t \in reading
         /\ store'[u] = r /\ \A w \in Users \ {u} : store'[w] = store[w]
         /\ lost' = (lost \/ view[t][u] # store[u])
<1>1. /\ store' \in [Users -> Records]
      /\ store'[u] = r /\ \A w \in Users \ {u} : store'[w] = store[w]
  BY TypeParts DEF Persist, StoreTypes
<1>2. mem' \in [Tabs -> Memory]
  <2>1. [owner |-> u, records |-> r, storageError |-> FALSE] \in Memory
    BY DEF Memory, Records
  <2>. QED BY <2>1 DEF Persist, TypeOK
<1>3. t \in reading /\ lost' = (lost \/ view[t][u] # store[u]) /\ Close(t)
  BY DEF Persist
<1>4. lost' \in BOOLEAN
  BY <1>3 DEF TypeOK
<1>. QED BY <1>1, <1>2, <1>3, <1>4, CloseFacts DEF StoreTypes

LEMMA FailureType ==
  ASSUME TypeOK, NEW t \in Tabs, NEW u \in Users, StorageFailure(t, u)
  PROVE  (mem \in [Tabs -> Memory])'
<1>1. mem[t] \in Memory
  BY DEF TypeOK
<1>2. [mem[t] EXCEPT !.owner = u, !.storageError = TRUE] \in Memory
  BY <1>1 DEF Memory
<1>. QED BY <1>2 DEF StorageFailure, TypeOK

-----------------------------------------------------------------------------
(* How submissions move on.                                                *)

\* Operations without a record, and operations that must have one.
Early == {"new", "hash", "checked"}
Needs(o) == sub[o].pc \in {"begun", "attached", "wait", "mark"} \/ verdict[o] = "undecided"

\* What an operation passed stays behind it, and it keeps its request.
SubMono ==
  \A o \in Ops :
    /\ sub[o].pc = "over" => sub'[o].pc = "over"
    /\ sub[o].pc \notin Early => sub'[o].pc \notin Early
    /\ sub[o].pc # "new" => /\ sub'[o].pc # "new"
                            /\ sub'[o].user = sub[o].user
                            /\ sub'[o].content = sub[o].content

VerdictMono == \A o \in Ops : verdict[o] = "accepted" => verdict'[o] = "accepted"

\* Submission o goes to pc and the others stay where they are.
Moves(o, pc) ==
  /\ \A p \in Ops \ {o} : sub'[p] = sub[p]
  /\ sub'[o].pc = pc /\ sub'[o].user = sub[o].user
  /\ sub'[o].content = sub[o].content /\ sub'[o].header = sub[o].header
  /\ pc # "over" => sub'[o].tab = sub[o].tab /\ sub'[o].epoch = sub[o].epoch

LEMMA PcMoves ==
  ASSUME TypeOK, NEW o \in Ops, NEW pc \in {"checked", "begun", "undo", "wait", "mark"},
         sub' = [sub EXCEPT ![o].pc = pc]
  PROVE  (sub \in [Ops -> Submission])' /\ Moves(o, pc)
<1>1. sub[o] \in Submission /\ sub \in [Ops -> Submission]
  BY DEF TypeOK
<1>2. [sub[o] EXCEPT !.pc = pc] \in Submission
  BY <1>1 DEF Submission
<1>3. sub' = [sub EXCEPT ![o] = [sub[o] EXCEPT !.pc = pc]]
  BY <1>1
<1>4. sub' \in [Ops -> Submission] /\ \A p \in Ops \ {o} : sub'[p] = sub[p]
  BY <1>1, <1>2, <1>3
<1>5. sub'[o] = [sub[o] EXCEPT !.pc = pc]
  BY <1>1, <1>3
<1>. QED BY <1>1, <1>4, <1>5 DEF Submission, Moves

LEMMA OverMoves ==
  ASSUME TypeOK, NEW o \in Ops, Over(o)
  PROVE  (sub \in [Ops -> Submission])' /\ Moves(o, "over")
<1>1. sub[o] \in Submission /\ sub \in [Ops -> Submission]
  BY DEF TypeOK
<1>2. sub' = [sub EXCEPT ![o] = Ended(sub[o])]
  BY <1>1 DEF Over
<1>. QED BY <1>1, <1>2, EndedType DEF Moves

-----------------------------------------------------------------------------
(* The inductive invariant, and how its parts survive a step.              *)

IInv == SubmissionInv /\ OwnRecordsOnly /\ PostedAsSubmitter

\* What a step may leave in a record of o that u has.
GoodNext(u, o, r) ==
  /\ r.state # "none" => sub'[o].user = u /\ sub'[o].pc \notin Early
  /\ r.state = "accepted" => verdict'[o] = "accepted"
  /\ r.task => sub'[o].pc = "over"

\* A view is kept, taken from storage or given up.
ViewStep ==
  \A x \in Tabs :
    \/ view'[x] = view[x] /\ (x \in reading' => x \in reading)
    \/ view'[x] = store /\ store' = store
    \/ view'[x] = Unread /\ x \notin reading'

\* Stored records are old ones, from storage or a view, or good ones.
StoreStep ==
  \A u \in Users, o \in Ops :
    \/ store'[u][o] = store[u][o]
    \/ \E t \in Tabs : store'[u][o] = view[t][u][o]
    \/ GoodNext(u, o, store'[u][o])

\* The memory of every tab after a step: what it was, nothing, or the stored
\* records, and always under the signed-in user.
MemFollows ==
  \A x \in Tabs :
    /\ mem'[x].owner = user'[x]
    /\ \/ mem'[x].records = NoRecords
       \/ user'[x] \in Users /\ mem'[x].records = store'[user'[x]]
       \/ user'[x] = user[x] /\ mem'[x].records = mem[x].records

\* A record, wherever it is kept, is good in this sense.
LEMMA GoodNow ==
  ASSUME IInv, NEW s \in Shelves, NEW u \in Users, NEW o \in Ops
  PROVE  /\ s[u][o].state # "none" => sub[o].user = u /\ sub[o].pc \notin Early
         /\ s[u][o].state = "accepted" => verdict[o] = "accepted"
         /\ s[u][o].task => sub[o].pc = "over"
BY DEF IInv, SubmissionInv, RecordsSound, RecordsOwned, AcceptedTrue, TaskAfterAnswer, Early

LEMMA ShelfIn == store \in Shelves /\ \A t \in Tabs : view[t] \in Shelves
BY DEF Shelves

LEMMA EarlyNew == ASSUME NEW pc, pc \notin Early PROVE pc # "new"
BY DEF Early

LEMMA GoodStays ==
  ASSUME IInv, SubMono, VerdictMono, NEW s \in Shelves, NEW u \in Users, NEW o \in Ops
  PROVE  GoodNext(u, o, s[u][o])
BY GoodNow, EarlyNew DEF GoodNext, SubMono, VerdictMono

\* Records, views and memories after a step that follows these rules.
LEMMA ShelvesStep ==
  ASSUME IInv, TypeOK', SubMono, VerdictMono, ViewStep, StoreStep
  PROVE  \A s \in Shelves', u \in Users, o \in Ops : GoodNext(u, o, s[u][o])
<1>1. \A u \in Users, o \in Ops :
        /\ GoodNext(u, o, store[u][o])
        /\ \A t \in Tabs : GoodNext(u, o, view[t][u][o])
        /\ GoodNext(u, o, NoRecord)
  BY GoodStays, ShelfIn DEF GoodNext, NoRecord
<1>2. \A u \in Users, o \in Ops : GoodNext(u, o, store'[u][o])
  <2> SUFFICES ASSUME NEW u \in Users, NEW o \in Ops PROVE GoodNext(u, o, store'[u][o])
    OBVIOUS
  <2>1. CASE store'[u][o] = store[u][o]
    BY <1>1, <2>1
  <2>2. CASE \E t \in Tabs : store'[u][o] = view[t][u][o]
    BY <1>1, <2>2
  <2>. QED BY <2>1, <2>2 DEF StoreStep
<1>3. \A x \in Tabs, u \in Users, o \in Ops : GoodNext(u, o, view'[x][u][o])
  <2> SUFFICES ASSUME NEW x \in Tabs, NEW u \in Users, NEW o \in Ops
               PROVE  GoodNext(u, o, view'[x][u][o])
    OBVIOUS
  <2>1. CASE view'[x] = view[x]
    BY <1>1, <2>1
  <2>2. CASE view'[x] = store
    BY <1>1, <2>2
  <2>3. CASE view'[x] = Unread
    <3>1. view'[x][u][o] = NoRecord
      BY <2>3 DEF Unread, NoRecords
    <3>. QED BY <1>1, <3>1
  <2>. QED BY <2>1, <2>2, <2>3 DEF ViewStep
<1> SUFFICES ASSUME NEW s \in Shelves', NEW u \in Users, NEW o \in Ops
             PROVE  GoodNext(u, o, s[u][o])
  OBVIOUS
<1>4. s = store' \/ \E x \in Tabs : s = view'[x]
  BY DEF Shelves
<1>. QED BY <1>2, <1>3, <1>4

LEMMA MemoryStep ==
  ASSUME IInv, TypeOK', SubMono, MemFollows,
         \A s \in Shelves', u \in Users, o \in Ops : GoodNext(u, o, s[u][o])
  PROVE  /\ OwnRecordsOnly'
         /\ \A x \in Tabs, o \in Ops :
              /\ mem'[x].records[o].task => sub'[o].pc = "over"
              /\ mem'[x].records[o].state # "none" => sub'[o].pc \notin Early
<1>1. \A x \in Tabs, o \in Ops :
        /\ mem'[x].records[o].task => sub'[o].pc = "over"
        /\ mem'[x].records[o].state # "none" =>
             /\ sub'[o].pc \notin Early
             /\ user'[x] # NoUser /\ sub'[o].user = user'[x]
  <2> SUFFICES ASSUME NEW x \in Tabs, NEW o \in Ops
               PROVE  /\ mem'[x].records[o].task => sub'[o].pc = "over"
                      /\ mem'[x].records[o].state # "none" =>
                           /\ sub'[o].pc \notin Early
                           /\ user'[x] # NoUser /\ sub'[o].user = user'[x]
    OBVIOUS
  <2>1. CASE mem'[x].records = NoRecords
    BY <2>1 DEF NoRecords, NoRecord
  <2>2. CASE user'[x] \in Users /\ mem'[x].records = store'[user'[x]]
    <3>1. NoUser \notin Users /\ store' \in Shelves'
      BY VideoAssumption DEF Shelves
    <3>2. GoodNext(user'[x], o, store'[user'[x]][o])
      BY <2>2, <3>1
    <3>. QED BY <2>2, <3>1, <3>2 DEF GoodNext
  <2>3. CASE user'[x] = user[x] /\ mem'[x].records = mem[x].records
    <3>1. /\ mem[x].records[o].task => sub[o].pc = "over"
          /\ mem[x].records[o].state # "none" =>
               sub[o].pc \notin Early /\ user[x] # NoUser /\ sub[o].user = user[x]
      BY DEF IInv, SubmissionInv, RecordsSound, TaskAfterAnswer, OwnRecordsOnly, Early
    <3>. QED BY <2>3, <3>1, EarlyNew DEF SubMono
  <2>. QED BY <2>1, <2>2, <2>3 DEF MemFollows
<1>2. OwnRecordsOnly'
  BY <1>1 DEF OwnRecordsOnly, MemFollows
<1>. QED BY <1>1, <1>2

\* What a step must show for the invariant to hold after it.
LEMMA Assemble ==
  ASSUME IInv, TypeOK', SubMono, VerdictMono, ViewStep, StoreStep, MemFollows,
         \A o \in done' : verdict'[o] = "accepted",
         Posted', ~lost' => RecordKept' /\ PendingDistinct',
         IdentitySound', AloneSound', PostedAsSubmitter'
  PROVE  IInv'
<1>1. \A s \in Shelves', u \in Users, o \in Ops : GoodNext(u, o, s[u][o])
  BY ShelvesStep
<1>2. /\ OwnRecordsOnly'
      /\ \A x \in Tabs, o \in Ops :
           /\ mem'[x].records[o].task => sub'[o].pc = "over"
           /\ mem'[x].records[o].state # "none" => sub'[o].pc \notin Early
  BY <1>1, MemoryStep
<1>3. RecordsOwned' /\ AcceptedTrue'
  BY <1>1 DEF GoodNext, RecordsOwned, AcceptedTrue
<1>4. TaskAfterAnswer'
  BY <1>1, <1>2 DEF GoodNext, TaskAfterAnswer, Early
<1>. QED BY <1>2, <1>3, <1>4 DEF IInv, SubmissionInv, RecordsSound

\* A step that takes no place and gives none back that is still needed.
KeepStep ==
  /\ lost => lost'
  /\ ~lost' =>
       /\ \A u \in Users, o \in Ops : Pending(store'[u][o]) => Pending(store[u][o])
       /\ \A o \in Ops : Needs(o)' =>
            /\ Needs(o)
            /\ \A u \in Users : sub[o].user = u /\ Pending(store[u][o]) => Pending(store'[u][o])

LEMMA NeedsNotNew ==
  ASSUME IInv, NEW o \in Ops, Needs(o)
  PROVE  sub[o].pc # "new" /\ sub[o].user \in Users
BY DEF IInv, SubmissionInv, RecordsSound, Posted, Needs

LEMMA KeepStepKeeps ==
  ASSUME IInv, SubMono, KeepStep, ~lost'
  PROVE  RecordKept' /\ PendingDistinct'
<1>1. ~lost /\ RecordKept /\ PendingDistinct
  BY DEF IInv, SubmissionInv, RecordsSound, KeepStep
<1>2. RecordKept'
  <2> SUFFICES ASSUME NEW o \in Ops, Needs(o)' PROVE Pending(store'[sub'[o].user][o])
    BY DEF RecordKept, Needs, Pending
  <2>1. Needs(o)
    BY DEF KeepStep
  <2>2. sub'[o].user = sub[o].user /\ sub[o].user \in Users
    BY <2>1, NeedsNotNew DEF SubMono
  <2>3. Pending(store[sub[o].user][o])
    BY <1>1, <2>1 DEF RecordKept, Needs
  <2>. QED BY <2>2, <2>3 DEF KeepStep
<1>3. PendingDistinct'
  <2>1. \A u \in Users, o \in Ops : Pending(store'[u][o]) =>
          Pending(store[u][o]) /\ sub'[o].content = sub[o].content
    <3> SUFFICES ASSUME NEW u \in Users, NEW o \in Ops, Pending(store'[u][o])
                 PROVE  Pending(store[u][o]) /\ sub'[o].content = sub[o].content
      OBVIOUS
    <3>1. Pending(store[u][o])
      BY DEF KeepStep
    <3>2. sub[o].pc # "new"
      BY <3>1, GoodNow, ShelfIn, EarlyNew DEF Pending
    <3>. QED BY <3>1, <3>2 DEF SubMono
  <2>. QED BY <1>1, <2>1 DEF PendingDistinct, Pending
<1>. QED BY <1>2, <1>3

\* Storage is left alone: nothing that was needed is lost.
LEMMA QuietStep ==
  ASSUME IInv, TypeOK', store' = store, lost' = lost, ViewStep
  PROVE  /\ StoreStep /\ AloneSound'
         /\ (\A o \in Ops : Needs(o)' => Needs(o)) => KeepStep
<1>1. AloneSound'
  <2>1. Alone' => Alone
    BY DEF Alone
  <2>2. ASSUME Alone PROVE ~lost' /\ \A x \in reading' : view'[x] = store'
    <3>1. ~lost /\ \A t \in reading : view[t] = store
      BY <2>2 DEF IInv, SubmissionInv, AloneSound
    <3>2. \A x \in reading' : x \in Tabs
      BY DEF TypeOK
    <3>. QED BY <3>1, <3>2 DEF ViewStep
  <2>. QED BY <2>1, <2>2 DEF AloneSound
<1>2. KeepStep \/ ~(\A o \in Ops : Needs(o)' => Needs(o))
  BY DEF KeepStep, Pending
<1>. QED BY <1>1, <1>2 DEF StoreStep

\* The moves of a submission between two blocks, and what they preserve.
Move == {<<"hash", "over">>, <<"hash", "checked">>, <<"checked", "begun">>,
         <<"checked", "undo">>, <<"undo", "over">>, <<"attached", "over">>,
         <<"wait", "over">>, <<"wait", "mark">>, <<"mark", "over">>}

LEMMA MovesKeep ==
  ASSUME IInv, NEW o \in Ops, NEW pc, Moves(o, pc), <<sub[o].pc, pc>> \in Move,
         UNCHANGED <<tabVars, serverVars>>
  PROVE  /\ SubMono /\ VerdictMono /\ Posted' /\ IdentitySound' /\ PostedAsSubmitter'
         /\ \A p \in done' : verdict'[p] = "accepted"
         /\ verdict' = verdict
         /\ \A p \in Ops : sub'[p].user = sub[p].user /\ sub'[p].content = sub[p].content
         /\ sub[o].user \in Users /\ sub[o].tab \in Tabs
         /\ pc # "begun" => \A p \in Ops : Needs(p)' => Needs(p)
<1>0. /\ verdict' = verdict /\ done' = done /\ user' = user /\ epoch' = epoch
      /\ sub[o].pc # "new" /\ pc # "new" /\ pc # "hash" /\ pc # "attached"
  BY DEF tabVars, serverVars, Move
<1>1. \A p \in Ops : sub'[p].user = sub[p].user /\ sub'[p].content = sub[p].content
  BY DEF Moves
<1>2. SubMono
  BY <1>0, <1>1 DEF SubMono, Moves, Move, Early
<1>3. VerdictMono /\ \A p \in done' : verdict'[p] = "accepted"
  BY <1>0 DEF VerdictMono, IInv, SubmissionInv, RecordsSound, AcceptedTrue
<1>4. Posted'
  BY <1>0, <1>1 DEF Posted, IInv, SubmissionInv, RecordsSound, Moves, Move
<1>5. IdentitySound'
  <2>1. \A p \in Ops : sub'[p] = sub[p] \/ p = o
    BY DEF Moves
  <2>2. sub'[o].pc \in {"hash", "checked", "begun", "attached"} =>
          /\ sub[o].pc \in {"hash", "checked", "begun", "attached"}
          /\ sub'[o].pc # "attached"
          /\ sub'[o].epoch = sub[o].epoch /\ sub'[o].tab = sub[o].tab
          /\ sub'[o].user = sub[o].user
    BY <1>0 DEF Moves, Move
  <2>. QED BY <1>0, <2>1, <2>2 DEF IdentitySound, IInv, SubmissionInv
<1>6. PostedAsSubmitter'
  BY <1>0, <1>1 DEF PostedAsSubmitter, IInv, Moves
<1>7. sub[o].user \in Users /\ sub[o].tab \in Tabs
  BY <1>0 DEF IInv, SubmissionInv, RecordsSound, Posted, TypeOK, Submission
<1>8. pc # "begun" => \A p \in Ops : Needs(p)' => Needs(p)
  BY <1>0 DEF Needs, Moves, Move
<1>. QED BY <1>0, <1>1, <1>2, <1>3, <1>4, <1>5, <1>6, <1>7, <1>8

-----------------------------------------------------------------------------
(* Memory and storage, by the kind of access.                              *)

LEMMA SameMemory ==
  ASSUME OwnRecordsOnly, mem' = mem, user' = user
  PROVE  MemFollows
BY DEF OwnRecordsOnly, MemFollows

LEMMA HydratedFollows ==
  ASSUME NEW t \in Tabs, NEW u \in Anyone, NEW ok \in BOOLEAN, OwnRecordsOnly
  PROVE  /\ Hydrated(t, u, ok).owner = u
         /\ \/ Hydrated(t, u, ok).records = NoRecords
            \/ u \in Users /\ Hydrated(t, u, ok).records = store[u]
            \/ u = user[t] /\ Hydrated(t, u, ok).records = mem[t].records
BY DEF Hydrated, EmptyMemory, Anyone, OwnRecordsOnly

LEMMA OneTabFollows ==
  ASSUME TypeOK, OwnRecordsOnly, NEW t \in Tabs, NEW m \in Memory,
         mem' = [mem EXCEPT ![t] = m],
         \A x \in Tabs \ {t} : user'[x] = user[x],
         m.owner = user'[t],
         \/ m.records = NoRecords
         \/ user'[t] \in Users /\ m.records = store'[user'[t]]
         \/ user'[t] = user[t] /\ m.records = mem[t].records
  PROVE  MemFollows
<1>1. mem'[t] = m /\ \A x \in Tabs \ {t} : mem'[x] = mem[x]
  BY DEF TypeOK
<1>. QED BY <1>1 DEF MemFollows, OwnRecordsOnly

\* The records of the user now signed in are read, or reading them fails.
LEMMA HydrateStep ==
  ASSUME IInv, NEW t \in Tabs, NEW u \in Anyone, NEW ok \in BOOLEAN,
         mem' = [mem EXCEPT ![t] = Hydrated(t, u, ok)], store' = store,
         user'[t] = u, \A x \in Tabs \ {t} : user'[x] = user[x]
  PROVE  (mem \in [Tabs -> Memory])' /\ MemFollows
<1>1. TypeOK /\ OwnRecordsOnly
  BY DEF IInv, SubmissionInv
<1>2. PICK m : m = Hydrated(t, u, ok)
  OBVIOUS
<1>3. m \in Memory
  BY <1>1, <1>2, HydratedType
<1>4. /\ m.owner = user'[t]
      /\ \/ m.records = NoRecords
         \/ user'[t] \in Users /\ m.records = store'[user'[t]]
         \/ user'[t] = user[t] /\ m.records = mem[t].records
  BY <1>1, <1>2, HydratedFollows
<1>5. mem' = [mem EXCEPT ![t] = m]
  BY <1>2
<1>6. mem' \in [Tabs -> Memory]
  BY <1>1, <1>3, <1>5 DEF TypeOK
<1>. QED BY <1>1, <1>3, <1>4, <1>5, <1>6, OneTabFollows

LEMMA FailureStep ==
  ASSUME IInv, NEW t \in Tabs, NEW u \in Users, StorageFailure(t, u), user' = user
  PROVE  (mem \in [Tabs -> Memory])' /\ MemFollows
<1>0. TypeOK /\ OwnRecordsOnly
  BY DEF IInv, SubmissionInv
<1>1. CASE user[t] = u
  <2>1. mem' = [mem EXCEPT ![t].owner = u, ![t].storageError = TRUE]
    BY <1>1 DEF StorageFailure, MayShow
  <2>2. mem'[t].owner = u /\ mem'[t].records = mem[t].records
    BY <1>0, <2>1 DEF TypeOK, Memory
  <2>3. \A x \in Tabs \ {t} : mem'[x] = mem[x]
    BY <1>0, <2>1 DEF TypeOK
  <2>. QED BY <1>0, <1>1, <2>2, <2>3, FailureType DEF MemFollows, OwnRecordsOnly
<1>2. CASE user[t] # u
  BY <1>0, <1>2, SameMemory, FailureType DEF StorageFailure, MayShow
<1>. QED BY <1>1, <1>2

LEMMA PersistFollows ==
  ASSUME TypeOK, OwnRecordsOnly, NEW t \in Tabs, NEW u \in Users, NEW r \in Records,
         Persist(t, u, r), user' = user
  PROVE  MemFollows
<1>1. store'[u] = r
  BY PersistFacts
<1>2. CASE user[t] = u
  <2>1. mem' = [mem EXCEPT ![t] = [owner |-> u, records |-> r, storageError |-> FALSE]]
    BY <1>2 DEF Persist, MayShow
  <2>2. mem'[t].owner = u /\ mem'[t].records = r /\ \A x \in Tabs \ {t} : mem'[x] = mem[x]
    BY <2>1 DEF TypeOK
  <2>. QED BY <1>1, <1>2, <2>2 DEF MemFollows, OwnRecordsOnly
<1>3. CASE user[t] # u
  BY <1>3, SameMemory DEF Persist, MayShow
<1>. QED BY <1>2, <1>3

LEMMA SameView == ASSUME reading' = reading, view' = view PROVE ViewStep
BY DEF ViewStep

LEMMA CloseView == ASSUME TypeOK, NEW t \in Tabs, Close(t) PROVE ViewStep
BY CloseFacts DEF ViewStep

\* What any write of records based on a view does.
LEMMA PersistStep ==
  ASSUME IInv, NEW t \in Tabs, NEW u \in Users, NEW r \in Records,
         Persist(t, u, r), user' = user,
         \A p \in Ops : r[p] = view[t][u][p] \/ GoodNext(u, p, r[p])
  PROVE  /\ StoreTypes' /\ (mem \in [Tabs -> Memory])'
         /\ ViewStep /\ StoreStep /\ MemFollows /\ AloneSound'
         /\ lost => lost'
         /\ ~lost' => ~lost /\ view[t][u] = store[u]
<1>0. TypeOK /\ OwnRecordsOnly
  BY DEF IInv, SubmissionInv
<1>1. /\ StoreTypes' /\ (mem \in [Tabs -> Memory])' /\ t \in reading
      /\ store'[u] = r /\ \A w \in Users \ {u} : store'[w] = store[w]
      /\ lost' = (lost \/ view[t][u] # store[u])
  BY <1>0, PersistFacts
<1>2. Close(t)
  BY DEF Persist
<1>3. ViewStep /\ MemFollows
  BY <1>0, <1>2, CloseView, PersistFollows
<1>4. StoreStep
  BY <1>1 DEF StoreStep
<1>5. AloneSound'
  <2>1. Alone' => Alone
    BY DEF Alone
  <2>2. ASSUME Alone PROVE ~lost' /\ \A x \in reading' : view'[x] = store'
    <3>1. ~lost /\ view[t] = store
      BY <1>1, <2>2 DEF IInv, SubmissionInv, AloneSound
    <3>2. \A x \in reading' : x \in Tabs /\ x # t
      BY <1>0, <1>2, CloseFacts
    <3>3. \A x \in Tabs : x = t
      BY <2>2 DEF Alone
    <3>. QED BY <1>1, <3>1, <3>2, <3>3
  <2>. QED BY <2>1, <2>2 DEF AloneSound
<1>. QED BY <1>1, <1>3, <1>4, <1>5

\* Removing, marking or resolving the record of an operation that is over.
LEMMA RewriteStep ==
  ASSUME IInv, NEW t \in Tabs, NEW u \in Users, NEW o \in Ops, NEW r,
         Rewrite(view[t][u], o, r), Persist(t, u, r), user' = user,
         SubMono, VerdictMono, sub'[o].pc = "over",
         r[o].state = "accepted" => verdict'[o] = "accepted",
         ~lost /\ view[t][u] = store[u] =>
           /\ Pending(r[o]) => Pending(store[u][o])
           /\ Needs(o)' /\ sub[o].user = u => Pending(r[o]),
         \A p \in Ops : Needs(p)' => Needs(p)
  PROVE  /\ StoreTypes' /\ (mem \in [Tabs -> Memory])'
         /\ ViewStep /\ StoreStep /\ MemFollows /\ AloneSound' /\ KeepStep
<1>0. TypeOK /\ r \in Records
  BY DEF IInv, SubmissionInv, Rewrite
<1>1. GoodNext(u, o, r[o])
  <2>1. GoodNext(u, o, view[t][u][o])
    BY GoodStays, ShelfIn
  <2>2. CASE r[o] = view[t][u][o] \/ r[o] = NoRecord
    BY <2>1, <2>2 DEF GoodNext, NoRecord
  <2>3. CASE view[t][u][o].state # "none"
    BY <2>1, <2>3 DEF GoodNext
  <2>. QED BY <2>2, <2>3 DEF Rewrite
<1>2. \A p \in Ops : r[p] = view[t][u][p] \/ GoodNext(u, p, r[p])
  BY <1>1 DEF Rewrite
<1>3. /\ StoreTypes' /\ (mem \in [Tabs -> Memory])'
      /\ ViewStep /\ StoreStep /\ MemFollows /\ AloneSound'
      /\ lost => lost'
      /\ ~lost' => ~lost /\ view[t][u] = store[u]
  BY <1>0, <1>2, PersistStep
<1>4. store'[u] = r /\ \A w \in Users \ {u} : store'[w] = store[w]
  BY <1>0, PersistFacts
<1>5. KeepStep
  <2> SUFFICES ASSUME ~lost'
               PROVE  /\ \A w \in Users, p \in Ops : Pending(store'[w][p]) => Pending(store[w][p])
                      /\ \A p \in Ops : Needs(p)' =>
                           /\ Needs(p)
                           /\ \A w \in Users : sub[p].user = w /\ Pending(store[w][p]) =>
                                Pending(store'[w][p])
    BY <1>3 DEF KeepStep
  <2>1. /\ \A p \in Ops \ {o} : r[p] = store[u][p]
        /\ Pending(r[o]) => Pending(store[u][o])
        /\ Needs(o)' /\ sub[o].user = u => Pending(r[o])
    BY <1>3 DEF Rewrite
  <2>. QED BY <1>4, <2>1
<1>. QED BY <1>3, <1>5

\* A write that throws, or is not reached: storage is as it was.
LEMMA FailedStep ==
  ASSUME IInv, NEW t \in Tabs, NEW u \in Users, PersistFails(t, u), user' = user
  PROVE  /\ StoreTypes' /\ (mem \in [Tabs -> Memory])'
         /\ ViewStep /\ MemFollows /\ store' = store /\ lost' = lost
<1>0. TypeOK
  BY DEF IInv, SubmissionInv
<1>1. StorageFailure(t, u) /\ Close(t) /\ store' = store /\ lost' = lost
  BY DEF PersistFails
<1>2. StoreTypes'
  BY <1>0, <1>1, CloseFacts, TypeParts DEF StoreTypes
<1>. QED BY <1>0, <1>1, <1>2, CloseView, FailureStep

-----------------------------------------------------------------------------
(* The inductive invariant, action by action.                              *)

\* A step that gives places back at most, as far as SubmitOnce can tell.
Plain ==
  /\ KeepStep
  /\ verdict' = verdict
  /\ \A p \in Ops : sub'[p].user = sub[p].user /\ sub'[p].content = sub[p].content

\* A block of a tab that moves no submission.
LEMMA SameSubmissions ==
  ASSUME IInv, TypeOK', sub' = sub, UNCHANGED serverVars,
         ViewStep, StoreStep, MemFollows, IdentitySound', AloneSound', KeepStep
  PROVE  IInv' /\ Plain
<1>1. verdict' = verdict /\ done' = done
  BY DEF serverVars
<1>2. SubMono /\ VerdictMono
  BY <1>1 DEF SubMono, VerdictMono, Early
<1>3. /\ Posted' /\ PostedAsSubmitter'
      /\ \A o \in done' : verdict'[o] = "accepted"
  BY <1>1 DEF IInv, SubmissionInv, RecordsSound, Posted, PostedAsSubmitter, AcceptedTrue
<1>4. ~lost' => RecordKept' /\ PendingDistinct'
  BY <1>2, KeepStepKeeps
<1>5. IInv'
  BY <1>2, <1>3, <1>4, Assemble
<1>. QED BY <1>1, <1>5 DEF Plain

LEMMA QuietTab ==
  ASSUME IInv, TypeOK', sub' = sub, UNCHANGED serverVars, store' = store, lost' = lost,
         ViewStep, MemFollows, IdentitySound'
  PROVE  IInv' /\ Plain
<1>1. \A o \in Ops : Needs(o)' => Needs(o)
  BY DEF Needs, serverVars
<1>2. StoreStep /\ AloneSound' /\ KeepStep
  BY <1>1, QuietStep
<1>. QED BY <1>2, SameSubmissions

\* Sign-ins, remounts, edits, rereading, and the start of a block that writes.
LEMMA TabInv ==
  ASSUME IInv, NEW t \in Tabs,
         \/ \E u \in Anyone : SwitchIdentity(t, u)
         \/ Remount(t)
         \/ \E c \in Contents \cup {NotReady} : Edit(t, c)
         \/ Rehydrate(t)
         \/ ReadRecords(t)
  PROVE  IInv' /\ Plain
<1>0. TypeOK /\ OwnRecordsOnly
  BY DEF IInv, SubmissionInv
<1>1. sub' = sub /\ UNCHANGED serverVars /\ store' = store /\ lost' = lost
  BY DEF SwitchIdentity, Remount, Edit, Rehydrate, ReadRecords, storeVars
<1>2. ServerTypes' /\ sub' \in [Ops -> Submission]
  BY <1>0, <1>1, SameTypes, TypeParts
<1>3. CASE \E u \in Anyone : SwitchIdentity(t, u)
  <2>1. PICK u \in Anyone : SwitchIdentity(t, u)
    BY <1>3
  <2>2. /\ user'[t] = u /\ epoch'[t] = epoch[t] + 1
        /\ \A x \in Tabs \ {t} : user'[x] = user[x] /\ epoch'[x] = epoch[x]
        /\ TabTypes'
    BY <1>0, <2>1, TypeParts DEF SwitchIdentity, TabTypes
  <2>3. StoreTypes' /\ ViewStep
    BY <1>0, <2>1, SameTypes, SameView DEF SwitchIdentity, storeVars
  <2>4. mem' \in [Tabs -> Memory] /\ MemFollows
    <3>1. CASE u = user[t]
      <4>1. user' = user /\ mem' = mem
        BY <1>0, <2>1, <3>1 DEF SwitchIdentity, TypeOK
      <4>. QED BY <1>0, <4>1, SameMemory, TypeParts
    <3>2. CASE u # user[t]
      <4>1. PICK ok \in Works(t) : mem' = [mem EXCEPT ![t] = Hydrated(t, u, ok)]
        BY <2>1, <3>2 DEF SwitchIdentity
      <4>2. ok \in BOOLEAN
        BY WorksType
      <4>. QED BY <1>1, <2>2, <4>1, <4>2, HydrateStep
    <3>. QED BY <3>1, <3>2
  <2>5. TypeOK'
    BY <1>2, <2>2, <2>3, <2>4, TypePartsNext
  <2>6. IdentitySound'
    <3> SUFFICES ASSUME NEW o \in Ops, sub[o].pc \in {"hash", "checked", "begun", "attached"}
                 PROVE  /\ sub[o].epoch <= epoch'[sub[o].tab]
                        /\ sub[o].epoch = epoch'[sub[o].tab] =>
                             /\ sub[o].user = user'[sub[o].tab]
                             /\ sub[o].pc = "attached" => sub[o].header = sub[o].user
      BY <1>1 DEF IdentitySound
    <3>1. /\ sub[o].tab \in Tabs /\ sub[o].epoch \in Nat /\ epoch[sub[o].tab] \in Nat
          /\ sub[o].epoch <= epoch[sub[o].tab]
          /\ sub[o].epoch = epoch[sub[o].tab] =>
               /\ sub[o].user = user[sub[o].tab]
               /\ sub[o].pc = "attached" => sub[o].header = sub[o].user
      BY <1>0 DEF TypeOK, Submission, IdentitySound, IInv, SubmissionInv
    <3>. QED BY <2>2, <3>1
  <2>. QED BY <1>1, <2>3, <2>4, <2>5, <2>6, QuietTab
<1>4. CASE ~ \E u \in Anyone : SwitchIdentity(t, u)
  <2>1. user' = user /\ epoch' = epoch
    BY <1>4 DEF Remount, Edit, Rehydrate, ReadRecords, tabVars
  <2>2. IdentitySound'
    BY <1>1, <2>1 DEF IdentitySound, IInv, SubmissionInv
  <2>3. TabTypes'
    BY <1>0, <1>4, <2>1, TypeParts DEF Remount, Edit, Rehydrate, ReadRecords, tabVars, TabTypes
  <2>4. mem' \in [Tabs -> Memory] /\ MemFollows
    <3>1. CASE Rehydrate(t)
      <4>1. PICK ok \in Works(t) : mem' = [mem EXCEPT ![t] = Hydrated(t, user[t], ok)]
        BY <3>1 DEF Rehydrate
      <4>2. ok \in BOOLEAN /\ user[t] \in Anyone
        BY <1>0, WorksType DEF TypeOK, Anyone
      <4>. QED BY <1>1, <2>1, <4>1, <4>2, HydrateStep
    <3>2. CASE ~Rehydrate(t)
      <4>1. mem' = mem
        BY <1>4, <3>2 DEF Remount, Edit, ReadRecords
      <4>. QED BY <1>0, <2>1, <4>1, SameMemory, TypeParts
    <3>. QED BY <3>1, <3>2
  <2>5. StoreTypes' /\ ViewStep
    <3>1. CASE ReadRecords(t)
      <4>1. reading' = reading \cup {t} /\ view' = [view EXCEPT ![t] = store]
        BY <3>1 DEF ReadRecords
      <4>. QED BY <1>0, <1>1, <4>1, TypeParts DEF StoreTypes, ViewStep
    <3>2. CASE ~ReadRecords(t)
      <4>1. UNCHANGED storeVars
        BY <1>4, <3>2 DEF Remount, Edit, Rehydrate
      <4>. QED BY <1>0, <4>1, SameTypes, SameView DEF storeVars
    <3>. QED BY <3>1, <3>2
  <2>6. TypeOK'
    BY <1>2, <2>3, <2>4, <2>5, TypePartsNext
  <2>. QED BY <1>1, <2>2, <2>4, <2>5, <2>6, QuietTab
<1>. QED BY <1>3, <1>4

LEMMA ReloadInv ==
  ASSUME IInv, NEW t \in Tabs, Reload(t)
  PROVE  IInv' /\ Plain
<1>0. TypeOK /\ OwnRecordsOnly
  BY DEF IInv, SubmissionInv
<1>1. \A p \in Ops :
        /\ \/ sub'[p] = sub[p] /\ (sub[p].tab # t \/ sub[p].pc = "new")
           \/ sub'[p].pc = "over" /\ sub[p].pc # "new"
        /\ sub'[p].user = sub[p].user /\ sub'[p].content = sub[p].content
        /\ sub'[p].header = sub[p].header /\ sub'[p] \in Submission
  <2> SUFFICES ASSUME NEW p \in Ops
               PROVE  /\ \/ sub'[p] = sub[p] /\ (sub[p].tab # t \/ sub[p].pc = "new")
                         \/ sub'[p].pc = "over" /\ sub[p].pc # "new"
                      /\ sub'[p].user = sub[p].user /\ sub'[p].content = sub[p].content
                      /\ sub'[p].header = sub[p].header /\ sub'[p] \in Submission
    OBVIOUS
  <2>1. /\ sub'[p] = IF sub[p].tab = t /\ sub[p].pc # "new" THEN Ended(sub[p]) ELSE sub[p]
        /\ sub[p] \in Submission
    BY <1>0 DEF Reload, TypeOK
  <2>. QED BY <2>1, EndedType
<1>2. /\ store' = store /\ lost' = lost /\ verdict' = verdict /\ done' = done
      /\ UNCHANGED serverVars /\ Close(t)
  BY DEF Reload, serverVars
<1>3. /\ user'[t] = NoUser
      /\ \A x \in Tabs \ {t} : user'[x] = user[x] /\ epoch'[x] = epoch[x]
  BY <1>0 DEF Reload, TypeOK
<1>4. TypeOK'
  <2>1. sub' \in [Ops -> Submission]
    BY <1>1 DEF Reload
  <2>2. TabTypes'
    BY <1>0, TypeParts DEF Reload, TabTypes, Anyone
  <2>3. StoreTypes'
    BY <1>0, <1>2, CloseFacts, TypeParts DEF StoreTypes
  <2>4. mem' \in [Tabs -> Memory]
    BY <1>0, NoRecordsType DEF Reload, TypeOK
  <2>5. ServerTypes'
    BY <1>0, <1>2, SameTypes
  <2>. QED BY <2>1, <2>2, <2>3, <2>4, <2>5, TypePartsNext
<1>5. MemFollows
  <2>1. mem' = [mem EXCEPT ![t] = EmptyMemory]
    BY DEF Reload
  <2>2. EmptyMemory.owner = NoUser /\ EmptyMemory.records = NoRecords
    BY DEF EmptyMemory
  <2>. QED BY <1>0, <1>3, <2>1, <2>2, NoRecordsType, OneTabFollows
<1>6. SubMono /\ VerdictMono
  BY <1>1, <1>2 DEF SubMono, VerdictMono, Early
<1>7. /\ Posted' /\ PostedAsSubmitter'
      /\ \A o \in done' : verdict'[o] = "accepted"
  BY <1>1, <1>2 DEF IInv, SubmissionInv, RecordsSound, Posted, PostedAsSubmitter, AcceptedTrue
<1>8. IdentitySound'
  <2> SUFFICES ASSUME NEW p \in Ops, sub'[p].pc \in {"hash", "checked", "begun", "attached"}
               PROVE  /\ sub'[p].epoch <= epoch'[sub'[p].tab]
                      /\ sub'[p].epoch = epoch'[sub'[p].tab] =>
                           /\ sub'[p].user = user'[sub'[p].tab]
                           /\ sub'[p].pc = "attached" => sub'[p].header = sub'[p].user
    BY DEF IdentitySound
  <2>1. sub'[p] = sub[p] /\ sub[p].tab \in Tabs \ {t}
    BY <1>0, <1>1 DEF TypeOK, Submission
  <2>. QED BY <1>3, <2>1 DEF IInv, SubmissionInv, IdentitySound
<1>9. \A o \in Ops : Needs(o)' => Needs(o)
  BY <1>1, <1>2 DEF Needs
<1>10. ViewStep
  BY <1>0, <1>2, CloseView
<1>11. StoreStep /\ AloneSound' /\ KeepStep
  BY <1>2, <1>4, <1>9, <1>10, QuietStep
<1>12. IInv'
  BY <1>4, <1>5, <1>6, <1>7, <1>8, <1>10, <1>11, KeepStepKeeps, Assemble
<1>. QED BY <1>1, <1>2, <1>11, <1>12 DEF Plain

\* What a list of finished generations may resolve is over and accepted.
LEMMA ConfirmableFacts ==
  ASSUME IInv, NEW t \in Tabs, NEW o \in Confirmable(t)
  PROVE  o \in Ops /\ sub[o].pc = "over" /\ verdict[o] = "accepted"
BY DEF Confirmable, IInv, SubmissionInv, RecordsSound, TaskAfterAnswer, AcceptedTrue, TypeOK

LEMMA ConfirmInv ==
  ASSUME IInv, NEW t \in Tabs, NEW o \in Ops, ConfirmGenerations(t, o)
  PROVE  IInv' /\ Plain
<1>0. TypeOK /\ OwnRecordsOnly
  BY DEF IInv, SubmissionInv
<1>1. /\ user[t] \in Users /\ sub' = sub /\ UNCHANGED <<tabVars, serverVars>>
      /\ sub[o].pc = "over" /\ verdict[o] = "accepted" /\ verdict' = verdict
      /\ user' = user /\ epoch' = epoch
  BY <1>0, ConfirmableFacts DEF ConfirmGenerations, MayConfirm, TypeOK, serverVars, tabVars
<1>2. \A p \in Ops : Needs(p)' => Needs(p)
  BY <1>1 DEF Needs
<1>3. SubMono /\ VerdictMono /\ IdentitySound'
  BY <1>1 DEF SubMono, VerdictMono, Early, IdentitySound, IInv, SubmissionInv
<1>4. /\ StoreTypes' /\ (mem \in [Tabs -> Memory])'
      /\ ViewStep /\ MemFollows
      /\ \/ StoreStep /\ AloneSound' /\ KeepStep
         \/ store' = store /\ lost' = lost
  <2>1. CASE PersistFails(t, user[t])
    BY <1>1, <2>1, FailedStep
  <2>2. CASE Persist(t, user[t], Resolved(view[t][user[t]], o))
    <3>0. PICK u \in Users : u = user[t]
      BY <1>1
    <3>1. PICK r : r = Resolved(view[t][u], o)
      OBVIOUS
    <3>2. view[t][u] \in Records
      BY <1>0, TypeParts DEF StoreTypes
    <3>3. /\ Rewrite(view[t][u], o, r) /\ Persist(t, u, r)
          /\ ~Pending(r[o])
      BY <2>2, <3>0, <3>1, <3>2, ResolvedFacts DEF Pending
    <3>4. ~ Needs(o)'
      BY <1>1 DEF Needs
    <3>. QED BY <1>1, <1>2, <1>3, <3>0, <3>3, <3>4, RewriteStep
  <2>. QED BY <2>1, <2>2 DEF ConfirmGenerations
<1>5. TypeOK'
  BY <1>0, <1>1, <1>4, SameTypes, TypeParts, TypePartsNext
<1>6. StoreStep /\ AloneSound' /\ KeepStep
  BY <1>2, <1>4, <1>5, QuietStep
<1>. QED BY <1>1, <1>3, <1>4, <1>5, <1>6, SameSubmissions

LEMMA SubmitInv ==
  ASSUME IInv, NEW t \in Tabs, NEW o \in Ops, Submit(o, t)
  PROVE  /\ IInv'
         /\ store' = store /\ verdict' = verdict /\ sub[o].pc = "new"
         /\ sub'[o].user = user[t] /\ sub'[o].content = form[t]
         /\ \A p \in Ops \ {o} : sub'[p] = sub[p]
<1>0. TypeOK /\ OwnRecordsOnly
  BY DEF IInv, SubmissionInv
<1>. DEFINE s == [pc |-> "hash", tab |-> t, user |-> user[t], epoch |-> epoch[t],
                  mount |-> mount[t], content |-> form[t], header |-> NoUser]
<1>1. /\ s \in Submission /\ user[t] \in Users
      /\ s.pc = "hash" /\ s.user = user[t] /\ s.content = form[t] /\ s.epoch = epoch[t]
      /\ s.tab = t /\ epoch[t] \in Nat
  BY <1>0 DEF TypeOK, Submission, Submit
<1>2. /\ sub' \in [Ops -> Submission] /\ sub'[o] = s
      /\ \A p \in Ops \ {o} : sub'[p] = sub[p]
  BY <1>0, <1>1 DEF Submit, TypeOK
<1>. HIDE DEF s
<1>3. /\ UNCHANGED <<tabVars, storeVars, serverVars>> /\ mem' = mem /\ sub[o].pc = "new"
      /\ user' = user /\ epoch' = epoch /\ verdict' = verdict /\ done' = done
      /\ store' = store /\ lost' = lost /\ reading' = reading /\ view' = view
  BY DEF Submit, tabVars, serverVars, storeVars
<1>4. TypeOK'
  BY <1>0, <1>2, <1>3, SameTypes, TypeParts, TypePartsNext
<1>5. ViewStep /\ MemFollows
  BY <1>0, <1>3, SameView, SameMemory
<1>6. SubMono /\ VerdictMono
  BY <1>1, <1>2, <1>3 DEF SubMono, VerdictMono, Early
<1>7. \A p \in Ops : Needs(p)' => Needs(p)
  BY <1>1, <1>2, <1>3 DEF Needs
<1>8. StoreStep /\ AloneSound' /\ KeepStep
  BY <1>3, <1>4, <1>5, <1>7, QuietStep
<1>9. /\ Posted' /\ PostedAsSubmitter'
      /\ \A p \in done' : verdict'[p] = "accepted"
  BY <1>1, <1>2, <1>3
     DEF IInv, SubmissionInv, RecordsSound, Posted, PostedAsSubmitter, AcceptedTrue
<1>10. IdentitySound'
  BY <1>1, <1>2, <1>3 DEF IInv, SubmissionInv, IdentitySound
<1>11. IInv'
  BY <1>4, <1>5, <1>6, <1>8, <1>9, <1>10, KeepStepKeeps, Assemble
<1>. QED BY <1>1, <1>2, <1>3, <1>11

\* A submission moves on, and what its block did to the records is known.
LEMMA MoveInv ==
  ASSUME IInv, NEW o \in Ops, NEW pc, Moves(o, pc), (sub \in [Ops -> Submission])',
         <<sub[o].pc, pc>> \in Move, pc # "begun", UNCHANGED <<tabVars, serverVars>>,
         StoreTypes', (mem \in [Tabs -> Memory])', ViewStep, MemFollows,
         (StoreStep /\ AloneSound' /\ KeepStep) \/ (store' = store /\ lost' = lost)
  PROVE  IInv' /\ Plain
<1>0. TypeOK
  BY DEF IInv, SubmissionInv
<1>1. /\ SubMono /\ VerdictMono /\ Posted' /\ IdentitySound' /\ PostedAsSubmitter'
      /\ \A p \in done' : verdict'[p] = "accepted"
      /\ verdict' = verdict
      /\ \A p \in Ops : sub'[p].user = sub[p].user /\ sub'[p].content = sub[p].content
      /\ \A p \in Ops : Needs(p)' => Needs(p)
  BY MovesKeep
<1>2. TypeOK'
  BY <1>0, SameTypes, TypePartsNext
<1>3. StoreStep /\ AloneSound' /\ KeepStep
  BY <1>1, <1>2, QuietStep
<1>4. IInv'
  BY <1>1, <1>2, <1>3, KeepStepKeeps, Assemble
<1>. QED BY <1>1, <1>3, <1>4 DEF Plain

\* The digest arrived.
LEMMA HashInv ==
  ASSUME IInv, NEW o \in Ops, NotBegun(o) \/ Checked(o)
  PROVE  IInv' /\ Plain
<1>0. /\ TypeOK /\ OwnRecordsOnly /\ sub[o].pc = "hash"
      /\ UNCHANGED <<tabVars, storeVars, serverVars>> /\ store' = store /\ lost' = lost
      /\ user' = user /\ reading' = reading /\ view' = view
  BY DEF IInv, SubmissionInv, NotBegun, Checked, storeVars, tabVars
<1>1. sub[o].tab \in Tabs /\ sub[o].user \in Users
  BY <1>0 DEF IInv, SubmissionInv, RecordsSound, Posted, TypeOK, Submission
<1>2. mem' \in [Tabs -> Memory] /\ MemFollows
  <2>1. CASE mem' = mem
    BY <1>0, <2>1, SameMemory, TypeParts
  <2>2. CASE mem' # mem
    <3>1. PICK t \in Tabs, u \in Users : t = sub[o].tab /\ u = sub[o].user
      BY <1>1
    <3>2. PICK ok \in BOOLEAN : mem' = [mem EXCEPT ![t] = Hydrated(t, u, ok)]
      BY <2>2, <3>1 DEF NotBegun, Checked
    <3>3. user[t] = u /\ u \in Anyone
      BY <2>2, <3>1 DEF NotBegun, Checked, ContextVerified, IsCurrentIdentity, Anyone
    <3>. QED BY <1>0, <3>2, <3>3, HydrateStep
  <2>. QED BY <2>1, <2>2
<1>3. ViewStep /\ StoreTypes'
  BY <1>0, SameView, SameTypes
<1>4. CASE NotBegun(o)
  <2>1. (sub \in [Ops -> Submission])' /\ Moves(o, "over")
    BY <1>0, <1>4, OverMoves DEF NotBegun
  <2>2. <<sub[o].pc, "over">> \in Move
    BY <1>0 DEF Move
  <2>. QED BY <1>0, <1>2, <1>3, <2>1, <2>2, MoveInv
<1>5. CASE Checked(o)
  <2>1. (sub \in [Ops -> Submission])' /\ Moves(o, "checked")
    BY <1>0, <1>5, PcMoves DEF Checked
  <2>2. <<sub[o].pc, "checked">> \in Move
    BY <1>0 DEF Move
  <2>. QED BY <1>0, <1>2, <1>3, <2>1, <2>2, MoveInv
<1>. QED BY <1>4, <1>5

LEMMA BeginFailsInv ==
  ASSUME IInv, NEW o \in Ops, BeginFails(o)
  PROVE  IInv' /\ Plain
<1>0. /\ TypeOK /\ OwnRecordsOnly /\ sub[o].pc = "checked"
      /\ UNCHANGED <<tabVars, serverVars>> /\ store' = store /\ lost' = lost
      /\ user' = user /\ Close(sub[o].tab) /\ sub' = [sub EXCEPT ![o].pc = "undo"]
      /\ mem' = mem \/ StorageFailure(sub[o].tab, sub[o].user)
  BY DEF IInv, SubmissionInv, BeginFails, tabVars
<1>1. sub[o].tab \in Tabs /\ sub[o].user \in Users
  BY <1>0 DEF IInv, SubmissionInv, RecordsSound, Posted, TypeOK, Submission
<1>2. mem' \in [Tabs -> Memory] /\ MemFollows
  BY <1>0, <1>1, SameMemory, FailureStep, TypeParts
<1>3. ViewStep /\ StoreTypes'
  BY <1>0, <1>1, CloseView, CloseFacts, TypeParts DEF StoreTypes
<1>4. (sub \in [Ops -> Submission])' /\ Moves(o, "undo")
  BY <1>0, PcMoves
<1>5. <<sub[o].pc, "undo">> \in Move
  BY <1>0 DEF Move
<1>. QED BY <1>0, <1>2, <1>3, <1>4, <1>5, MoveInv

\* An answer, or none, ends a submission with one write of its record.
LEMMA EndingInv ==
  ASSUME IInv, NEW o \in Ops, NEW r,
         Over(o), UNCHANGED <<tabVars, serverVars>>,
         <<sub[o].pc, "over">> \in Move,
         sub[o].user \in Users => Rewrite(view[sub[o].tab][sub[o].user], o, r),
         \/ PersistFails(sub[o].tab, sub[o].user)
         \/ Persist(sub[o].tab, sub[o].user, r),
         r[o].state = "accepted" => verdict[o] = "accepted",
         ~lost /\ view[sub[o].tab][sub[o].user] = store[sub[o].user] =>
           /\ Pending(r[o]) => Pending(store[sub[o].user][o])
           /\ verdict[o] = "undecided" => Pending(r[o])
  PROVE  IInv' /\ Plain
<1>0. /\ TypeOK /\ OwnRecordsOnly /\ user' = user /\ verdict' = verdict
      /\ (sub \in [Ops -> Submission])' /\ Moves(o, "over")
  BY OverMoves DEF IInv, SubmissionInv, tabVars, serverVars
<1>1. /\ SubMono /\ VerdictMono /\ sub[o].user \in Users /\ sub[o].tab \in Tabs
      /\ \A p \in Ops : Needs(p)' => Needs(p)
  BY <1>0, MovesKeep
<1>2. PICK t \in Tabs, u \in Users : t = sub[o].tab /\ u = sub[o].user
  BY <1>1
<1>3. CASE PersistFails(t, u)
  <2>1. /\ StoreTypes' /\ (mem \in [Tabs -> Memory])'
        /\ ViewStep /\ MemFollows /\ store' = store /\ lost' = lost
    BY <1>0, <1>3, FailedStep
  <2>. QED BY <1>0, <2>1, MoveInv
<1>4. CASE Persist(t, u, r)
  <2>1. sub'[o].pc = "over" /\ (Needs(o)' => verdict[o] = "undecided")
    BY <1>0 DEF Moves, Needs
  <2>2. /\ Rewrite(view[t][u], o, r)
        /\ r[o].state = "accepted" => verdict'[o] = "accepted"
        /\ ~lost /\ view[t][u] = store[u] =>
             /\ Pending(r[o]) => Pending(store[u][o])
             /\ Needs(o)' /\ sub[o].user = u => Pending(r[o])
    BY <1>0, <1>2, <2>1
  <2>3. /\ StoreTypes' /\ (mem \in [Tabs -> Memory])'
        /\ ViewStep /\ StoreStep /\ MemFollows /\ AloneSound' /\ KeepStep
    BY <1>0, <1>1, <1>4, <2>1, <2>2, RewriteStep
  <2>. QED BY <1>0, <2>3, MoveInv
<1>. QED BY <1>2, <1>3, <1>4

LEMMA AnswerInv ==
  ASSUME IInv, NEW o \in Ops,
         \/ NotSent(o) \/ ReceiveReceipt(o) \/ ReceiveRejected(o)
         \/ \E task \in BOOLEAN : ReceiveUnknown(o, task)
  PROVE  IInv' /\ Plain
<1>0. /\ TypeOK /\ OwnRecordsOnly /\ user' = user
      /\ UNCHANGED <<tabVars, serverVars>>
      /\ sub[o].pc \in {"undo", "attached", "wait", "mark"}
  BY DEF IInv, SubmissionInv, NotSent, ReceiveReceipt, ReceiveRejected, ReceiveUnknown, tabVars
<1>1. /\ sub[o].tab \in Tabs /\ sub[o].user \in Users
      /\ sub[o].pc \in {"undo", "attached"} => verdict[o] = "none"
      /\ ~lost /\ sub[o].pc \in {"wait", "mark"} => Pending(store[sub[o].user][o])
      /\ <<sub[o].pc, "over">> \in Move
  BY <1>0 DEF IInv, SubmissionInv, RecordsSound, Posted, RecordKept, TypeOK, Submission, Move
<1>2. PICK v : v = view[sub[o].tab][sub[o].user]
  OBVIOUS
<1>3. v \in Records
  BY <1>0, <1>1, <1>2, TypeParts DEF StoreTypes
<1>4. CASE NotSent(o) \/ ReceiveRejected(o)
  <2>1. PICK r : r = Removed(v, o)
    OBVIOUS
  <2>2. Rewrite(v, o, r) /\ r[o].state = "none" /\ ~Pending(r[o])
    BY <1>3, <2>1, RemovedFacts DEF NoRecord, Pending
  <2>3. verdict[o] # "undecided"
    BY <1>1, <1>4 DEF NotSent, ReceiveRejected
  <2>4. /\ Over(o)
        /\ \/ Persist(sub[o].tab, sub[o].user, r)
           \/ PersistFails(sub[o].tab, sub[o].user)
    BY <1>2, <1>4, <2>1 DEF NotSent, ReceiveRejected
  <2>. QED BY <1>0, <1>1, <1>2, <2>2, <2>3, <2>4, EndingInv
<1>5. CASE ReceiveReceipt(o)
  <2>0. verdict[o] = "accepted" /\ sub[o].pc = "wait"
    BY <1>5 DEF ReceiveReceipt
  <2>1. PICK r : r = Resolved(v, o)
    OBVIOUS
  <2>2. Rewrite(v, o, r) /\ ~Pending(r[o])
    BY <1>3, <2>1, ResolvedFacts DEF Pending
  <2>3. CASE Over(o)
    <3>1. Persist(sub[o].tab, sub[o].user, r) \/ PersistFails(sub[o].tab, sub[o].user)
      BY <1>2, <1>5, <2>1 DEF ReceiveReceipt
    <3>. QED BY <1>0, <1>1, <1>2, <2>0, <2>2, <2>3, <3>1, EndingInv
  <2>4. CASE ~Over(o)
    <3>1. /\ PersistFails(sub[o].tab, sub[o].user)
          /\ sub' = [sub EXCEPT ![o].pc = "mark"]
      BY <1>5, <2>4 DEF ReceiveReceipt
    <3>2. PICK t \in Tabs, u \in Users : t = sub[o].tab /\ u = sub[o].user
      BY <1>1
    <3>3. PersistFails(t, u)
      BY <3>1, <3>2
    <3>4. /\ StoreTypes' /\ (mem \in [Tabs -> Memory])'
          /\ ViewStep /\ MemFollows /\ store' = store /\ lost' = lost
      BY <1>0, <3>3, FailedStep
    <3>5. (sub \in [Ops -> Submission])' /\ Moves(o, "mark")
      BY <1>0, <3>1, PcMoves
    <3>6. <<sub[o].pc, "mark">> \in Move
      BY <2>0 DEF Move
    <3>. QED BY <1>0, <3>4, <3>5, <3>6, MoveInv
  <2>. QED BY <2>3, <2>4
<1>6. CASE \E task \in BOOLEAN : ReceiveUnknown(o, task)
  <2>0. PICK task \in BOOLEAN : ReceiveUnknown(o, task)
    BY <1>6
  <2>1. PICK r : r = Marked(v, o, task)
    OBVIOUS
  <2>2. /\ Rewrite(v, o, r)
        /\ v[o].state = "none" => r[o] = v[o]
        /\ v[o].state # "none" => r[o].state = "unknown"
    BY <1>3, <2>1, MarkedFacts
  <2>3. /\ sub[o].pc \in {"wait", "mark"} /\ Over(o)
        /\ \/ Persist(sub[o].tab, sub[o].user, r)
           \/ PersistFails(sub[o].tab, sub[o].user)
    BY <1>2, <2>0, <2>1 DEF ReceiveUnknown
  <2>4. r[o].state # "accepted"
    BY <2>2
  <2>5. ASSUME ~lost, v = store[sub[o].user]
        PROVE  Pending(store[sub[o].user][o]) /\ Pending(r[o])
    BY <1>1, <2>2, <2>3, <2>5 DEF Pending
  <2>. QED BY <1>0, <1>1, <1>2, <2>2, <2>3, <2>4, <2>5, EndingInv
<1>. QED BY <1>4, <1>5, <1>6

\* begin, when nothing was lost: the records it extends are the stored ones.
LEMMA BeginFacts ==
  ASSUME IInv, NEW o \in Ops, Begin(o)
  PROVE  \E r \in Records :
           /\ Persist(sub[o].tab, sub[o].user, r)
           /\ r[o] = [state |-> "sending", task |-> FALSE]
           /\ \A p \in Ops \ {o} : \/ r[p] = view[sub[o].tab][sub[o].user][p]
                                   \/ r[p] = NoRecord
           /\ \A p \in Ops \ {o} : Pending(view[sub[o].tab][sub[o].user][p]) =>
                r[p] = view[sub[o].tab][sub[o].user][p]
<1>0. TypeOK /\ sub[o].pc = "checked"
  BY DEF IInv, SubmissionInv, Begin
<1>1. sub[o].tab \in Tabs /\ sub[o].user \in Users
  BY <1>0 DEF IInv, SubmissionInv, RecordsSound, Posted, TypeOK, Submission
<1>2. PICK v : v = view[sub[o].tab][sub[o].user]
  OBVIOUS
<1>3. v \in Records
  BY <1>0, <1>1, <1>2, TypeParts DEF StoreTypes
<1>4. PICK kept : Persist(sub[o].tab, sub[o].user, Begun(v, o, kept))
  BY <1>2 DEF Begin
<1>5. PICK r : r = Begun(v, o, kept)
  OBVIOUS
<1>6. /\ r \in Records
      /\ r[o] = [state |-> "sending", task |-> FALSE]
      /\ \A p \in Ops \ {o} : r[p] = v[p] \/ r[p] = NoRecord
      /\ \A p \in Ops \ {o} : Pending(v[p]) => r[p] = v[p]
  BY <1>3, <1>5, BegunFacts
<1>. QED BY <1>2, <1>4, <1>5, <1>6

LEMMA BeginInv ==
  ASSUME IInv, NEW o \in Ops, Begin(o)
  PROVE  /\ IInv'
         /\ sub[o].pc = "checked" /\ sub[o].user \in Users
         /\ verdict' = verdict
         /\ lost => lost'
         /\ \A p \in Ops : sub'[p].user = sub[p].user /\ sub'[p].content = sub[p].content
         /\ \A u \in Users \ {sub[o].user} : store'[u] = store[u]
         /\ ~lost' =>
              /\ ~Equivalent(store[sub[o].user], o)
              /\ Pending(store'[sub[o].user][o])
              /\ \A p \in Ops \ {o} :
                   LET now == store[sub[o].user][p] next == store'[sub[o].user][p] IN
                   /\ next = now \/ next = NoRecord
                   /\ Pending(now) => next = now
<1>0. /\ TypeOK /\ OwnRecordsOnly /\ sub[o].pc = "checked" /\ user' = user
      /\ UNCHANGED <<tabVars, serverVars>>
      /\ sub' = [sub EXCEPT ![o].pc = "begun"]
      /\ ~Equivalent(view[sub[o].tab][sub[o].user], o)
  BY DEF IInv, SubmissionInv, Begin, tabVars
<1>1. (sub \in [Ops -> Submission])' /\ Moves(o, "begun") /\ <<sub[o].pc, "begun">> \in Move
  BY <1>0, PcMoves DEF Move
<1>2. /\ SubMono /\ VerdictMono /\ Posted' /\ IdentitySound' /\ PostedAsSubmitter'
      /\ \A p \in done' : verdict'[p] = "accepted"
      /\ verdict' = verdict
      /\ \A p \in Ops : sub'[p].user = sub[p].user /\ sub'[p].content = sub[p].content
      /\ sub[o].user \in Users /\ sub[o].tab \in Tabs
  BY <1>0, <1>1, MovesKeep
<1>3. PICK t \in Tabs, u \in Users : t = sub[o].tab /\ u = sub[o].user
  BY <1>2
<1>4. PICK r \in Records :
        /\ Persist(t, u, r)
        /\ r[o] = [state |-> "sending", task |-> FALSE]
        /\ \A p \in Ops \ {o} : r[p] = view[t][u][p] \/ r[p] = NoRecord
        /\ \A p \in Ops \ {o} : Pending(view[t][u][p]) => r[p] = view[t][u][p]
  BY <1>3, BeginFacts
<1>5. \A p \in Ops : r[p] = view[t][u][p] \/ GoodNext(u, p, r[p])
  <2>1. GoodNext(u, o, r[o])
    BY <1>1, <1>3, <1>4 DEF GoodNext, Moves, Early
  <2>2. \A p \in Ops : GoodNext(u, p, NoRecord)
    BY DEF GoodNext, NoRecord
  <2>. QED BY <1>4, <2>1, <2>2
<1>6. /\ StoreTypes' /\ (mem \in [Tabs -> Memory])'
      /\ ViewStep /\ StoreStep /\ MemFollows /\ AloneSound'
      /\ lost => lost'
      /\ ~lost' => ~lost /\ view[t][u] = store[u]
  BY <1>0, <1>4, <1>5, PersistStep
<1>7. store'[u] = r /\ \A w \in Users \ {u} : store'[w] = store[w]
  BY <1>0, <1>4, PersistFacts
<1>8. ASSUME ~lost'
      PROVE  /\ ~Equivalent(store[u], o) /\ Pending(store'[u][o])
             /\ \A p \in Ops \ {o} :
                  /\ store'[u][p] = store[u][p] \/ store'[u][p] = NoRecord
                  /\ Pending(store[u][p]) => store'[u][p] = store[u][p]
  <2>1. view[t][u] = store[u] /\ store'[u] = r
    BY <1>6, <1>7, <1>8
  <2>2. ~Equivalent(store[u], o)
    BY <1>0, <1>3, <2>1
  <2>3. Pending(store'[u][o])
    BY <1>4, <2>1 DEF Pending
  <2>4. \A p \in Ops \ {o} :
          /\ store'[u][p] = store[u][p] \/ store'[u][p] = NoRecord
          /\ Pending(store[u][p]) => store'[u][p] = store[u][p]
    BY <1>4, <2>1
  <2>. QED BY <2>2, <2>3, <2>4
<1>9. ASSUME ~lost' PROVE RecordKept' /\ PendingDistinct'
  <2>0. RecordKept /\ PendingDistinct
    BY <1>6, <1>9 DEF IInv, SubmissionInv, RecordsSound
  <2>1. \A p \in Ops \ {o}, w \in Users :
          /\ Pending(store[w][p]) => Pending(store'[w][p])
          /\ Pending(store'[w][p]) => Pending(store[w][p])
    BY <1>7, <1>8, <1>9 DEF Pending, NoRecord
  <2>2. RecordKept'
    <3> SUFFICES ASSUME NEW p \in Ops, Needs(p)' PROVE Pending(store'[sub'[p].user][p])
      BY DEF RecordKept, Needs, Pending
    <3>1. CASE p = o
      BY <1>2, <1>3, <1>8, <1>9, <3>1
    <3>2. CASE p # o
      <4>1. Needs(p)
        BY <1>1, <1>2, <3>2 DEF Needs, Moves
      <4>2. sub[p].user \in Users /\ Pending(store[sub[p].user][p])
        BY <2>0, <4>1, NeedsNotNew DEF RecordKept, Needs
      <4>. QED BY <1>2, <2>1, <3>2, <4>2
    <3>. QED BY <3>1, <3>2
  <2>3. PendingDistinct'
    <3>1. \A p \in Ops : Pending(store[u][p]) => sub[p].content # sub[o].content
      BY <1>8, <1>9 DEF Equivalent
    <3>2. \A w \in Users \ {u} : ~Pending(store'[w][o])
      <4>1. \A w \in Users : store[w][o].state = "none"
        BY <1>0, GoodNow, ShelfIn DEF Early
      <4>. QED BY <1>7, <4>1 DEF Pending
    <3> SUFFICES ASSUME NEW w \in Users, NEW p \in Ops, NEW q \in Ops, p # q,
                        Pending(store'[w][p]), Pending(store'[w][q])
                 PROVE  sub[p].content # sub[q].content
      BY <1>2 DEF PendingDistinct, Pending
    <3>3. CASE p # o /\ q # o
      BY <2>0, <2>1, <3>3 DEF PendingDistinct
    <3>4. CASE p = o \/ q = o
      BY <2>1, <3>1, <3>2, <3>4
    <3>. QED BY <3>3, <3>4
  <2>. QED BY <2>2, <2>3
<1>10. TypeOK'
  BY <1>0, <1>1, <1>6, SameTypes, TypePartsNext
<1>11. IInv'
  BY <1>2, <1>6, <1>9, <1>10, Assemble
<1>. QED BY <1>0, <1>2, <1>3, <1>6, <1>7, <1>8, <1>11

LEMMA AttachInv ==
  ASSUME IInv, NEW o \in Ops, Attach(o)
  PROVE  IInv' /\ Plain
<1>0. /\ TypeOK /\ OwnRecordsOnly /\ sub[o].pc = "begun" /\ mem' = mem
      /\ user' = user /\ epoch' = epoch /\ verdict' = verdict /\ done' = done
      /\ store' = store /\ lost' = lost /\ reading' = reading /\ view' = view
      /\ UNCHANGED <<tabVars, storeVars, serverVars>>
  BY DEF IInv, SubmissionInv, Attach, tabVars, storeVars, serverVars
<1>1. sub[o] \in Submission /\ user[sub[o].tab] \in Anyone
  BY <1>0 DEF TypeOK, Submission, Anyone
<1>2. PICK s : s = [sub[o] EXCEPT !.pc = "attached", !.header = user[sub[o].tab]]
  OBVIOUS
<1>3. /\ s \in Submission /\ s.pc = "attached" /\ s.header = user[sub[o].tab]
      /\ s.user = sub[o].user /\ s.content = sub[o].content
      /\ s.tab = sub[o].tab /\ s.epoch = sub[o].epoch
  BY <1>1, <1>2 DEF Submission, Anyone
<1>4. sub' = [sub EXCEPT ![o] = s]
  BY <1>0, <1>2 DEF Attach, TypeOK
<1>5. /\ sub' \in [Ops -> Submission] /\ sub'[o] = s
      /\ \A p \in Ops \ {o} : sub'[p] = sub[p]
  BY <1>0, <1>3, <1>4 DEF TypeOK
<1>6. TypeOK'
  BY <1>0, <1>5, SameTypes, TypeParts, TypePartsNext
<1>7. ViewStep /\ MemFollows
  BY <1>0, SameView, SameMemory
<1>8. SubMono /\ VerdictMono /\ \A p \in Ops : Needs(p)' => Needs(p)
  BY <1>0, <1>3, <1>5 DEF SubMono, VerdictMono, Needs, Early
<1>9. StoreStep /\ AloneSound' /\ KeepStep
  BY <1>0, <1>6, <1>7, <1>8, QuietStep
<1>10. /\ Posted' /\ \A p \in done' : verdict'[p] = "accepted"
  BY <1>0, <1>3, <1>5 DEF IInv, SubmissionInv, RecordsSound, Posted, AcceptedTrue
<1>11. verdict[o] = "none"
  BY <1>0 DEF IInv, SubmissionInv, RecordsSound, Posted
<1>12. PostedAsSubmitter' /\ IdentitySound'
  BY <1>0, <1>3, <1>5, <1>11 DEF IInv, SubmissionInv, PostedAsSubmitter, IdentitySound
<1>13. IInv'
  BY <1>6, <1>7, <1>8, <1>9, <1>10, <1>12, KeepStepKeeps, Assemble
<1>. QED BY <1>0, <1>3, <1>5, <1>9, <1>13 DEF Plain

LEMMA SendInv ==
  ASSUME IInv, NEW o \in Ops, Send(o)
  PROVE  /\ IInv'
         /\ store' = store /\ lost' = lost /\ sub[o].pc = "attached"
         /\ verdict' = [verdict EXCEPT ![o] = "undecided"]
         /\ \A p \in Ops : sub'[p].user = sub[p].user /\ sub'[p].content = sub[p].content
<1>0. /\ TypeOK /\ OwnRecordsOnly /\ sub[o].pc = "attached" /\ mem' = mem
      /\ user' = user /\ epoch' = epoch /\ done' = done
      /\ store' = store /\ lost' = lost /\ reading' = reading /\ view' = view
      /\ UNCHANGED <<tabVars, storeVars>> /\ ContextVerified(sub[o])
      /\ verdict' = [verdict EXCEPT ![o] = "undecided"]
      /\ sub' = [sub EXCEPT ![o].pc = "wait"]
  BY DEF IInv, SubmissionInv, Send, tabVars, storeVars
<1>1. (sub \in [Ops -> Submission])' /\ Moves(o, "wait")
  BY <1>0, PcMoves
<1>2. ServerTypes' /\ verdict'[o] = "undecided" /\ \A p \in Ops \ {o} : verdict'[p] = verdict[p]
  BY <1>0, TypeParts DEF ServerTypes, Once!Verdicts
<1>3. TypeOK'
  BY <1>0, <1>1, <1>2, SameTypes, TypeParts, TypePartsNext
<1>4. ViewStep /\ MemFollows
  BY <1>0, SameView, SameMemory
<1>5. verdict[o] = "none" /\ sub[o].header = sub[o].user
  BY <1>0 DEF IInv, SubmissionInv, RecordsSound, Posted, IdentitySound, ContextVerified,
              IsCurrentIdentity
<1>6. SubMono /\ VerdictMono /\ \A p \in Ops : Needs(p)' => Needs(p)
  BY <1>0, <1>1, <1>2, <1>5 DEF SubMono, VerdictMono, Needs, Early, Moves
<1>7. StoreStep /\ AloneSound' /\ KeepStep
  BY <1>0, <1>3, <1>4, <1>6, QuietStep
<1>8. Posted'
  BY <1>0, <1>1, <1>2 DEF IInv, SubmissionInv, RecordsSound, Posted, Moves
<1>9. \A p \in done' : verdict'[p] = "accepted"
  BY <1>0, <1>2, <1>5 DEF IInv, SubmissionInv, RecordsSound, AcceptedTrue, TypeOK
<1>10. PostedAsSubmitter' /\ IdentitySound'
  BY <1>0, <1>1, <1>2, <1>5 DEF IInv, SubmissionInv, PostedAsSubmitter, IdentitySound, Moves
<1>11. IInv'
  BY <1>3, <1>4, <1>6, <1>7, <1>8, <1>9, <1>10, KeepStepKeeps, Assemble
<1>. QED BY <1>0, <1>1, <1>11 DEF Moves

LEMMA ServerInv ==
  ASSUME IInv, NEW o \in Ops, Decide(o) \/ Finish(o)
  PROVE  IInv' /\ store' = store /\ sub' = sub /\ lost' = lost
<1>0. /\ TypeOK /\ OwnRecordsOnly /\ sub' = sub /\ mem' = mem
      /\ user' = user /\ epoch' = epoch
      /\ store' = store /\ lost' = lost /\ reading' = reading /\ view' = view
      /\ UNCHANGED <<tabVars, storeVars>>
  BY DEF IInv, SubmissionInv, Decide, Finish, tabVars, storeVars
<1>1. /\ ServerTypes'
      /\ \A p \in Ops : /\ verdict'[p] = "none" <=> verdict[p] = "none"
                        /\ verdict'[p] = "undecided" => verdict[p] = "undecided"
                        /\ verdict[p] = "accepted" => verdict'[p] = "accepted"
      /\ \A p \in done' : verdict'[p] = "accepted"
  <2>1. CASE Decide(o)
    <3>1. PICK v \in {"accepted", "refused"} : verdict' = [verdict EXCEPT ![o] = v]
      BY <2>1 DEF Decide
    <3>2. verdict[o] = "undecided" /\ done' = done
      BY <2>1 DEF Decide
    <3>3. \A p \in done : verdict[p] = "accepted" /\ p \in Ops
      BY <1>0 DEF IInv, SubmissionInv, RecordsSound, AcceptedTrue, TypeOK
    <3>. QED BY <1>0, <3>1, <3>2, <3>3, TypeParts DEF ServerTypes, Once!Verdicts
  <2>2. CASE Finish(o)
    BY <1>0, <2>2, TypeParts
       DEF Finish, ServerTypes, IInv, SubmissionInv, RecordsSound, AcceptedTrue
  <2>. QED BY <2>1, <2>2
<1>2. TypeOK'
  BY <1>0, <1>1, SameTypes, TypeParts, TypePartsNext
<1>3. ViewStep /\ MemFollows
  BY <1>0, SameView, SameMemory
<1>4. SubMono /\ VerdictMono /\ \A p \in Ops : Needs(p)' => Needs(p)
  BY <1>0, <1>1 DEF SubMono, VerdictMono, Needs, Early
<1>5. StoreStep /\ AloneSound' /\ KeepStep
  BY <1>0, <1>2, <1>3, <1>4, QuietStep
<1>6. Posted' /\ PostedAsSubmitter' /\ IdentitySound'
  BY <1>0, <1>1
     DEF IInv, SubmissionInv, RecordsSound, Posted, PostedAsSubmitter, IdentitySound
<1>7. IInv'
  BY <1>1, <1>2, <1>3, <1>4, <1>5, <1>6, KeepStepKeeps, Assemble
<1>. QED BY <1>0, <1>7

-----------------------------------------------------------------------------
(* The theorems.                                                           *)

LEMMA InitIInv == Init => IInv
<1> SUFFICES ASSUME Init PROVE IInv
  OBVIOUS
<1>1. TypeOK
  <2>1. mem \in [Tabs -> Memory] /\ store \in [Users -> [Ops -> Record]]
    BY NoRecordsType DEF Init, Records
  <2>2. sub \in [Ops -> Submission]
    BY AnyTabType DEF Init, Submission
  <2>3. verdict \in [Ops -> Once!Verdicts] /\ done \subseteq Ops
    BY DEF Init, Once!Verdicts
  <2>4. /\ user \in [Tabs -> Users \cup {NoUser}] /\ epoch \in [Tabs -> Nat]
        /\ mount \in [Tabs -> Nat] /\ form \in [Tabs -> Contents \cup {NotReady}]
    BY DEF Init
  <2>5. reading \subseteq Tabs /\ view \in [Tabs -> [Users -> [Ops -> Record]]] /\ lost \in BOOLEAN
    BY NoRecordsType DEF Init, Records
  <2>. QED BY <2>1, <2>2, <2>3, <2>4, <2>5 DEF TypeOK
<1>2. /\ \A o \in Ops : sub[o].pc = "new" /\ verdict[o] = "none"
      /\ \A s \in Shelves, o \in Ops, u \in Users : s[u][o].state = "none" /\ ~s[u][o].task
      /\ \A t \in Tabs, o \in Ops : mem[t].records[o].state = "none" /\ ~mem[t].records[o].task
      /\ \A t \in Tabs : mem[t].owner = user[t]
      /\ \A o \in Ops, u \in Users : store[u][o].state = "none"
      /\ done = {} /\ reading = {} /\ ~lost
  <2>1. \A t \in Tabs : view[t] = Unread
    BY DEF Init
  <2>2. store = Unread
    BY DEF Init, Unread
  <2>3. \A s \in Shelves : s = Unread
    BY <2>1, <2>2 DEF Shelves
  <2>4. \A o \in Ops, u \in Users : Unread[u][o].state = "none" /\ ~Unread[u][o].task
    BY DEF Unread, NoRecords, NoRecord
  <2>5. /\ \A t \in Tabs, o \in Ops : mem[t].records[o].state = "none" /\ ~mem[t].records[o].task
        /\ \A t \in Tabs : mem[t].owner = user[t]
    BY DEF Init, NoRecords, NoRecord, EmptyMemory
  <2>. QED BY <2>2, <2>3, <2>4, <2>5 DEF Init
<1>3. RecordsOwned /\ AcceptedTrue /\ TaskAfterAnswer
  BY <1>2 DEF RecordsOwned, AcceptedTrue, TaskAfterAnswer
<1>4. Posted /\ RecordKept /\ PendingDistinct
  BY <1>2 DEF Posted, RecordKept, PendingDistinct, Pending
<1>5. IdentitySound /\ PostedAsSubmitter /\ OwnRecordsOnly /\ AloneSound
  BY <1>2 DEF IdentitySound, PostedAsSubmitter, OwnRecordsOnly, AloneSound
<1>. QED BY <1>1, <1>3, <1>4, <1>5 DEF IInv, SubmissionInv, RecordsSound

\* The steps that take no place and decide nothing.
LEMMA PlainSteps ==
  /\ \A t \in Tabs : IInv /\ TabStep(t) =>
       (IInv' /\ Plain) \/ \E o \in Ops : Submit(o, t)
  /\ \A o \in Ops : IInv /\ SubmissionStep(o) =>
       (IInv' /\ Plain) \/ Begin(o) \/ Send(o) \/ Decide(o) \/ Finish(o)
<1>1. ASSUME NEW t \in Tabs, IInv, TabStep(t), ~ \E o \in Ops : Submit(o, t)
      PROVE  IInv' /\ Plain
  <2>1. CASE \E o \in Ops : ConfirmGenerations(t, o)
    BY <1>1, <2>1, ConfirmInv
  <2>2. CASE Reload(t)
    BY <1>1, <2>2, ReloadInv
  <2>. QED BY <1>1, <2>1, <2>2, TabInv DEF TabStep, Anyone
<1>2. ASSUME NEW o \in Ops, IInv, SubmissionStep(o),
             ~(Begin(o) \/ Send(o) \/ Decide(o) \/ Finish(o))
      PROVE  IInv' /\ Plain
  BY <1>2, HashInv, BeginFailsInv, AttachInv, AnswerInv DEF SubmissionStep
<1>. QED BY <1>1, <1>2

LEMMA StutterIInv == ASSUME IInv, UNCHANGED vars PROVE IInv'
<1>1. /\ user' = user /\ epoch' = epoch /\ mount' = mount /\ form' = form /\ mem' = mem
      /\ store' = store /\ reading' = reading /\ view' = view /\ lost' = lost
      /\ sub' = sub /\ verdict' = verdict /\ done' = done
  BY DEF vars, storeVars
<1>2. TypeOK' /\ IdentitySound'
  BY <1>1 DEF IInv, SubmissionInv, TypeOK, IdentitySound
<1>3. ViewStep /\ MemFollows /\ UNCHANGED serverVars
  BY <1>1, SameView, SameMemory DEF IInv, serverVars
<1>. QED BY <1>1, <1>2, <1>3, QuietTab

LEMMA NextIInv == IInv /\ [Next]_vars => IInv'
<1> SUFFICES ASSUME IInv, [Next]_vars PROVE IInv'
  OBVIOUS
<1>1. ASSUME NEW t \in Tabs, TabStep(t) PROVE IInv'
  BY <1>1, PlainSteps, SubmitInv
<1>2. ASSUME NEW o \in Ops, SubmissionStep(o) PROVE IInv'
  BY <1>2, PlainSteps, BeginInv, SendInv, ServerInv
<1>. QED BY <1>1, <1>2, StutterIInv DEF Next

\* Types, record and identity invariants: until a tab undoes what another
\* wrote, an operation keeps its record from begin until its outcome is known
\* and no equal one has a record; owners, task ids and the server's word are
\* right in every record even after that, and a tab that is alone undoes
\* nothing.
THEOREM SubmissionInvariant == Spec => []SubmissionInv
<1>1. Spec => []IInv
  BY InitIInv, NextIInv, PTL DEF Spec
<1>2. IInv => SubmissionInv
  BY DEF IInv
<1>. QED BY <1>1, <1>2, PTL

\* A POST carries the token of the user whose record it is: the epoch check
\* at the transport catches every change of identity since submit began.
THEOREM PostedAsSubmitterTheorem == Spec => []PostedAsSubmitter
<1>1. Spec => []IInv
  BY InitIInv, NextIInv, PTL DEF Spec
<1>2. IInv => PostedAsSubmitter
  BY DEF IInv
<1>. QED BY <1>1, <1>2, PTL

\* A tab shows recovery records of its signed-in user only.
THEOREM OwnRecordsOnlyTheorem == Spec => []OwnRecordsOnly
<1>1. Spec => []IInv
  BY InitIInv, NextIInv, PTL DEF Spec
<1>2. IInv => OwnRecordsOnly
  BY DEF IInv
<1>. QED BY <1>1, <1>2, PTL

LEMMA OneUndecided ==
  ASSUME IInv, ~lost
  PROVE  Once!AtMostOneUndecided
<1> SUFFICES ASSUME NEW o \in Ops, NEW p \in Ops, o # p,
                    sub[o].user = sub[p].user, sub[o].content = sub[p].content,
                    verdict[o] = "undecided", verdict[p] = "undecided"
             PROVE  FALSE
  BY DEF Once!AtMostOneUndecided
<1>1. /\ sub[o].user \in Users
      /\ Pending(store[sub[o].user][o]) /\ Pending(store[sub[p].user][p])
  BY NeedsNotNew DEF IInv, SubmissionInv, RecordsSound, RecordKept, Needs
<1>. QED BY <1>1 DEF IInv, SubmissionInv, RecordsSound, PendingDistinct

\* Two equal requests of a user can both turn into a charge only after a tab
\* undid what another wrote: the race of localStorage is the only way.
THEOREM NoSecondChargeTheorem == Spec => []NoSecondCharge
<1>1. Spec => []IInv
  BY InitIInv, NextIInv, PTL DEF Spec
<1>2. IInv => NoSecondCharge
  BY OneUndecided DEF NoSecondCharge
<1>. QED BY <1>1, <1>2, PTL

\* A tab that is alone never lets two equal requests be charged, whatever
\* sign-ins, reloads, remounts and failing writes it goes through: the
\* de-duplication that is promised within one client.
THEOREM SingleTabTheorem ==
  ASSUME Alone
  PROVE  Spec => []Once!AtMostOneUndecided
<1>1. Spec => []IInv
  BY InitIInv, NextIInv, PTL DEF Spec
<1>2. IInv => Once!AtMostOneUndecided
  BY OneUndecided DEF IInv, SubmissionInv, AloneSound
<1>. QED BY <1>1, <1>2, PTL

-----------------------------------------------------------------------------
(* The refinement of SubmitOnce.                                           *)

Held == {o \in Ops : \E u \in Users : store[u][o].state \in {"sending", "unknown"}}
Key == [o \in Ops |-> <<sub[o].user, sub[o].content>>]

LEMMA HeldMeansPending ==
  ASSUME IInv, NEW o \in Ops
  PROVE  o \in Held <=> sub[o].user \in Users /\ Pending(store[sub[o].user][o])
BY DEF Held, Pending, IInv, SubmissionInv, RecordsSound, RecordsOwned, Shelves

LEMMA SameKey ==
  ASSUME \A p \in Ops : sub'[p].user = sub[p].user /\ sub'[p].content = sub[p].content
  PROVE  Key' = Key
BY DEF Key

LEMMA SameHeld ==
  ASSUME store' = store PROVE Held' = Held
BY DEF Held

\* Places are given back for operations that were not sent or are decided.
LEMMA PlainRefines ==
  ASSUME IInv, Plain, ~lost'
  PROVE  Once!SNext
<1>1. Key' = Key /\ verdict' = verdict
  BY SameKey DEF Plain
<1>2. Held' \subseteq Held
  BY DEF Plain, KeepStep, Held, Pending
<1>3. \A o \in Held : o \notin Held' => verdict[o] # "undecided"
  <2> SUFFICES ASSUME NEW o \in Held, verdict[o] = "undecided" PROVE o \in Held'
    OBVIOUS
  <2>1. o \in Ops /\ Needs(o)' /\ sub[o].user \in Users /\ Pending(store[sub[o].user][o])
    BY <1>1, HeldMeansPending DEF Held, Needs
  <2>2. Pending(store'[sub[o].user][o])
    BY <2>1 DEF Plain, KeepStep
  <2>. QED BY <2>1, <2>2 DEF Held, Pending
<1>4. Once!Release
  BY <1>1, <1>2, <1>3 DEF Once!Release, Held, Key
<1>. QED BY <1>4 DEF Once!SNext

LEMMA SubmitRefines ==
  ASSUME IInv, NEW t \in Tabs, NEW o \in Ops, Submit(o, t)
  PROVE  Once!SNext
<1>1. /\ store' = store /\ verdict' = verdict /\ sub[o].pc = "new"
      /\ sub'[o].user = user[t] /\ sub'[o].content = form[t]
      /\ \A p \in Ops \ {o} : sub'[p] = sub[p]
  BY SubmitInv
<1>2. user[t] \in Users \cup {NoUser} /\ form[t] \in Contents \cup {NotReady}
  BY DEF IInv, SubmissionInv, TypeOK
<1>3. verdict[o] = "none" /\ o \notin Held
  <2>1. \A u \in Users : store[u][o].state = "none"
    BY <1>1, GoodNow, ShelfIn DEF Early
  <2>2. verdict[o] = "none"
    BY <1>1 DEF IInv, SubmissionInv, RecordsSound, Posted
  <2>. QED BY <2>1, <2>2 DEF Held
<1>4. Key' = [Key EXCEPT ![o] = <<user[t], form[t]>>]
  BY <1>1 DEF Key
<1>5. \E k \in (Users \cup {NoUser}) \X (Contents \cup {NotReady}) :
        Key' = [Key EXCEPT ![o] = k]
  BY <1>2, <1>4
<1>6. Once!Address(o)
  BY <1>1, <1>3, <1>5, SameHeld DEF Once!Address, Held, Key
<1>. QED BY <1>6 DEF Once!SNext

LEMMA BeginRefines ==
  ASSUME IInv, NEW o \in Ops, Begin(o), ~lost'
  PROVE  Once!SNext
<1>1. /\ sub[o].pc = "checked" /\ sub[o].user \in Users /\ verdict' = verdict
      /\ \A p \in Ops : sub'[p].user = sub[p].user /\ sub'[p].content = sub[p].content
      /\ \A u \in Users \ {sub[o].user} : store'[u] = store[u]
      /\ ~Equivalent(store[sub[o].user], o)
      /\ Pending(store'[sub[o].user][o])
      /\ \A p \in Ops \ {o} :
           /\ store'[sub[o].user][p] = store[sub[o].user][p] \/ store'[sub[o].user][p] = NoRecord
           /\ Pending(store[sub[o].user][p]) =>
                store'[sub[o].user][p] = store[sub[o].user][p]
  BY BeginInv
<1>2. verdict[o] = "none" /\ o \notin Held
  <2>1. \A u \in Users : store[u][o].state = "none"
    BY <1>1, GoodNow, ShelfIn DEF Early
  <2>2. verdict[o] = "none"
    BY <1>1 DEF IInv, SubmissionInv, RecordsSound, Posted
  <2>. QED BY <2>1, <2>2 DEF Held
<1>3. Held' = Held \cup {o}
  <2>1. o \in Held'
    BY <1>1 DEF Held, Pending
  <2>2. \A p \in Ops \ {o} : p \in Held' <=> p \in Held
    BY <1>1 DEF Held, Pending, NoRecord
  <2>. QED BY <2>1, <2>2 DEF Held
<1>4. \A p \in Held : Key[p] # Key[o]
  <2> SUFFICES ASSUME NEW p \in Held, Key[p] = Key[o] PROVE FALSE
    OBVIOUS
  <2>1. p \in Ops /\ sub[p].user = sub[o].user /\ sub[p].content = sub[o].content
    BY DEF Held, Key
  <2>2. Pending(store[sub[o].user][p])
    BY <2>1, HeldMeansPending
  <2>. QED BY <1>1, <2>1, <2>2 DEF Equivalent
<1>5. Key' = Key
  BY <1>1, SameKey
<1>6. Once!Claim(o)
  BY <1>1, <1>2, <1>3, <1>4, <1>5 DEF Once!Claim, Held, Key
<1>. QED BY <1>6 DEF Once!SNext

LEMMA SendRefines ==
  ASSUME IInv, NEW o \in Ops, Send(o), ~lost'
  PROVE  Once!SNext
<1>1. /\ store' = store /\ ~lost /\ sub[o].pc = "attached"
      /\ verdict' = [verdict EXCEPT ![o] = "undecided"]
      /\ \A p \in Ops : sub'[p].user = sub[p].user /\ sub'[p].content = sub[p].content
  BY SendInv
<1>2. verdict[o] = "none" /\ sub[o].user \in Users /\ Pending(store[sub[o].user][o])
  BY <1>1 DEF IInv, SubmissionInv, RecordsSound, RecordKept, Posted
<1>3. o \in Held
  BY <1>2, HeldMeansPending
<1>4. Once!Send(o)
  BY <1>1, <1>2, <1>3, SameKey, SameHeld DEF Once!Send, Held, Key
<1>. QED BY <1>4 DEF Once!SNext

LEMMA ServerRefines ==
  ASSUME IInv, NEW o \in Ops, Decide(o) \/ Finish(o)
  PROVE  [Once!SNext]_(Once!svars)
<1>1. sub' = sub /\ store' = store
  BY ServerInv
<1>2. Key' = Key /\ Held' = Held
  BY <1>1, SameHeld DEF Key
<1>3. CASE Decide(o)
  <2>1. Once!Decide(o)
    BY <1>2, <1>3 DEF Decide, Once!Decide, Held, Key
  <2>. QED BY <2>1 DEF Once!SNext
<1>4. CASE Finish(o)
  BY <1>2, <1>4 DEF Finish, Once!svars, Held, Key
<1>. QED BY <1>3, <1>4

\* Until a tab undoes what another wrote, the browser implements SubmitOnce:
\* every step of tabs, submissions and server takes, sends, decides or gives
\* back a place, or leaves them alone.
THEOREM GuardsSubmissionsTheorem == Spec => GuardsSubmissions
<1>1. Init => Once!SInit
  <2> SUFFICES ASSUME Init PROVE Once!SInit
    OBVIOUS
  <2>1. Key \in [Ops -> (Users \cup {NoUser}) \X (Contents \cup {NotReady})]
    BY DEF Init, Key
  <2>2. Held = {}
    BY DEF Init, Held, NoRecords, NoRecord
  <2>. QED BY <2>1, <2>2 DEF Init, Once!SInit, Held, Key
<1>2. IInv /\ [Next]_vars => [~lost' => [Once!SNext]_(Once!svars)]_vars
  <2> SUFFICES ASSUME IInv, Next, ~lost' PROVE [Once!SNext]_(Once!svars)
    OBVIOUS
  <2>1. ASSUME NEW t \in Tabs, TabStep(t) PROVE [Once!SNext]_(Once!svars)
    BY <2>1, PlainSteps, PlainRefines, SubmitRefines
  <2>2. ASSUME NEW o \in Ops, SubmissionStep(o) PROVE [Once!SNext]_(Once!svars)
    BY <2>2, PlainSteps, PlainRefines, BeginRefines, SendRefines, ServerRefines
  <2>. QED BY <2>1, <2>2 DEF Next
<1>3. Spec => []IInv
  BY InitIInv, NextIInv, PTL DEF Spec
<1>. QED BY <1>1, <1>2, <1>3, PTL DEF Spec, GuardsSubmissions

\* What a receipt or a finished generation proved is not undone by any answer
\* or memory, only by a tab that writes what it read before.
THEOREM AcceptedIsFinalTheorem == Spec => AcceptedIsFinal
<1>1. IInv /\ [Next]_vars =>
        [~lost' => \A u \in Users, o \in Ops :
           store[u][o].state = "accepted" => ~Pending(store'[u][o])]_vars
  <2> SUFFICES ASSUME IInv, Next, ~lost', NEW u \in Users, NEW o \in Ops,
                      store[u][o].state = "accepted"
               PROVE  ~Pending(store'[u][o])
    BY DEF Pending
  <2>1. CASE store' = store
    BY <2>1 DEF Pending
  <2>2. CASE Plain
    BY <2>2 DEF Plain, KeepStep, Pending
  <2>3. ASSUME NEW p \in Ops, Begin(p) PROVE ~Pending(store'[u][o])
    <3>1. /\ sub[p].pc = "checked" /\ sub[p].user \in Users
          /\ \A w \in Users \ {sub[p].user} : store'[w] = store[w]
          /\ \A q \in Ops \ {p} : \/ store'[sub[p].user][q] = store[sub[p].user][q]
                                  \/ store'[sub[p].user][q] = NoRecord
      BY <2>3, BeginInv
    <3>2. o # p
      BY <3>1, GoodNow, ShelfIn DEF Early
    <3>. QED BY <3>1, <3>2 DEF Pending, NoRecord
  <2>4. ASSUME NEW t \in Tabs, TabStep(t) PROVE ~Pending(store'[u][o])
    BY <2>1, <2>2, <2>4, PlainSteps, SubmitInv
  <2>5. ASSUME NEW p \in Ops, SubmissionStep(p) PROVE ~Pending(store'[u][o])
    BY <2>1, <2>2, <2>3, <2>5, PlainSteps, SendInv, ServerInv
  <2>. QED BY <2>4, <2>5 DEF Next
<1>2. Spec => []IInv
  BY InitIInv, NextIInv, PTL DEF Spec
<1>. QED BY <1>1, <1>2, PTL DEF Spec, AcceptedIsFinal
=============================================================================
