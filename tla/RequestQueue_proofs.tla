------------------------- MODULE RequestQueue_proofs -------------------------
(***************************************************************************)
(* Proofs about RequestQueue, for any number of titles, requesters,        *)
(* releases, handlers, rows, crashes and refused writes.                   *)
(***************************************************************************)
EXTENDS RequestQueue, FiniteSetTheorems, WellFoundedInduction, TLAPS

USE DEF NoId

-----------------------------------------------------------------------------
(* What the pieces of the actions leave well-typed *)

\* A finished or in-flight row that is deleted is still a row.
LEMMA DeletedIsRow ==
    ASSUME NEW row \in Row
    PROVE  Deleted(row) \in Row /\ Deleted(row).status = "gone"
BY DEF Deleted, Row, Status, Picks

\* The handler that has nothing to do and the worker at rest have their types.
LEMMA RestTyped ==
    /\ Idle \in [pc: ReqPCs, op: {"none", "request", "season", "subscription"},
                 title: Titles, user: Users, magnet: Picks, id: Ids \cup {NoId}]
    /\ Resting \in [pc: WorkerPCs, id: Ids \cup {NoId}, magnet: Picks, hash: Picks]
BY RequestQueueAssumption DEF Idle, Resting, ReqPCs, WorkerPCs, Picks

\* Clearing the finished rows of a title leaves a table.
LEMMA ClearedTyped ==
    ASSUME NEW t \in Titles, queue \in [Ids -> Row]
    PROVE  ClearedOf(t) \in [Ids -> Row]
BY DeletedIsRow DEF ClearedOf

\* UpdateQueue leaves a table, whatever it writes and wherever.
LEMMA UpdateTyped ==
    ASSUME NEW i, NEW s \in Status, NEW h, i \in Ids => h \in Picks,
           queue \in [Ids -> Row], UpdateQueue(i, s, h)
    PROVE  queue' \in [Ids -> Row]
BY DEF UpdateQueue, Row

\* A handler's move and a handler's answer keep every record of req in its type.
LEMMA GotoTyped ==
    ASSUME NEW c \in Clients, NEW pc \in ReqPCs, NEW i \in Ids \cup {NoId},
           TypeOK, Goto(c, pc, i), queue' \in [Ids -> Row]
    PROVE  TypeOK'
BY DEF Goto, TypeOK

LEMMA AnswerTyped ==
    ASSUME NEW c \in Clients, NEW i \in Ids \cup {NoId},
           TypeOK, Answer(c, i), queue' \in [Ids -> Row]
    PROVE  TypeOK'
BY RestTyped DEF Answer, TypeOK, ReqPCs, Picks

-----------------------------------------------------------------------------
(* Type correctness *)

LEMMA TypeInit == Init => TypeOK
<1> SUFFICES ASSUME Init PROVE TypeOK
  OBVIOUS
<1>1. Unused \in Row
  BY RequestQueueAssumption DEF Unused, Idle, Row, Status, Picks
<1>2. queue \in [Ids -> Row]
  <2>1. PICK old \in [1 .. nextId - 1 -> OldRow] :
            queue = [i \in Ids |-> IF i < nextId THEN old[i] ELSE Unused]
    BY DEF Init
  <2>2. nextId \in 1 .. MaxRows + 1 /\ MaxRows \in Nat
    BY RequestQueueAssumption DEF Init
  <2>3. \A i \in Ids : i < nextId => i \in 1 .. nextId - 1
    BY <2>2 DEF Ids
  <2>4. \A i \in Ids : i < nextId => old[i] \in Row
    BY <2>1, <2>3 DEF OldRow
  <2> QED BY <1>1, <2>1, <2>4
<1> QED BY <1>2, RequestQueueAssumption, RestTyped DEF Init, TypeOK

LEMMA TypeRequest ==
    ASSUME NEW c \in Clients, TypeOK, Request(c)
    PROVE  TypeOK'
<1>1. CASE RequestStart(c)
  BY <1>1 DEF RequestStart, Start, TypeOK, ReqPCs
<1>2. CASE RequestLibrary(c)
  BY <1>2, GotoTyped DEF RequestLibrary, TypeOK, ReqPCs
<1>3. CASE RequestClearReady(c)
  <2>1. req[c].title \in Titles
    BY DEF TypeOK
  <2> QED BY <1>3, <2>1, ClearedTyped, AnswerTyped DEF RequestClearReady, TypeOK
<1>4. CASE RequestActive(c)
  <2>1. queue' \in [Ids -> Row]
    BY <1>4 DEF RequestActive, TypeOK
  <2>2. \/ Goto(c, "clear", NoId)
        \/ \E i \in Ids : Goto(c, "requeue", i) \/ Answer(c, i)
    BY <1>4 DEF RequestActive, ActiveRows
  <2> QED BY <2>1, <2>2, GotoTyped, AnswerTyped DEF ReqPCs
<1>5. CASE RequestRequeue(c)
  <2>1. queue' \in [Ids -> Row]
    <3>1. /\ queue \in [Ids -> Row] /\ req[c].magnet \in Picks
          /\ "pending" \in Status
      BY DEF TypeOK, Status, InFlight
    <3> DEFINE i == req[c].id
               row == [queue[i] EXCEPT !.status = "pending", !.magnet = req[c].magnet]
    <3>2. queue' = queue \/ queue' = [queue EXCEPT ![i] = row]
      BY <1>5 DEF RequestRequeue
    <3>3. i \in Ids => row \in Row
      BY <3>1 DEF Row
    <3> HIDE DEF i, row
    <3> QED BY <3>1, <3>2, <3>3
  <2>2. Answer(c, req[c].id) \/ Answer(c, NoId)
    BY <1>5 DEF RequestRequeue
  <2>3. req[c].id \in Ids \cup {NoId}
    BY DEF TypeOK
  <2> QED BY <2>1, <2>2, <2>3, AnswerTyped
<1>6. CASE RequestClear(c)
  <2>1. req[c].title \in Titles
    BY DEF TypeOK
  <2> QED BY <1>6, <2>1, ClearedTyped, GotoTyped DEF RequestClear, TypeOK, ReqPCs
<1>7. CASE Insert(c)
  <2>1. queue' \in [Ids -> Row]
    BY <1>7 DEF Insert, TypeOK, Row, Status, InFlight, Picks
  <2>2. nextId' \in 1 .. MaxRows + 1
    BY <1>7, RequestQueueAssumption DEF Insert, TypeOK, Ids
  <2>3. /\ nextId \in Ids
        /\ req' = [req EXCEPT ![c] = [@ EXCEPT !.pc = "answered", !.op = "none",
                                             !.magnet = NoMagnet, !.id = nextId]]
        /\ UNCHANGED <<ready, worker, proc, crashes, faults>>
    BY <1>7 DEF Insert
  <2>4. req' \in [Clients -> [pc: ReqPCs, op: {"none", "request", "season", "subscription"},
                              title: Titles, user: Users, magnet: Picks,
                              id: Ids \cup {NoId}]]
    <3>1. req \in [Clients -> [pc: ReqPCs, op: {"none", "request", "season", "subscription"},
                               title: Titles, user: Users, magnet: Picks,
                               id: Ids \cup {NoId}]]
      BY DEF TypeOK
    <3> QED BY <2>3, <3>1 DEF ReqPCs, Picks
  <2> QED BY <2>1, <2>2, <2>3, <2>4 DEF TypeOK
<1>8. CASE InsertFails(c)
  BY <1>8, AnswerTyped DEF InsertFails, TypeOK
<1>9. CASE InsertConflicts(c)
  BY <1>9, GotoTyped DEF InsertConflicts, TypeOK, ReqPCs
<1>10. CASE ReadIncumbent(c)
  BY <1>10, AnswerTyped DEF ReadIncumbent, ActiveRows, TypeOK
<1>11. CASE Respond(c)
  BY <1>11, RestTyped DEF Respond, TypeOK
<1>12. CASE EpisodeStart(c)
  BY <1>12 DEF EpisodeStart, Start, TypeOK, ReqPCs, Picks
<1>13. CASE EpisodeReady(c)
  BY <1>13, GotoTyped, AnswerTyped DEF EpisodeReady, TypeOK, ReqPCs
<1>14. CASE EpisodeInFlight(c)
  BY <1>14, GotoTyped, AnswerTyped DEF EpisodeInFlight, TypeOK, ReqPCs
<1> QED
  BY <1>1, <1>2, <1>3, <1>4, <1>5, <1>6, <1>7, <1>8, <1>9, <1>10, <1>11, <1>12, <1>13,
     <1>14 DEF Request

LEMMA TypeWorker ==
    ASSUME TypeOK, WorkerStep
    PROVE  TypeOK'
<1>1. /\ "processing" \in Status /\ "done" \in Status /\ "failed" \in Status
      /\ queue \in [Ids -> Row]
      /\ worker.id \in Ids => queue[worker.id].hash \in Picks
      /\ worker.hash \in Picks
  BY DEF TypeOK, Status, InFlight, Terminal, Row
\* whatever the worker writes to the row, the table stays a table
<1>2. ASSUME UpdateQueue(worker.id, "processing", queue[worker.id].hash)
      PROVE  queue' \in [Ids -> Row]
  BY <1>1, <1>2, UpdateTyped
<1>3. ASSUME FinalWrite("done", worker.hash) \/ FinalWrite("failed", queue[worker.id].hash)
      PROVE  TypeOK'
  <2>1. queue' \in [Ids -> Row]
    BY <1>1, <1>3, UpdateTyped DEF FinalWrite
  <2>2. faults' \in 0 .. MaxFaults
    BY <1>3, RequestQueueAssumption DEF FinalWrite, TypeOK
  <2> QED BY <1>3, <2>1, <2>2, RestTyped DEF FinalWrite, TypeOK
<1>4. CASE NextPending
  BY <1>4 DEF NextPending, TypeOK, WorkerPCs, Row, Picks
<1>5. CASE Claim
  BY <1>1, <1>2, <1>5, RestTyped DEF Claim, TypeOK, WorkerPCs
<1>6. CASE LookUpMetadata
  BY <1>1, <1>2, <1>6 DEF LookUpMetadata, SaveProgress, TypeOK, WorkerPCs
<1>7. CASE Progress
  BY <1>1, <1>2, <1>7 DEF Progress, SaveProgress, TypeOK
<1>8. CASE Resolve
  BY <1>1, <1>2, <1>8 DEF Resolve, SaveProgress, TypeOK, WorkerPCs, Picks
<1>9. CASE WriteLibrary
  BY <1>9 DEF WriteLibrary, TypeOK, WorkerPCs
<1>10. CASE Finish
  BY <1>3, <1>10 DEF Finish
<1>11. CASE Fail
  BY <1>3, <1>11 DEF Fail
<1>12. CASE Abandon
  BY <1>12, RestTyped DEF Abandon, TypeOK
<1> QED
  BY <1>4, <1>5, <1>6, <1>7, <1>8, <1>9, <1>10, <1>11, <1>12 DEF WorkerStep

LEMMA TypeManage ==
    ASSUME TypeOK, Manage
    PROVE  TypeOK'
<1>1. ASSUME NEW u \in Users, NEW i \in Ids, Cancel(u, i)
      PROVE  TypeOK'
  <2>1. queue[i] \in Row /\ [queue[i] EXCEPT !.status = "cancelled"] \in Row
    BY DEF TypeOK, Row, Status, Terminal
  <2>2. queue' = [queue EXCEPT ![i] = [queue[i] EXCEPT !.status = "cancelled"]]
    BY <1>1 DEF Cancel
  <2>3. queue' \in [Ids -> Row]
    BY <2>1, <2>2 DEF TypeOK
  <2>4. QED
    BY <1>1, <2>3 DEF Cancel, TypeOK
<1>2. ASSUME NEW u \in Users, NEW i \in Ids, Delete(u, i)
      PROVE  TypeOK'
  BY <1>2, DeletedIsRow DEF Delete, TypeOK
<1>3. ASSUME NEW u \in Users, DeleteFinished(u)
      PROVE  TypeOK'
  BY <1>3, DeletedIsRow DEF DeleteFinished, TypeOK
<1>4. ASSUME NEW t \in Titles, LibraryChanges(t)
      PROVE  TypeOK'
  BY <1>4 DEF LibraryChanges, TypeOK
<1> QED
  BY <1>1, <1>2, <1>3, <1>4 DEF Manage

LEMMA TypeProcess ==
    ASSUME TypeOK, Process
    PROVE  TypeOK'
<1>1. CASE Stop
  BY <1>1, RequestQueueAssumption DEF Stop, TypeOK
<1>2. CASE Exit
  BY <1>2, RequestQueueAssumption, RestTyped DEF Exit, TypeOK
<1>3. CASE Restart
  <2>1. queue' \in [Ids -> Row]
    BY <1>3, DeletedIsRow DEF Restart, TypeOK, Row, Status, InFlight
  <2> QED BY <1>3, <2>1 DEF Restart, TypeOK
<1> QED
  BY <1>1, <1>2, <1>3 DEF Process

LEMMA TypeStep ==
    ASSUME TypeOK, [Next]_vars
    PROVE  TypeOK'
<1>1. CASE UNCHANGED vars
  BY <1>1 DEF vars, TypeOK
<1>2. CASE Next
  BY <1>2, TypeRequest, TypeWorker, TypeManage, TypeProcess DEF Next
<1> QED BY <1>1, <1>2

\* Every variable keeps its type: TypeOK is inductive by itself.
THEOREM Typing == Spec => []TypeOK
<1>1. TypeOK /\ [Next]_vars => TypeOK'
  BY TypeStep
<1> QED BY <1>1, TypeInit, PTL DEF Spec

-----------------------------------------------------------------------------
(* The inductive invariant.  Three facts, none of which is the point of the *)
(* queue, carry the properties that are.                                    *)

\* The rows handed out are the ids below nextId.
Fresh == \A i \in Ids : queue[i].status = "none" <=> i >= nextId

\* A worker that is not at rest has a row, and one that nobody has finished:
\* only the worker finishes rows.  A row it merely selected is not yet marked.
WorkerRow ==
    /\ worker.pc # "idle" =>
         worker.id \in Ids /\ queue[worker.id].status \notin {"none", "done", "failed"}
    /\ worker.pc = "selected" => queue[worker.id].status # "processing"
    /\ proc = "down" => worker.pc = "idle"

\* The row a handler remembers was born as that requester's row for that title.
Owned ==
    \A c \in Clients : req[c].pc \in {"requeue", "answered"} /\ req[c].id # NoId =>
        LET i == req[c].id
        IN  /\ queue[i].status # "none"
            /\ queue[i].title = req[c].title
            /\ queue[i].user = req[c].user

IInv == TypeOK /\ Fresh /\ WorkerRow /\ Owned

-----------------------------------------------------------------------------
(* What a step may do to a row *)

Same(i) == queue'[i].title = queue[i].title /\ queue'[i].user = queue[i].user
Existing(i) == queue[i].status \notin {"none", "gone"}

Born(i) ==
    /\ i = nextId /\ nextId' = nextId + 1
    /\ queue[i].status = "none" /\ queue'[i].status = "pending"
Removed(i) ==
    /\ Existing(i)
    /\ queue'[i] = Deleted(queue[i])
    /\ \/ queue[i].status \in Terminal
       \/ \E u \in Admins : Delete(u, i)
       \/ Restart /\ \E j \in Ids : StandsFor(j, i)
Reopened(i) == Existing(i) /\ Same(i) /\ queue'[i].status = "pending" /\ worker' = worker
Cancelled(i) ==
    /\ queue[i].status = "pending" /\ Same(i)
    /\ queue'[i].status = "cancelled" /\ worker' = worker
Worked(i) ==
    /\ Existing(i) /\ Same(i) /\ worker.id = i /\ worker.pc # "idle"
    /\ \/ queue'[i].status = "processing" /\ worker'.pc \notin {"idle", "selected"}
                                          /\ worker'.id = i
       \/ queue'[i].status \in {"done", "failed"} /\ worker'.pc = "idle"

\* The five things, and nothing else, that can happen to a row.
RowStep(i) ==
    \/ queue'[i] = queue[i]
    \/ Born(i) \/ Removed(i) \/ Reopened(i) \/ Cancelled(i) \/ Worked(i)

\* Clearing the finished rows of a title removes finished rows.
LEMMA ClearedRows ==
    ASSUME TypeOK, NEW t \in Titles, queue' = ClearedOf(t), NEW i \in Ids
    PROVE  RowStep(i)
BY DEF ClearedOf, RowStep, Removed, Existing, Terminal

\* A re-pick re-opens one row, and no other row moves.
LEMMA RequeuedRows ==
    ASSUME TypeOK, NEW c \in Clients, RequestRequeue(c), NEW i \in Ids
    PROVE  RowStep(i)
<1> DEFINE k == req[c].id
           row == [queue[k] EXCEPT !.status = "pending", !.magnet = req[c].magnet]
<1>1. /\ worker' = worker
      /\ queue' = queue \/ (queue[k].status \notin {"none", "gone"}
                              /\ queue' = [queue EXCEPT ![k] = row])
  BY DEF RequestRequeue, Answer, Writable
<1>2. k \in Ids => row.status = "pending" /\ row.title = queue[k].title
                     /\ row.user = queue[k].user
  BY DEF TypeOK, Row
<1> HIDE DEF k, row
<1> QED BY <1>1, <1>2 DEF RowStep, Reopened, Existing, Same, TypeOK

LEMMA RequestRows ==
    ASSUME IInv, NEW c \in Clients, Request(c), NEW i \in Ids
    PROVE  RowStep(i)
<1> TypeOK /\ req[c].title \in Titles
  BY DEF IInv, TypeOK
<1>1. CASE RequestClearReady(c) \/ RequestClear(c)
  BY <1>1, ClearedRows DEF RequestClearReady, RequestClear
<1>2. CASE RequestRequeue(c)
  BY <1>2, RequeuedRows
<1>3. CASE Insert(c)
  <2>1. i # nextId => queue'[i] = queue[i]
    BY <1>3 DEF Insert, TypeOK
  <2>2. i = nextId => Born(i)
    BY <1>3 DEF Insert, TypeOK, Born, IInv, Fresh, Ids
  <2> QED BY <2>1, <2>2 DEF RowStep
<1>4. CASE UNCHANGED queue
  BY <1>4 DEF RowStep
<1> QED
  BY <1>1, <1>2, <1>3, <1>4 DEF Request, RequestStart, RequestLibrary, RequestActive,
     InsertFails, InsertConflicts, ReadIncumbent, Respond, EpisodeStart, EpisodeReady,
     EpisodeInFlight, Start

\* A write of the worker changes its own row, and only one that still exists.
LEMMA UpdatedRows ==
    ASSUME TypeOK, NEW k \in Ids, NEW s, NEW h, UpdateQueue(k, s, h), NEW i \in Ids,
           queue'[i] # queue[i]
    PROVE  /\ i = k /\ Existing(i) /\ Same(i)
           /\ queue'[i].status = s /\ (s \in InFlight => ~Clashes(i))
BY DEF UpdateQueue, Writable, Existing, Same, TypeOK, Row

LEMMA WorkerRows ==
    ASSUME IInv, WorkerStep, NEW i \in Ids
    PROVE  RowStep(i)
<1> SUFFICES ASSUME queue'[i] # queue[i] PROVE Worked(i)
  BY DEF RowStep
<1> TypeOK
  BY DEF IInv
<1> DEFINE k == worker.id
<1>1. worker.pc # "idle" => k \in Ids
  BY DEF IInv, WorkerRow
<1>2. CASE Claim
  <2>1. UpdateQueue(k, "processing", queue[k].hash) /\ k \in Ids /\ worker.pc = "selected"
    BY <1>1, <1>2 DEF Claim, WorkerIn
  <2>2. i = k /\ Existing(i) /\ Same(i) /\ queue'[i].status = "processing" /\ ~Clashes(i)
    BY <2>1, UpdatedRows DEF InFlight
  <2>3. worker' = [worker EXCEPT !.pc = "claimed"]
    BY <1>2, <2>2 DEF Claim
  <2> QED BY <2>1, <2>2, <2>3 DEF Worked, TypeOK
<1>3. CASE LookUpMetadata \/ Progress \/ Resolve
  <2>1. UpdateQueue(k, "processing", queue[k].hash) /\ worker.pc \in {"claimed", "working"}
    BY <1>3 DEF LookUpMetadata, Progress, Resolve, SaveProgress, WorkerIn
  <2>2. worker'.id = k /\ worker'.pc \in {"working", "writing"}
    BY <1>3 DEF LookUpMetadata, Progress, Resolve, WorkerIn, TypeOK
  <2> QED BY <1>1, <2>1, <2>2, UpdatedRows DEF Worked
<1>4. CASE Finish \/ Fail
  <2>1. /\ worker.pc # "idle" /\ worker' = Resting
        /\ \/ UpdateQueue(k, "done", worker.hash)
           \/ UpdateQueue(k, "failed", queue[k].hash)
    BY <1>4 DEF Finish, Fail, FinalWrite, WorkerIn
  <2> QED BY <1>1, <2>1, UpdatedRows DEF Worked, Resting
<1>5. CASE UNCHANGED queue
  BY <1>5
<1> QED
  BY <1>2, <1>3, <1>4, <1>5 DEF WorkerStep, NextPending, WriteLibrary, Abandon

LEMMA ManageRows ==
    ASSUME TypeOK, Manage, NEW i \in Ids
    PROVE  RowStep(i)
<1>1. ASSUME NEW u \in Users, NEW k \in Ids, Cancel(u, k)
      PROVE  RowStep(i)
  BY <1>1 DEF Cancel, RowStep, Cancelled, Same, TypeOK, Row
<1>2. ASSUME NEW u \in Users, NEW k \in Ids, Delete(u, k)
      PROVE  RowStep(i)
  BY <1>2 DEF Delete, RowStep, Removed, Existing, TypeOK, Terminal
<1>3. ASSUME NEW u \in Users, DeleteFinished(u)
      PROVE  RowStep(i)
  BY <1>3 DEF DeleteFinished, RowStep, Removed, Existing, Terminal
<1>4. ASSUME NEW t \in Titles, LibraryChanges(t)
      PROVE  RowStep(i)
  BY <1>4 DEF LibraryChanges, RowStep
<1> QED
  BY <1>1, <1>2, <1>3, <1>4 DEF Manage

\* A set of ids has a first element.
LEMMA LeastOfSet ==
    ASSUME NEW S, S \subseteq Nat, S # {}
    PROVE  \E x \in S : \A y \in S : x <= y
<1>1. PICK x \in S : \A y \in S : ~(<<y, x>> \in OpToRel(<, Nat))
  BY NatLessThanWellFounded, WFMin, Zenon
<1>2. \A y \in S : ~(y < x)
  BY <1>1 DEF OpToRel
<1> QED BY <1>2

\* Among the duplicates of a row in flight the oldest is none itself: it stays
\* when the table is collapsed, and is pending afterwards.
LEMMA OldestStays ==
    ASSUME TypeOK, Restart, NEW i \in Ids, Duplicate(i)
    PROVE  \E j \in Ids : StandsFor(j, i)
<1> DEFINE Twins == {j \in Ids : Active(j) /\ SameIdentity(i, j)}
<1>1. Twins \subseteq Nat /\ Ids \subseteq Nat
  BY RequestQueueAssumption DEF Ids
<1>2. PICK d \in Ids : d < i /\ Active(d) /\ SameIdentity(i, d)
  BY DEF Duplicate
<1>3. PICK j \in Twins : \A k \in Twins : j <= k
  BY <1>1, <1>2, LeastOfSet
<1>4. j \in Ids /\ j < i /\ Active(j) /\ SameIdentity(i, j)
  BY <1>1, <1>2, <1>3
<1>5. ~Duplicate(j)
  BY <1>1, <1>3, <1>4 DEF Duplicate, SameIdentity
<1>6. ~Superseded(j)
  BY <1>4 DEF Superseded, Active, InFlight, Terminal
<1>7. queue[j] \in Row
  BY <1>4 DEF TypeOK
<1>8. queue'[j] = IF queue[j].status = "processing"
                    THEN [queue[j] EXCEPT !.status = "pending"] ELSE queue[j]
  BY <1>4, <1>5, <1>6 DEF Restart
<1>9. queue'[j] = [queue[j] EXCEPT !.status = "pending"]
  BY <1>4, <1>7, <1>8 DEF Active, InFlight, Row
<1> QED BY <1>4, <1>9 DEF StandsFor

LEMMA RestartRows ==
    ASSUME TypeOK, Restart, NEW i \in Ids
    PROVE  RowStep(i)
<1>1. CASE Duplicate(i)
  BY <1>1, OldestStays DEF Restart, RowStep, Removed, Existing, Duplicate, Active, InFlight
<1>2. CASE Superseded(i)
  BY <1>2 DEF Restart, RowStep, Removed, Existing, Superseded, Terminal
<1>3. CASE ~Duplicate(i) /\ ~Superseded(i)
  BY <1>3 DEF Restart, RowStep, Reopened, Existing, Same, TypeOK, Row
<1> QED BY <1>1, <1>2, <1>3

LEMMA ProcessRows ==
    ASSUME TypeOK, Process, NEW i \in Ids
    PROVE  RowStep(i)
<1>1. CASE Restart
  BY <1>1, RestartRows
<1>2. CASE UNCHANGED queue
  BY <1>2 DEF RowStep
<1> QED
  BY <1>1, <1>2 DEF Process, Stop, Exit

LEMMA Rows ==
    ASSUME IInv, [Next]_vars, NEW i \in Ids
    PROVE  RowStep(i)
<1>1. CASE UNCHANGED vars
  BY <1>1 DEF vars, RowStep
<1>2. CASE Next
  BY <1>2, RequestRows, WorkerRows, ManageRows, ProcessRows DEF Next, IInv
<1> QED BY <1>1, <1>2

-----------------------------------------------------------------------------
(* The invariant is inductive *)

LEMMA IInvInit == Init => IInv
<1> SUFFICES ASSUME Init PROVE IInv
  OBVIOUS
<1>1. Fresh
  <2>1. PICK old \in [1 .. nextId - 1 -> OldRow] :
            queue = [i \in Ids |-> IF i < nextId THEN old[i] ELSE Unused]
    BY DEF Init
  <2>2. nextId \in Nat /\ \A i \in Ids : i \in Nat /\ (i < nextId => i \in 1 .. nextId - 1)
    BY RequestQueueAssumption DEF Init, Ids
  <2>3. \A row \in OldRow : row.status # "none"
    BY DEF OldRow, InFlight, Terminal
  <2>4. Unused.status = "none"
    BY DEF Unused
  <2> QED BY <2>1, <2>2, <2>3, <2>4 DEF Fresh
<1>2. WorkerRow /\ Owned
  BY DEF Init, WorkerRow, Owned, Idle, Resting
<1> QED BY <1>1, <1>2, TypeInit DEF IInv

\* Ids are handed out one at a time, and only to rows.
LEMMA NextIdStep ==
    ASSUME TypeOK, [Next]_vars
    PROVE  \/ nextId' = nextId
           \/ /\ nextId \in Ids /\ nextId' = nextId + 1
              /\ queue'[nextId].status = "pending"
<1>1. ASSUME NEW c \in Clients, Insert(c)
      PROVE  /\ nextId \in Ids /\ nextId' = nextId + 1
             /\ queue'[nextId].status = "pending"
  BY <1>1 DEF Insert, TypeOK
<1>2. ASSUME NEW c \in Clients, Request(c), ~Insert(c)
      PROVE  nextId' = nextId
  BY <1>2 DEF Request, RequestStart, RequestLibrary, RequestClearReady, RequestActive,
     RequestRequeue, RequestClear, InsertFails, InsertConflicts, ReadIncumbent, Respond,
     EpisodeStart, EpisodeReady, EpisodeInFlight, Start, Goto, Answer
<1>3. CASE WorkerStep
  BY <1>3 DEF WorkerStep, NextPending, Claim, LookUpMetadata, Progress, Resolve,
     SaveProgress, WriteLibrary, Finish, Fail, FinalWrite, Abandon
<1>4. CASE Manage
  BY <1>4 DEF Manage, Cancel, Delete, DeleteFinished, LibraryChanges
<1>5. CASE Process
  BY <1>5 DEF Process, Stop, Exit, Restart
<1>6. CASE UNCHANGED vars
  BY <1>6 DEF vars
<1> QED BY <1>1, <1>2, <1>3, <1>4, <1>5, <1>6 DEF Next

LEMMA FreshStep ==
    ASSUME IInv, [Next]_vars
    PROVE  Fresh'
<1> SUFFICES ASSUME NEW i \in Ids
             PROVE  queue'[i].status = "none" <=> i >= nextId'
  BY DEF Fresh
<1>1. nextId \in Nat /\ i \in Nat /\ (queue[i].status = "none" <=> i >= nextId)
  BY RequestQueueAssumption DEF IInv, TypeOK, Fresh, Ids
<1>2. RowStep(i) /\ (nextId' = nextId \/ (nextId' = nextId + 1
                                            /\ queue'[nextId].status = "pending"))
  BY Rows, NextIdStep DEF IInv
<1>3. queue'[i].status = "none" <=> queue[i].status = "none" /\ ~Born(i)
  <2>1. queue[i] \in Row
    BY DEF IInv, TypeOK
  <2>2. Removed(i) => queue[i].status # "none" /\ queue'[i].status = "gone"
    BY <2>1, DeletedIsRow DEF Removed, Existing
  <2>3. Reopened(i) \/ Cancelled(i) \/ Worked(i) =>
            queue[i].status # "none" /\ queue'[i].status # "none"
    BY DEF Reopened, Cancelled, Worked, Existing
  <2>4. Born(i) => queue[i].status = "none" /\ queue'[i].status # "none"
    BY DEF Born
  <2> QED BY <1>2, <2>2, <2>3, <2>4 DEF RowStep
<1>4. Born(i) <=> queue[i].status = "none" /\ i = nextId /\ nextId' = nextId + 1
  BY <1>1, <1>2 DEF Born
<1> QED BY <1>1, <1>2, <1>3, <1>4

\* A row the worker holds is finished, or brought back, by nobody else.
LEMMA WorkerRowStep ==
    ASSUME IInv, [Next]_vars
    PROVE  WorkerRow'
<1> TypeOK /\ WorkerRow
  BY DEF IInv
<1>1. \A i \in Ids : RowStep(i) /\ queue[i] \in Row
  BY Rows DEF TypeOK
<1>2. ASSUME worker' = worker, proc' = proc \/ proc' # "down"
      PROVE  WorkerRow'
  <2> DEFINE k == worker.id
  <2>1. ASSUME worker.pc # "idle" PROVE k \in Ids /\ RowStep(k) /\ queue[k] \in Row
    BY <1>1, <2>1 DEF WorkerRow
  <2>2. ASSUME worker.pc # "idle", Removed(k) PROVE queue'[k].status = "gone"
    BY <2>1, <2>2, DeletedIsRow DEF Removed
  <2>3. ASSUME worker.pc # "idle"
        PROVE  /\ queue'[k].status \notin {"none", "done", "failed"}
               /\ worker.pc = "selected" => queue'[k].status # "processing"
    BY <1>2, <2>1, <2>2, <2>3 DEF RowStep, Born, Reopened, Cancelled, Worked, WorkerRow
  <2> QED BY <1>2, <2>1, <2>3 DEF WorkerRow
<1>3. CASE UNCHANGED vars
  BY <1>2, <1>3 DEF vars
<1>4. ASSUME NEW c \in Clients, Request(c)
      PROVE  WorkerRow'
  BY <1>2, <1>4 DEF Request, RequestStart, RequestLibrary, RequestClearReady, RequestActive,
     RequestRequeue, RequestClear, Insert, InsertFails, InsertConflicts, ReadIncumbent,
     Respond, EpisodeStart, EpisodeReady, EpisodeInFlight, Start, Goto, Answer
<1>5. CASE Manage
  BY <1>2, <1>5 DEF Manage, Cancel, Delete, DeleteFinished, LibraryChanges
<1>6. CASE Process
  BY <1>2, <1>6 DEF Process, Stop, Exit, Restart, WorkerRow, Resting
<1>7. CASE NextPending
  BY <1>7 DEF NextPending, WorkerRow
<1>8. CASE Claim \/ LookUpMetadata \/ Progress \/ Resolve
  <2>1. worker.pc # "idle" /\ proc # "down" /\ proc' = proc /\ worker.id \in Ids
    BY <1>8 DEF Claim, LookUpMetadata, Progress, Resolve, SaveProgress, WorkerIn, Serving,
       WorkerRow
  <2>2. worker' = Resting \/ (worker'.id = worker.id /\ worker'.pc # "idle"
                                /\ worker'.pc # "selected")
    BY <1>8 DEF Claim, LookUpMetadata, Progress, Resolve, WorkerIn, TypeOK
  <2>3. UpdateQueue(worker.id, "processing", queue[worker.id].hash)
    BY <1>8 DEF Claim, LookUpMetadata, Progress, Resolve, SaveProgress
  <2>4. queue'[worker.id].status \notin {"none", "done", "failed"}
    BY <2>1, <2>3, UpdatedRows DEF WorkerRow, Existing
  <2> QED BY <2>1, <2>2, <2>4 DEF WorkerRow, Resting
<1>9. CASE WriteLibrary
  BY <1>9 DEF WriteLibrary, WorkerRow, WorkerIn, Serving, TypeOK
<1>10. CASE Finish \/ Fail \/ Abandon
  BY <1>10 DEF Finish, Fail, Abandon, FinalWrite, WorkerRow, Resting
<1> QED
  BY <1>3, <1>4, <1>5, <1>6, <1>7, <1>8, <1>9, <1>10 DEF Next, WorkerStep

\* A row keeps the identity it was born with.
LEMMA Identity ==
    ASSUME IInv, [Next]_vars, NEW i \in Ids, queue[i].status # "none"
    PROVE  queue'[i].status # "none" /\ Same(i)
<1>1. RowStep(i) /\ queue[i] \in Row
  BY Rows DEF IInv, TypeOK
<1>2. Removed(i) => queue'[i].status # "none" /\ Same(i)
  BY <1>1 DEF Removed, Deleted, Same, Row
<1> QED BY <1>1, <1>2 DEF RowStep, Born, Reopened, Cancelled, Worked, Same

\* A request is handed an id only of a row it found, or made, for itself.
LEMMA OwnedRequest ==
    ASSUME IInv, NEW c \in Clients, Request(c),
           req'[c].pc \in {"requeue", "answered"}, req'[c].id # NoId
    PROVE  LET i == req'[c].id
           IN  /\ queue'[i].status # "none"
               /\ queue'[i].title = req'[c].title
               /\ queue'[i].user = req'[c].user
<1> TypeOK /\ Owned
  BY DEF IInv
<1> DEFINE Mine(i) == /\ i \in Ids /\ queue[i].status # "none"
                      /\ queue[i].title = req[c].title
                      /\ queue[i].user = req[c].user
<1>1. ASSUME NEW i \in Ids, Mine(i), Goto(c, "requeue", i) \/ Answer(c, i)
      PROVE  /\ req'[c].id = i /\ queue'[i].status # "none"
             /\ queue'[i].title = req'[c].title
             /\ queue'[i].user = req'[c].user
  <2>1. i # NoId
    BY RequestQueueAssumption DEF Ids
  <2>2. req'[c].id = i /\ req'[c].title = req[c].title /\ req'[c].user = req[c].user
    <3>1. CASE Goto(c, "requeue", i)
      BY <3>1 DEF Goto, TypeOK
    <3>2. CASE Answer(c, i)
      BY <3>2, <2>1 DEF Answer, TypeOK
    <3> QED BY <1>1, <3>1, <3>2
  <2> QED BY <1>1, <2>2, Identity DEF Next, Same
<1>2. ASSUME Answer(c, NoId)
      PROVE  FALSE
  BY <1>2 DEF Answer, Idle, TypeOK
<1>3. \A i \in ActiveRows(req[c].title, req[c].user) : Mine(i)
  BY DEF ActiveRows, Active, InFlight
<1>4. CASE RequestActive(c)
  <2>1. ~Goto(c, "clear", NoId)
    BY DEF Goto, TypeOK
  <2>2. PICK i \in ActiveRows(req[c].title, req[c].user) : Goto(c, "requeue", i) \/ Answer(c, i)
    BY <1>4, <2>1 DEF RequestActive
  <2> QED BY <1>1, <1>3, <2>2
<1>5. CASE RequestRequeue(c)
  <2>1. Answer(c, req[c].id) /\ req[c].pc = "requeue"
    BY <1>2, <1>5 DEF RequestRequeue
  <2>2. req[c].id # NoId => Mine(req[c].id)
    BY <2>1 DEF Owned, TypeOK
  <2> QED BY <1>1, <1>2, <2>1, <2>2
<1>6. CASE ReadIncumbent(c)
  BY <1>1, <1>2, <1>3, <1>6 DEF ReadIncumbent
<1>7. CASE Insert(c)
  BY <1>7 DEF Insert, TypeOK
<1>8. CASE RequestStart(c) \/ EpisodeStart(c)
  BY <1>8 DEF RequestStart, EpisodeStart, Start, TypeOK
<1>9. CASE Respond(c)
  BY <1>9 DEF Respond, Idle, TypeOK
<1>10. ASSUME NEW pc, Goto(c, pc, NoId)
       PROVE  FALSE
  BY <1>10 DEF Goto, TypeOK
<1>11. CASE RequestLibrary(c) \/ RequestClear(c) \/ InsertConflicts(c)
  <2>1. RequestLibrary(c) => Goto(c, "clearReady", NoId) \/ Goto(c, "active", NoId)
    BY Zenon DEF RequestLibrary
  <2>2. RequestClear(c) \/ InsertConflicts(c) =>
            Goto(c, "insert", NoId) \/ Goto(c, "incumbent", NoId)
    BY DEF RequestClear, InsertConflicts
  <2> QED BY <1>11, <1>10, <2>1, <2>2
<1>12. CASE RequestClearReady(c) \/ InsertFails(c)
  BY <1>2, <1>12 DEF RequestClearReady, InsertFails
<1>13. CASE EpisodeReady(c) \/ EpisodeInFlight(c)
  BY <1>2, <1>13, <1>10 DEF EpisodeReady, EpisodeInFlight
<1> QED
  BY <1>4, <1>5, <1>6, <1>7, <1>8, <1>9, <1>11, <1>12, <1>13 DEF Request

LEMMA OwnedStep ==
    ASSUME IInv, [Next]_vars
    PROVE  Owned'
<1> TypeOK /\ Owned
  BY DEF IInv
<1> SUFFICES ASSUME NEW c \in Clients, req'[c].pc \in {"requeue", "answered"},
                    req'[c].id # NoId
             PROVE  LET i == req'[c].id
                    IN  /\ queue'[i].status # "none"
                        /\ queue'[i].title = req'[c].title
                        /\ queue'[i].user = req'[c].user
  BY DEF Owned
<1>1. CASE req'[c] = req[c]
  <2>1. req[c].id \in Ids /\ queue[req[c].id].status # "none"
    BY <1>1 DEF Owned, TypeOK
  <2> QED BY <1>1, <2>1, Identity DEF Owned, Same
<1>2. CASE Request(c)
  BY <1>2, OwnedRequest
<1>3. ASSUME NEW d \in Clients, d # c, Request(d)
      PROVE  req'[c] = req[c]
  BY <1>3 DEF Request, RequestStart, RequestLibrary, RequestClearReady, RequestActive,
     RequestRequeue, RequestClear, Insert, InsertFails, InsertConflicts, ReadIncumbent,
     Respond, EpisodeStart, EpisodeReady, EpisodeInFlight, Start, Goto, Answer, TypeOK
<1>4. CASE WorkerStep
  BY <1>1, <1>4 DEF WorkerStep, NextPending, Claim, LookUpMetadata, Progress, Resolve,
     SaveProgress, WriteLibrary, Finish, Fail, FinalWrite, Abandon
<1>5. CASE Manage
  BY <1>1, <1>5 DEF Manage, Cancel, Delete, DeleteFinished, LibraryChanges
<1>6. CASE Process
  BY <1>1, <1>6 DEF Process, Stop, Exit, Restart, Idle
<1>7. CASE UNCHANGED vars
  BY <1>1, <1>7 DEF vars
<1> QED BY <1>1, <1>2, <1>3, <1>4, <1>5, <1>6, <1>7 DEF Next

\* The worker's and the handlers' hold on the table, in every reachable state.
THEOREM Invariance == Spec => []IInv
<1>1. IInv /\ [Next]_vars => IInv'
  BY TypeStep, FreshStep, WorkerRowStep, OwnedStep DEF IInv
<1> QED BY <1>1, IInvInit, PTL DEF Spec

-----------------------------------------------------------------------------
(* What follows of the answers and of the rows *)

\* Every answer names a row of the requester who gets it, for the title asked.
THEOREM AnswersAreMine == Spec => []AnswerIsMine
<1>1. IInv => AnswerIsMine
  BY DEF IInv, Owned, AnswerIsMine
<1> QED BY <1>1, Invariance, PTL

LEMMA SettledRowsStep ==
    ASSUME IInv, [Next]_vars, NEW i \in Ids
    PROVE  /\ queue[i].status \in Terminal =>
                queue'[i].status \in {queue[i].status, "pending", "gone"} \/ Overtaken(i)
           /\ queue[i].status = "gone" => queue'[i] = queue[i]
<1>1. RowStep(i) /\ queue[i] \in Row
  BY Rows DEF IInv, TypeOK
<1>2. Removed(i) => queue'[i].status = "gone" /\ queue[i].status # "gone"
  BY <1>1, DeletedIsRow DEF Removed, Existing
<1>3. Worked(i) /\ queue[i].status \in Terminal => Overtaken(i)
  BY DEF Worked, IInv, WorkerRow, Terminal, Overtaken
<1> QED
  BY <1>1, <1>2, <1>3 DEF RowStep, Born, Reopened, Cancelled, Worked, Existing, Terminal

\* Settled rows, cancelled ones too, come back only as pending ones, but for the one
\* that was cancelled while the worker had it in hand; deleted rows not at all.
THEOREM RowsStaySettled == Spec => SettledRows
<1>1. IInv /\ [Next]_vars =>
        [\A i \in Ids :
            /\ queue[i].status \in Terminal =>
                   queue'[i].status \in {queue[i].status, "pending", "gone"} \/ Overtaken(i)
            /\ queue[i].status = "gone" => queue'[i] = queue[i]]_vars
  BY SettledRowsStep
<1> QED BY <1>1, Invariance, PTL DEF Spec, SettledRows

\* A request in flight is removed only by an admin's delete, or at a start that
\* leaves an older request for the same in its place.
THEOREM InFlightRowsAreKept == Spec => InFlightIsKept
<1>1. ASSUME IInv, [Next]_vars, NEW i \in Ids, Active(i), queue'[i].status = "gone"
      PROVE  (\E u \in Admins : Delete(u, i)) \/ (Restart /\ \E j \in Ids : StandsFor(j, i))
  <2>1. RowStep(i) /\ queue[i].status \notin Terminal /\ queue[i].status # "gone"
    BY <1>1, Rows DEF Active, InFlight, Terminal
  <2> QED BY <1>1, <2>1 DEF RowStep, Born, Removed, Reopened, Cancelled, Worked
<1>2. IInv /\ [Next]_vars =>
        [\A i \in Ids : Active(i) /\ queue'[i].status = "gone" =>
           \/ \E u \in Admins : Delete(u, i)
           \/ Restart /\ \E j \in Ids : StandsFor(j, i)]_vars
  BY <1>1
<1> QED BY <1>2, Invariance, PTL DEF Spec, InFlightIsKept

-----------------------------------------------------------------------------
(* One request in flight per identity and requester *)

Unique == \A i, j \in Ids : Active(i) /\ Active(j) /\ SameIdentity(i, j) => i = j

\* A step that makes no row active, and moves no identity, keeps Unique.
LEMMA NothingActivated ==
    ASSUME Unique,
           \A i \in Ids : Active(i)' => Active(i) /\ Same(i)
    PROVE  Unique'
BY DEF Unique, SameIdentity, Same

\* Nor does one that activates a single row which clashes with no other.
LEMMA OneActivated ==
    ASSUME Unique, NEW k \in Ids, ~Clashes(k), Same(k),
           \A i \in Ids \ {k} : queue'[i] = queue[i]
    PROVE  Unique'
BY DEF Unique, Clashes, SameIdentity, Same, Active

\* A write of the worker, which the index refuses if the row clashes.
LEMMA UpdateIsUnique ==
    ASSUME IInv, Unique, worker.pc # "idle",
           NEW s, NEW h, UpdateQueue(worker.id, s, h)
    PROVE  Unique'
<1> DEFINE k == worker.id
<1>1. TypeOK /\ k \in Ids
  BY DEF IInv, WorkerRow
<1>2. \A i \in Ids \ {k} : queue'[i] = queue[i]
  BY <1>1, UpdatedRows
<1>3. CASE queue'[k] = queue[k]
  BY <1>2, <1>3, NothingActivated DEF Active, Same
<1>4. CASE queue'[k] # queue[k] /\ s \in InFlight
  BY <1>1, <1>2, <1>4, UpdatedRows, OneActivated
<1>5. CASE queue'[k] # queue[k] /\ s \notin InFlight
  <2>1. queue'[k].status = s
    BY <1>1, <1>5, UpdatedRows
  <2> QED BY <1>2, <1>5, <2>1, NothingActivated DEF Active, Same
<1> QED BY <1>3, <1>4, <1>5

LEMMA RequestIsUnique ==
    ASSUME IInv, Unique, NEW c \in Clients, Request(c)
    PROVE  Unique'
<1> TypeOK /\ req[c].title \in Titles
  BY DEF IInv, TypeOK
<1>1. CASE RequestClearReady(c) \/ RequestClear(c)
  <2>1. queue' = ClearedOf(req[c].title)
    BY <1>1 DEF RequestClearReady, RequestClear
  <2>2. \A i \in Ids : Active(i)' => queue'[i] = queue[i]
    BY <2>1, DeletedIsRow DEF ClearedOf, Active, InFlight, TypeOK
  <2> QED BY <2>2, NothingActivated DEF Active, Same
<1>2. CASE RequestRequeue(c)
  <2> DEFINE k == req[c].id
             row == [queue[k] EXCEPT !.status = "pending", !.magnet = req[c].magnet]
  <2>1. CASE queue' = queue
    BY <2>1, NothingActivated DEF Active, Same
  <2>2. CASE Writable(k, "pending") /\ queue' = [queue EXCEPT ![k] = row]
    <3>1. k \in Ids => ~Clashes(k) /\ Same(k)
      BY <2>2 DEF Writable, InFlight, Same, TypeOK, Row
    <3>2. \A i \in Ids \ {k} : queue'[i] = queue[i]
      BY <2>2 DEF TypeOK
    <3>3. CASE k \in Ids
      BY <3>1, <3>2, <3>3, OneActivated
    <3>4. CASE k \notin Ids
      BY <3>2, <3>4, NothingActivated DEF Active, Same
    <3> QED BY <3>3, <3>4
  <2> QED BY <1>2, <2>1, <2>2 DEF RequestRequeue
<1>3. CASE Insert(c)
  <2>1. /\ \A i \in Ids \ {nextId} : queue'[i] = queue[i]
        /\ queue'[nextId].title = req[c].title /\ queue'[nextId].user = req[c].user
        /\ \A i \in Ids : ~(/\ Active(i) /\ queue[i].title = req[c].title
                            /\ queue[i].user = req[c].user)
    BY <1>3 DEF Insert, TypeOK, ActiveRows
  <2> QED BY <2>1 DEF Unique, SameIdentity, Active
<1>4. CASE UNCHANGED queue
  BY <1>4, NothingActivated DEF Active, Same
<1> QED
  BY <1>1, <1>2, <1>3, <1>4 DEF Request, RequestStart, RequestLibrary, RequestActive,
     InsertFails, InsertConflicts, ReadIncumbent, Respond, EpisodeStart, EpisodeReady,
     EpisodeInFlight, Start

LEMMA OthersAreUnique ==
    ASSUME IInv, Unique, Manage \/ Process
    PROVE  Unique'
<1>1. \A i \in Ids : queue[i] \in Row /\ Deleted(queue[i]).status = "gone"
  BY DeletedIsRow DEF IInv, TypeOK
<1>2. \A i \in Ids : Active(i)' => Active(i) /\ Same(i)
  <2>1. ASSUME NEW u \in Users, NEW k \in Ids, Cancel(u, k) \/ Delete(u, k), NEW i \in Ids
        PROVE  Active(i)' => queue'[i] = queue[i]
    BY <1>1, <2>1 DEF Cancel, Delete, Active, InFlight, IInv, TypeOK, Row
  <2>2. ASSUME NEW u \in Users, DeleteFinished(u), NEW i \in Ids
        PROVE  Active(i)' => queue'[i] = queue[i]
    BY <1>1, <2>2 DEF DeleteFinished, Active, InFlight
  <2>3. ASSUME Restart, NEW i \in Ids
        PROVE  Active(i)' => Active(i) /\ Same(i)
    BY <1>1, <2>3 DEF Restart, Active, InFlight, Same, Row
  <2>4. ASSUME UNCHANGED queue, NEW i \in Ids
        PROVE  Active(i)' => queue'[i] = queue[i]
    BY <2>4
  <2>5. \A i \in Ids : queue'[i] = queue[i] => (Active(i)' => Active(i)) /\ Same(i)
    BY DEF Active, Same
  <2> QED
    BY <2>1, <2>2, <2>3, <2>4, <2>5 DEF Manage, Process, LibraryChanges, Stop, Exit
<1> QED BY <1>2, NothingActivated

\* A process that runs again has been through startup's repair of the table.
LEMMA OnlyRestartStarts ==
    ASSUME TypeOK, [Next]_vars,
           (proc # "up" /\ proc' = "up") \/ (proc = "down" /\ proc' # "down")
    PROVE  Restart
<1>1. ASSUME NEW c \in Clients, Request(c)
      PROVE  proc' = proc
  BY <1>1 DEF Request, RequestStart, RequestLibrary, RequestClearReady, RequestActive,
     RequestRequeue, RequestClear, Insert, InsertFails, InsertConflicts, ReadIncumbent,
     Respond, EpisodeStart, EpisodeReady, EpisodeInFlight, Start, Goto, Answer
<1>2. CASE WorkerStep
  BY <1>2 DEF WorkerStep, NextPending, Claim, LookUpMetadata, Progress, Resolve,
     SaveProgress, WriteLibrary, Finish, Fail, FinalWrite, Abandon
<1>3. CASE Manage
  BY <1>3 DEF Manage, Cancel, Delete, DeleteFinished, LibraryChanges
<1>4. CASE UNCHANGED vars \/ Stop \/ Exit
  BY <1>4 DEF vars, Stop, Exit
<1> QED BY <1>1, <1>2, <1>3, <1>4 DEF Next, Process

\* Startup leaves no duplicate behind, whatever table it found.
LEMMA RestartIsUnique ==
    ASSUME TypeOK, Restart
    PROVE  Unique'
<1>1. \A i \in Ids : queue[i] \in Row /\ Deleted(queue[i]).status = "gone"
  BY DeletedIsRow DEF TypeOK
<1>2. \A i \in Ids : Active(i)' => Active(i) /\ Same(i) /\ ~Duplicate(i)
  BY <1>1 DEF Restart, Active, InFlight, Same, Row
<1>3. ASSUME NEW i \in Ids, NEW j \in Ids, Active(i)', Active(j)', SameIdentity(i, j)', i # j
      PROVE  FALSE
  <2>1. Active(i) /\ Active(j) /\ SameIdentity(i, j) /\ SameIdentity(j, i)
    BY <1>2, <1>3 DEF Same, SameIdentity
  <2>2. i < j \/ j < i
    BY <1>3, RequestQueueAssumption DEF Ids
  <2> QED BY <1>2, <1>3, <2>1, <2>2 DEF Duplicate
<1> QED BY <1>3 DEF Unique

\* From the first start on no identity is in flight twice for one requester, whatever
\* handlers, the worker's stale copy, re-picks, cancels and restarts do to each other.
THEOREM Uniqueness == Spec => []UniqueActive
<1>1. Init => UniqueActive
  BY DEF Init, UniqueActive, Serving
<1>2. IInv /\ UniqueActive /\ [Next]_vars => UniqueActive'
  <2> SUFFICES ASSUME IInv, UniqueActive, [Next]_vars, Serving' PROVE Unique'
    BY DEF UniqueActive, Unique
  <2> TypeOK
    BY DEF IInv
  <2>0. CASE ~Serving
    BY <2>0, OnlyRestartStarts, RestartIsUnique DEF Serving, TypeOK
  <2> SUFFICES ASSUME Unique PROVE Unique'
    BY <2>0 DEF UniqueActive, Unique
  <2>1. CASE UNCHANGED queue
    BY <2>1, NothingActivated DEF Active, Same
  <2>2. CASE Claim \/ LookUpMetadata \/ Progress \/ Resolve
    <3>1. worker.pc # "idle" /\ UpdateQueue(worker.id, "processing", queue[worker.id].hash)
      BY <2>2 DEF Claim, LookUpMetadata, Progress, Resolve, SaveProgress, WorkerIn
    <3> QED BY <3>1, UpdateIsUnique
  <2>3. CASE Finish \/ Fail
    <3>1. \/ UNCHANGED queue
          \/ UpdateQueue(worker.id, "done", worker.hash)
          \/ UpdateQueue(worker.id, "failed", queue[worker.id].hash)
      BY <2>3 DEF Finish, Fail, FinalWrite
    <3>2. worker.pc # "idle"
      BY <2>3 DEF Finish, Fail, WorkerIn
    <3> QED BY <2>1, <3>1, <3>2, UpdateIsUnique
  <2> QED
    BY <2>1, <2>2, <2>3, RequestIsUnique, OthersAreUnique DEF Next, WorkerStep, NextPending,
       WriteLibrary, Abandon, vars
<1> QED BY <1>1, <1>2, Invariance, PTL DEF Spec

-----------------------------------------------------------------------------
(* Rows that say 'processing' while nobody processes them *)

\* A step strands a row only by a final write that is refused, and then one.
LEMMA StrandedStep ==
    ASSUME IInv, [Next]_vars, proc # "down"
    PROVE  \/ Stranded' \subseteq Stranded /\ faults' = faults
           \/ \E i \in Ids : Stranded' \subseteq Stranded \cup {i} /\ faults' = faults + 1
           \/ proc' # "up"
<1> TypeOK /\ WorkerRow
  BY DEF IInv
<1> DEFINE k == worker.id
<1>1. \A i \in Ids : RowStep(i) /\ queue[i] \in Row
  BY Rows DEF IInv, TypeOK
\* a row that is 'processing' after the step, and was not before, is in hand
<1>2. ASSUME NEW i \in Ids, queue'[i].status = "processing", queue[i].status # "processing"
      PROVE  Held(i)'
  <2>1. ~Removed(i)
    BY <1>1, <1>2, DeletedIsRow DEF Removed
  <2>2. Worked(i)
    BY <1>1, <1>2, <2>1 DEF RowStep, Born, Reopened, Cancelled
  <2> QED BY <1>2, <2>2 DEF Worked, Held
<1>3. ASSUME \A i \in Ids : Held(i) => Held(i)' \/ queue'[i].status # "processing"
      PROVE  Stranded' \subseteq Stranded
  BY <1>2, <1>3 DEF Stranded
<1>4. ASSUME worker' = worker
      PROVE  Stranded' \subseteq Stranded
  BY <1>3, <1>4 DEF Held
<1>5. CASE UNCHANGED vars
  BY <1>4, <1>5 DEF vars
<1>6. ASSUME NEW c \in Clients, Request(c)
      PROVE  worker' = worker /\ faults' = faults
  BY <1>6 DEF Request, RequestStart, RequestLibrary, RequestClearReady, RequestActive,
     RequestRequeue, RequestClear, Insert, InsertFails, InsertConflicts, ReadIncumbent,
     Respond, EpisodeStart, EpisodeReady, EpisodeInFlight, Start, Goto, Answer
<1>7. CASE Manage
  BY <1>4, <1>7 DEF Manage, Cancel, Delete, DeleteFinished, LibraryChanges
<1>8. CASE Process
  BY <1>8 DEF Process, Stop, Exit, Restart
<1>9. CASE NextPending
  BY <1>3, <1>9 DEF NextPending, Held
<1>10. CASE Claim \/ LookUpMetadata \/ Progress \/ Resolve \/ WriteLibrary
  <2>1. faults' = faults
    BY <1>10 DEF Claim, LookUpMetadata, Progress, Resolve, WriteLibrary, SaveProgress
  <2>2. CASE worker' = Resting /\ Claim
    BY <1>3, <2>1, <2>2 DEF Claim, WorkerIn, Held
  <2>3. CASE worker'.id = worker.id /\ worker'.pc \notin {"idle", "selected"}
    BY <1>3, <2>1, <2>3 DEF Held
  <2> QED
    BY <1>10, <2>2, <2>3 DEF Claim, LookUpMetadata, Progress, Resolve, WriteLibrary,
       WorkerIn, TypeOK
<1>11. CASE Finish \/ Fail
  <2>1. /\ worker.pc \in {"stored", "working", "writing"} /\ k \in Ids
        /\ worker' = Resting
    BY <1>11 DEF Finish, Fail, FinalWrite, WorkerIn, WorkerRow
  <2>2. \A i \in Ids : Held(i) => i = k
    BY DEF Held
  <2>3. CASE faults' = faults + 1
    <3>1. Stranded' \subseteq Stranded \cup {k}
      BY <1>2, <2>2 DEF Stranded
    <3> QED BY <2>1, <2>3, <3>1
  <2>4. CASE /\ faults' = faults
             /\ \/ UpdateQueue(k, "done", worker.hash)
                \/ UpdateQueue(k, "failed", queue[k].hash)
    <3>1. PICK s \in {"done", "failed"} : \E h : UpdateQueue(k, s, h)
      BY <2>4
    <3>2. CASE Existing(k)
      <4>1. queue'[k].status = s
        BY <2>1, <3>1, <3>2 DEF UpdateQueue, Writable, Existing, InFlight, TypeOK, Row
      <4> QED BY <1>3, <2>2, <2>4, <4>1
    <3>3. CASE ~Existing(k)
      <4>1. queue' = queue
        BY <3>1, <3>3 DEF UpdateQueue, Writable, Existing
      <4> QED BY <1>3, <2>2, <2>4, <3>3, <4>1 DEF Existing
    <3> QED BY <3>2, <3>3
  <2> QED BY <1>11, <2>3, <2>4 DEF Finish, Fail, FinalWrite
<1>12. CASE Abandon
  BY <1>12 DEF Abandon
<1> QED
  BY <1>4, <1>5, <1>6, <1>7, <1>8, <1>9, <1>10, <1>11, <1>12 DEF Next, WorkerStep

\* While the process runs, at most one row per refused final write says
\* 'processing' with nobody at work on it; a restart brings the count to zero.
THEOREM ProcessingRowsAreHeld == Spec => []ProcessingIsHeld
<1>1. Init => ProcessingIsHeld
  BY DEF Init, ProcessingIsHeld
<1>2. IInv /\ ProcessingIsHeld /\ [Next]_vars => ProcessingIsHeld'
  <2> SUFFICES ASSUME IInv, ProcessingIsHeld, [Next]_vars, proc' = "up"
               PROVE  Cardinality(Stranded') <= faults'
    BY DEF ProcessingIsHeld
  <2>1. faults \in Nat /\ faults' \in Nat
    BY TypeStep, RequestQueueAssumption DEF IInv, TypeOK
  <2>2. IsFiniteSet(Stranded) /\ Cardinality(Stranded) \in Nat
    <3>1. IsFiniteSet(Ids) /\ Stranded \subseteq Ids
      BY FS_Interval, RequestQueueAssumption DEF Ids, Stranded
    <3> QED BY <3>1, FS_Subset, FS_CardinalityType
  <2>3. CASE proc = "up"
    <3>1. Cardinality(Stranded) <= faults
      BY <2>3 DEF ProcessingIsHeld
    <3>2. CASE Stranded' \subseteq Stranded /\ faults' = faults
      BY <2>1, <2>2, <3>1, <3>2, FS_Subset, FS_CardinalityType
    <3>3. CASE \E i \in Ids : Stranded' \subseteq Stranded \cup {i} /\ faults' = faults + 1
      <4>1. PICK i \in Ids : Stranded' \subseteq Stranded \cup {i} /\ faults' = faults + 1
        BY <3>3
      <4>2. /\ IsFiniteSet(Stranded \cup {i})
            /\ Cardinality(Stranded \cup {i}) \in {Cardinality(Stranded),
                                                   Cardinality(Stranded) + 1}
        BY <2>2, FS_AddElement
      <4>3. Cardinality(Stranded') <= Cardinality(Stranded \cup {i})
            /\ Cardinality(Stranded') \in Nat
        BY <4>1, <4>2, FS_Subset, FS_CardinalityType
      <4> QED BY <2>1, <2>2, <3>1, <4>1, <4>2, <4>3
    <3> QED BY <2>3, <3>2, <3>3, StrandedStep
  <2>4. CASE proc # "up"
    <3>1. Restart
      BY <2>4, OnlyRestartStarts DEF IInv
    <3>2. \A i \in Ids : queue'[i].status # "processing"
      BY <3>1, DeletedIsRow DEF Restart, IInv, TypeOK, Row
    <3>3. Stranded' = {}
      BY <3>2 DEF Stranded
    <3> QED BY <2>1, <3>3, FS_EmptySet
  <2> QED BY <2>3, <2>4
<1> QED BY <1>1, <1>2, Invariance, PTL DEF Spec
=============================================================================
