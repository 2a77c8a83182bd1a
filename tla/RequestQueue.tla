---------------------------- MODULE RequestQueue ----------------------------
(***************************************************************************)
(* The request queue of the orchestrator: the `queue` table and everybody  *)
(* who writes it.                                                          *)
(*                                                                         *)
(*   - POST /request, POST /request/season and the subscription task       *)
(*     insert rows.  They run in goroutines of their own (Clients), and    *)
(*     each SQL statement they issue is one step: the store has a single   *)
(*     connection, so a statement is atomic and a handler is not.          *)
(*   - cancel, delete and "clear finished" are one statement each.         *)
(*   - ONE worker goroutine selects, claims, resolves and finishes rows.   *)
(*     It works on a COPY of the row it selected and writes that copy      *)
(*     back, which is where most of the interesting interleavings live.    *)
(*   - the process may be stopped or die at any step; startup repairs the  *)
(*     table before anybody runs, the first time the table of an older     *)
(*     version, which had no unique index yet.                             *)
(*                                                                         *)
(* Abstractions.  A title stands for the provider-qualified identity       *)
(* (provider, id, media type, season, episode).  A magnet stands for a     *)
(* release, and is identified with the info hash it resolves to.  The      *)
(* columns that only feed the display (progress, stage, error, diagnosis,  *)
(* poster) are left out.  A season request and the subscription task treat *)
(* each episode alone and carry nothing from one to the next but counters, *)
(* so one operation here is one iteration of their loop.  A library gate   *)
(* that hides a row from a caller makes cancel/delete affect zero rows,    *)
(* which is a step that changes nothing.                                   *)
(***************************************************************************)
EXTENDS Naturals, FiniteSets

CONSTANTS
    Titles,      \* identities that can be requested
    Users,       \* requesters
    Admins,      \* the requesters who are admins
    Blind,       \* requesters who may not see the library ready items live in
    Magnets,     \* releases
    NoMagnet,    \* the empty magnet_override / info_hash
    Clients,     \* handler goroutines, and the subscription task's
    MaxRows,     \* bound: rows ever inserted
    MaxCrashes,  \* bound: times the process stops or dies
    MaxFaults    \* bound: final row writes the database refuses

ASSUME RequestQueueAssumption ==
    /\ Titles # {} /\ Users # {}
    /\ Admins \subseteq Users
    /\ Blind \subseteq Users
    /\ NoMagnet \notin Magnets
    /\ MaxRows \in Nat
    /\ MaxCrashes \in Nat
    /\ MaxFaults \in Nat

VARIABLES
    queue,    \* the rows, by id; ids are AUTOINCREMENT and never reused
    nextId,   \* the next id the table hands out
    ready,    \* titles with a 'ready' row in the library
    worker,   \* the worker goroutine and its copy of a row
    req,      \* the handlers, each with its request and what it has read
    proc,     \* the process: "up", "stopping" (context cancelled) or "down"
    crashes,  \* how often it stopped
    faults    \* how many final writes were refused

vars == <<queue, nextId, ready, worker, req, proc, crashes, faults>>

-----------------------------------------------------------------------------
(* The table *)

Ids == 1 .. MaxRows
InFlight == {"pending", "processing"}
Terminal == {"done", "failed", "cancelled"}
\* "none" is an id not handed out yet, "gone" a deleted row: a gone row keeps
\* the identity it was born with, so that properties can speak about it.
Status == InFlight \cup Terminal \cup {"none", "gone"}
Picks == Magnets \cup {NoMagnet}
Row == [title: Titles, user: Users, status: Status, magnet: Picks, hash: Picks]

\* idx_queue_active_identity, the partial unique index
SameIdentity(i, j) ==
    /\ queue[i].title = queue[j].title
    /\ queue[i].user = queue[j].user
Active(i) == queue[i].status \in InFlight
\* (mutant: the index covers the pending rows only)
ClashesPending(i) ==
    \E j \in Ids \ {i} : queue[j].status = "pending" /\ SameIdentity(i, j)
\* writing an in-flight status to row i would violate that index
Clashes(i) == \E j \in Ids \ {i} : Active(j) /\ SameIdentity(i, j)

\* A deleted row keeps nothing but the identity it had.
Deleted(row) == [row EXCEPT !.status = "gone", !.magnet = NoMagnet, !.hash = NoMagnet]

\* ActiveQueueItemByIdentity: the index leaves at most one candidate
ActiveRows(t, u) == {i \in Ids : Active(i) /\ queue[i].title = t /\ queue[i].user = u}

\* ClearTerminalQueueByIdentity: finished rows of a title, whoever asked for it
ClearedOf(t) ==
    [i \in Ids |-> IF queue[i].title = t /\ queue[i].status \in Terminal
                     THEN Deleted(queue[i]) ELSE queue[i]]

\* (mutant: an upsert, which brings a deleted row back)
WritableUpsert(i, s) ==
    /\ queue[i].status # "none"
    /\ s \in InFlight => ~Clashes(i)
\* UpdateQueue writes status and hash of row i and leaves the magnet alone.  No
\* row, no effect; an in-flight status that clashes is refused by the index.
Writable(i, s) ==
    /\ queue[i].status \notin {"none", "gone"}
    /\ s \in InFlight => ~Clashes(i)
UpdateQueue(i, s, h) ==
    queue' = IF Writable(i, s)
               THEN [queue EXCEPT ![i] = [@ EXCEPT !.status = s, !.hash = h]]
               ELSE queue

-----------------------------------------------------------------------------
(* Handlers and the worker, at rest *)

NoId == 0
Idle == [pc |-> "idle", op |-> "none", title |-> CHOOSE t \in Titles : TRUE,
         user |-> CHOOSE u \in Users : TRUE, magnet |-> NoMagnet, id |-> NoId]
Resting == [pc |-> "idle", id |-> NoId, magnet |-> NoMagnet, hash |-> NoMagnet]

ReqPCs == {"idle", "library", "clearReady", "active", "requeue", "clear", "insert",
           "incumbent", "items", "inflight", "answered"}
WorkerPCs == {"idle", "selected", "claimed", "working", "writing", "stored"}

TypeOK ==
    /\ queue \in [Ids -> Row]
    /\ nextId \in 1 .. MaxRows + 1
    /\ ready \in [Titles -> BOOLEAN]
    /\ worker \in [pc: WorkerPCs, id: Ids \cup {NoId}, magnet: Picks, hash: Picks]
    /\ req \in [Clients -> [pc: ReqPCs, op: {"none", "request", "season", "subscription"},
                            title: Titles, user: Users, magnet: Picks,
                            id: Ids \cup {NoId}]]
    /\ proc \in {"up", "stopping", "down"}
    /\ crashes \in 0 .. MaxCrashes
    /\ faults \in 0 .. MaxFaults

Unused == [title |-> Idle.title, user |-> Idle.user, status |-> "none",
           magnet |-> NoMagnet, hash |-> NoMagnet]
OldRow == {row \in Row : row.status \in InFlight \cup Terminal}

\* The database as the process finds it at its first start: new, or that of an
\* older version, in which a requester's title may be in flight many times.
Init ==
    /\ nextId \in 1 .. MaxRows + 1
    /\ \E old \in [1 .. nextId - 1 -> OldRow] :
         queue = [i \in Ids |-> IF i < nextId THEN old[i] ELSE Unused]
    /\ ready \in [Titles -> BOOLEAN]
    /\ worker = Resting
    /\ req = [c \in Clients |-> Idle]
    /\ proc = "down"
    /\ crashes = 0
    /\ faults = 0

-----------------------------------------------------------------------------
(* POST /request *)

Serving == proc # "down"

Start(c, op, pc, t, u, m) ==
    /\ Serving
    /\ req[c].pc = "idle"
    /\ req' = [req EXCEPT ![c] = [pc |-> pc, op |-> op, title |-> t, user |-> u,
                                  magnet |-> m, id |-> NoId]]
    /\ UNCHANGED <<queue, nextId, ready, worker, proc, crashes, faults>>

RequestStart(c) ==
    \E t \in Titles, u \in Users, m \in Picks : Start(c, "request", "library", t, u, m)

\* A handler moves to pc, remembering row id i, and writes nothing.
Goto(c, pc, i) ==
    /\ req' = [req EXCEPT ![c] = [@ EXCEPT !.pc = pc, !.id = i]]
    /\ UNCHANGED <<nextId, ready, worker, proc, crashes, faults>>

\* It responds with row id i, or (an error, or nothing to name) without one; the
\* response that names a row is a step of its own, so that it can be looked at.
Answer(c, i) ==
    /\ req' = [req EXCEPT ![c] = IF i = NoId THEN Idle
                                 ELSE [@ EXCEPT !.pc = "answered", !.op = "none",
                                                !.magnet = NoMagnet, !.id = i]]
    /\ UNCHANGED <<nextId, ready, worker, proc, crashes, faults>>

\* GetByIdentity, with a row the caller cannot see treated as absent.
RequestLibrary(c) ==
    /\ req[c].pc = "library"
    /\ LET have == ready[req[c].title] /\ req[c].user \notin Blind
       IN  Goto(c, IF have /\ req[c].magnet = NoMagnet THEN "clearReady" ELSE "active", NoId)
    /\ UNCHANGED queue

RequestClearReady(c) ==
    /\ req[c].pc = "clearReady"
    /\ queue' = ClearedOf(req[c].title)
    /\ Answer(c, NoId)

\* ActiveQueueItem: hand the incumbent back, or re-point it at another release.
RequestActive(c) ==
    /\ req[c].pc = "active"
    /\ LET mine == ActiveRows(req[c].title, req[c].user)
       IN  \/ /\ mine = {}
              /\ Goto(c, "clear", NoId)
           \/ \E i \in mine :
                LET repick == req[c].magnet # NoMagnet /\ req[c].magnet # queue[i].magnet
                IN  IF repick THEN Goto(c, "requeue", i) ELSE Answer(c, i)
    /\ UNCHANGED queue

\* RequeueWithMagnet: by id alone, whatever has become of the row since.
RequestRequeue(c) ==
    /\ req[c].pc = "requeue"
    /\ LET i == req[c].id
       IN  \/ /\ queue[i].status \in {"none", "gone"}
              /\ Answer(c, i)
              /\ UNCHANGED queue
           \/ /\ Writable(i, "pending")
              /\ queue' = [queue EXCEPT ![i] = [@ EXCEPT !.status = "pending",
                                                         !.magnet = req[c].magnet]]
              /\ Answer(c, i)
           \/ /\ queue[i].status \notin {"none", "gone"}
              /\ Clashes(i)
              /\ Answer(c, NoId)
              /\ UNCHANGED queue

RequestClear(c) ==
    /\ req[c].pc = "clear"
    /\ queue' = ClearedOf(req[c].title)
    /\ Goto(c, "insert", NoId)

-----------------------------------------------------------------------------
(* Enqueue: INSERT .. ON CONFLICT DO NOTHING, then read the incumbent *)

Insert(c) ==
    /\ req[c].pc = "insert"
    /\ ActiveRows(req[c].title, req[c].user) = {}
    /\ nextId \in Ids
    /\ queue' = [queue EXCEPT ![nextId] =
                   [title |-> req[c].title, user |-> req[c].user, status |-> "pending",
                    magnet |-> req[c].magnet, hash |-> NoMagnet]]
    /\ nextId' = nextId + 1
    /\ req' = [req EXCEPT ![c] = [@ EXCEPT !.pc = "answered", !.op = "none",
                                         !.magnet = NoMagnet, !.id = nextId]]
    /\ UNCHANGED <<ready, worker, proc, crashes, faults>>

\* The database refuses the INSERT; the only way on once MaxRows are used up.
InsertFails(c) ==
    /\ req[c].pc = "insert"
    /\ ActiveRows(req[c].title, req[c].user) = {}
    /\ Answer(c, NoId)
    /\ UNCHANGED queue

InsertConflicts(c) ==
    /\ req[c].pc = "insert"
    /\ ActiveRows(req[c].title, req[c].user) # {}
    /\ Goto(c, "incumbent", NoId)
    /\ UNCHANGED queue

\* (mutant: the connection's last insert id is trusted after a conflict)
LastInsertId(c) ==
    /\ req[c].pc = "incumbent"
    /\ Answer(c, nextId - 1)
    /\ UNCHANGED queue

ReadIncumbent(c) ==
    /\ req[c].pc = "incumbent"
    /\ LET mine == ActiveRows(req[c].title, req[c].user)
       IN  \/ mine = {} /\ Answer(c, NoId)
           \/ \E i \in mine : Answer(c, i)
    /\ UNCHANGED queue

\* The response goes out; the goroutine is free for another request.
Respond(c) ==
    /\ req[c].pc = "answered"
    /\ req' = [req EXCEPT ![c] = Idle]
    /\ UNCHANGED <<queue, nextId, ready, worker, proc, crashes, faults>>

-----------------------------------------------------------------------------
(* POST /request/season and the subscription task: EpisodeActive is two    *)
(* statements, the library first and the queue (any requester's) second.   *)

EpisodeStart(c) ==
    \E op \in {"season", "subscription"}, t \in Titles, u \in Users :
        Start(c, op, "items", t, u, NoMagnet)

EpisodeReady(c) ==
    /\ req[c].pc = "items"
    /\ IF ready[req[c].title] THEN Answer(c, NoId) ELSE Goto(c, "inflight", NoId)
    /\ UNCHANGED queue

\* Only the season handler clears finished rows before it inserts.
EpisodeInFlight(c) ==
    /\ req[c].pc = "inflight"
    /\ LET taken == \E i \in Ids : Active(i) /\ queue[i].title = req[c].title
       IN  IF taken THEN Answer(c, NoId)
           ELSE Goto(c, IF req[c].op = "season" THEN "clear" ELSE "insert", NoId)
    /\ UNCHANGED queue

-----------------------------------------------------------------------------
(* Cancel, delete, clear finished: one statement each *)

May(u, i) == u \in Admins \/ queue[i].user = u

Cancel(u, i) ==
    /\ Serving
    /\ queue[i].status = "pending" /\ May(u, i)
    /\ queue' = [queue EXCEPT ![i].status = "cancelled"]
    /\ UNCHANGED <<nextId, ready, worker, req, proc, crashes, faults>>

\* An admin deletes any row, in flight or not; a user only finished ones.
Delete(u, i) ==
    /\ Serving
    /\ \/ u \in Admins /\ queue[i].status \notin {"none", "gone"}
       \/ queue[i].user = u /\ queue[i].status \in Terminal
    /\ queue' = [queue EXCEPT ![i] = Deleted(@)]
    /\ UNCHANGED <<nextId, ready, worker, req, proc, crashes, faults>>

DeleteFinished(u) ==
    /\ Serving
    /\ queue' = [i \in Ids |-> IF queue[i].status \in Terminal /\ May(u, i)
                                 THEN Deleted(queue[i]) ELSE queue[i]]
    /\ UNCHANGED <<nextId, ready, worker, req, proc, crashes, faults>>

-----------------------------------------------------------------------------
(* The worker *)

WorkerIn(pc) == Serving /\ worker.pc = pc

\* (mutant: the newest pending row first, as the queue page lists them)
NextNewest ==
    /\ proc = "up"
    /\ worker.pc = "idle"
    /\ \E i \in Ids :
         /\ queue[i].status = "pending"
         /\ \A j \in Ids : queue[j].status = "pending" => i >= j
         /\ worker' = [pc |-> "selected", id |-> i, magnet |-> queue[i].magnet,
                       hash |-> NoMagnet]
    /\ UNCHANGED <<queue, nextId, ready, req, proc, crashes, faults>>

\* NextPending, first statement: the oldest pending row is read into a copy.
\* created_at never runs backwards along the ids, and SQLite breaks a tie of
\* the same second in id order.
NextPending ==
    /\ proc = "up"
    /\ worker.pc = "idle"
    /\ \E i \in Ids :
         /\ queue[i].status = "pending"
         /\ \A j \in Ids : queue[j].status = "pending" => i <= j
         /\ worker' = [pc |-> "selected", id |-> i, magnet |-> queue[i].magnet,
                       hash |-> NoMagnet]
    /\ UNCHANGED <<queue, nextId, ready, req, proc, crashes, faults>>

\* NextPending, second statement: the claim, by id alone.  A deleted row is
\* zero rows updated and no error; a row the index refuses is an error and the
\* worker gives up until the next tick.
Claim ==
    /\ WorkerIn("selected")
    /\ UpdateQueue(worker.id, "processing", queue[worker.id].hash)
    /\ worker' = IF queue[worker.id].status # "gone" /\ Clashes(worker.id)
                   THEN Resting ELSE [worker EXCEPT !.pc = "claimed"]
    /\ UNCHANGED <<nextId, ready, req, proc, crashes, faults>>

\* w.progress: the copy, with its status 'processing', goes back to the row.
\* A refused write is logged and ignored.
SaveProgress ==
    /\ UpdateQueue(worker.id, "processing", queue[worker.id].hash)
    /\ UNCHANGED <<nextId, ready, req, proc, crashes, faults>>

LookUpMetadata ==
    /\ WorkerIn("claimed")
    /\ worker' = [worker EXCEPT !.pc = "working"]
    /\ SaveProgress

\* searching, ranking, adding, verifying: each stage saves its progress
Progress ==
    /\ WorkerIn("working")
    /\ SaveProgress
    /\ UNCHANGED worker

\* resolvePlayable found a release: the one the COPY forces, or any.
Resolve ==
    /\ WorkerIn("working")
    /\ \E h \in Magnets :
         /\ worker.magnet # NoMagnet => h = worker.magnet
         /\ worker' = [worker EXCEPT !.pc = "writing", !.hash = h]
    /\ SaveProgress

\* The .strm and the library row are written.
WriteLibrary ==
    /\ WorkerIn("writing")
    /\ ready' = [ready EXCEPT ![queue[worker.id].title] = TRUE]
    /\ worker' = [worker EXCEPT !.pc = "stored"]
    /\ UNCHANGED <<queue, nextId, req, proc, crashes, faults>>

\* The last UpdateQueue of a job.  If the database refuses it the error is
\* logged, the worker moves on, and the row keeps the status it had.
FinalWrite(s, h) ==
    /\ worker' = Resting
    /\ \/ UpdateQueue(worker.id, s, h) /\ UNCHANGED faults
       \/ faults < MaxFaults /\ faults' = faults + 1 /\ UNCHANGED queue
    /\ UNCHANGED <<nextId, ready, req, proc, crashes>>

Finish ==
    /\ WorkerIn("stored")
    /\ FinalWrite("done", worker.hash)

\* No release, no library, a failed .strm or a failed library row.
Fail ==
    /\ WorkerIn("working") \/ WorkerIn("writing")
    /\ FinalWrite("failed", queue[worker.id].hash)

\* resolvePlayable returned the context's error: the row is left as it is.
Abandon ==
    /\ proc = "stopping"
    /\ worker.pc \in {"claimed", "working"}
    /\ worker' = Resting
    /\ UNCHANGED <<queue, nextId, ready, req, proc, crashes, faults>>

-----------------------------------------------------------------------------
(* The process, and the library around it *)

\* SIGTERM or a self-restart: the root context is cancelled.
Stop ==
    /\ proc = "up"
    /\ crashes < MaxCrashes
    /\ proc' = "stopping"
    /\ crashes' = crashes + 1
    /\ UNCHANGED <<queue, nextId, ready, worker, req, faults>>

\* The process ends: after a stop (nothing waits for the worker), or by dying.
Exit ==
    /\ Serving
    /\ \/ proc = "stopping" /\ UNCHANGED crashes
       \/ proc = "up" /\ crashes < MaxCrashes /\ crashes' = crashes + 1
    /\ proc' = "down"
    /\ worker' = Resting
    /\ req' = [c \in Clients |-> Idle]
    /\ UNCHANGED <<queue, nextId, ready, faults>>

\* store.New runs migrate: of what is in flight for one requester and title the
\* oldest row stays, of what is finished the newest of its status ..
Duplicate(i) == Active(i) /\ \E j \in Ids : j < i /\ Active(j) /\ SameIdentity(i, j)
Superseded(i) ==
    /\ queue[i].status \in Terminal
    /\ \E j \in Ids : i < j /\ queue[j].status = queue[i].status /\ SameIdentity(i, j)

\* (mutant: interrupted rows are not reset)
RestartAsIs ==
    /\ proc = "down"
    /\ proc' = "up"
    /\ queue' = [i \in Ids |-> IF Duplicate(i) \/ Superseded(i)
                                 THEN Deleted(queue[i]) ELSE queue[i]]
    /\ UNCHANGED <<nextId, ready, worker, req, crashes, faults>>

\* (mutant: the rows in flight are collapsed onto the newest, like finished ones)
RestartOnNewest ==
    /\ proc = "down"
    /\ proc' = "up"
    /\ queue' = [i \in Ids |->
                   IF \/ Superseded(i)
                      \/ Active(i) /\ \E j \in Ids : i < j /\ Active(j) /\ SameIdentity(i, j)
                   THEN Deleted(queue[i])
                   ELSE IF queue[i].status = "processing"
                     THEN [queue[i] EXCEPT !.status = "pending"] ELSE queue[i]]
    /\ UNCHANGED <<nextId, ready, worker, req, crashes, faults>>

\* .. and what was interrupted is pending again.
Restart ==
    /\ proc = "down"
    /\ proc' = "up"
    /\ queue' = [i \in Ids |->
                   IF Duplicate(i) \/ Superseded(i) THEN Deleted(queue[i])
                   ELSE IF queue[i].status = "processing"
                     THEN [queue[i] EXCEPT !.status = "pending"] ELSE queue[i]]
    /\ UNCHANGED <<nextId, ready, worker, req, crashes, faults>>

\* Removal, expiry and revival of library rows belong to module Library; here
\* they are anybody's change of what is ready.
LibraryChanges(t) ==
    /\ Serving
    /\ ready' = [ready EXCEPT ![t] = ~@]
    /\ UNCHANGED <<queue, nextId, worker, req, proc, crashes, faults>>

-----------------------------------------------------------------------------

Request(c) ==
    \/ RequestStart(c) \/ RequestLibrary(c) \/ RequestClearReady(c) \/ RequestActive(c)
    \/ RequestRequeue(c) \/ RequestClear(c) \/ Insert(c) \/ InsertFails(c)
    \/ InsertConflicts(c) \/ ReadIncumbent(c) \/ Respond(c)
    \/ EpisodeStart(c) \/ EpisodeReady(c) \/ EpisodeInFlight(c)

WorkerStep ==
    \/ NextPending \/ Claim \/ LookUpMetadata \/ Progress \/ Resolve
    \/ WriteLibrary \/ Finish \/ Fail \/ Abandon

Manage ==
    \/ \E u \in Users, i \in Ids : Cancel(u, i) \/ Delete(u, i)
    \/ \E u \in Users : DeleteFinished(u)
    \/ \E t \in Titles : LibraryChanges(t)

Process == Stop \/ Exit \/ Restart

Next == (\E c \in Clients : Request(c)) \/ WorkerStep \/ Manage \/ Process

Spec == Init /\ [][Next]_vars

\* The worker's loop runs as long as the process does and every step of a job
\* is bounded by a timeout of its own; a handler runs to its response; a
\* process told to stop exits after its grace period, and the service manager
\* starts one that is down.  Nobody is obliged to ask for anything.
Fairness ==
    /\ WF_vars(NextPending) /\ WF_vars(Claim) /\ WF_vars(LookUpMetadata)
    /\ WF_vars(Resolve \/ Fail) /\ WF_vars(WriteLibrary \/ Fail) /\ WF_vars(Finish)
    /\ WF_vars(Exit /\ proc = "stopping") /\ WF_vars(Restart)

FairSpec == Spec /\ Fairness

-----------------------------------------------------------------------------
(* What the queue promises *)

\* One request in flight per identity and requester (store.go, the index
\* idx_queue_active_identity), from the first start on, which may find a table
\* without that index: whatever handlers, worker, re-picks and restarts do to
\* each other, no title is resolved twice side by side.
UniqueActive ==
    Serving => \A i, j \in Ids : Active(i) /\ Active(j) /\ SameIdentity(i, j) => i = j

\* The rows shown as being worked on that nobody is working on.
Held(i) == worker.id = i /\ worker.pc \notin {"idle", "selected"}
Stranded == {i \in Ids : queue[i].status = "processing" /\ ~Held(i)}

\* While the process runs, a row says 'processing' only because the worker has
\* it in hand; the one exception is a final write the database refused, and
\* each refusal strands at most one row ("Without this the row stays
\* 'processing' forever and the UI spins", main.go processNext).
ProcessingIsHeld == proc = "up" => Cardinality(Stranded) <= faults

\* The id a request is answered with is a row of that requester for that
\* title, even when the INSERT did nothing and the incumbent was read after
\* somebody else finished, deleted or re-requested it (store.go Enqueue).
AnswerIsMine ==
    \A c \in Clients : req[c].pc = "answered" /\ req[c].id # NoId =>
        LET i == req[c].id
        IN  /\ queue[i].status # "none"
            /\ queue[i].title = req[c].title
            /\ queue[i].user = req[c].user

\* A settled row (done, failed or cancelled) is re-opened only as 'pending', by a
\* re-pick; and a deleted row stays deleted whatever is still written to its id.
\* The one row that may be worked on although it was cancelled is the one the
\* worker had selected before the cancel: NextPending claims it by id alone
\* (store.go:1725), and what the worker then writes goes over the cancel.  So a
\* finished row never comes back to work through the worker's stale copy, and a
\* cancelled one the worker has not got in hand never does either.
Overtaken(i) == queue[i].status = "cancelled" /\ worker.id = i
SettledRows ==
    [][\A i \in Ids :
         /\ queue[i].status \in Terminal =>
                queue'[i].status \in {queue[i].status, "pending", "gone"} \/ Overtaken(i)
         /\ queue[i].status = "gone" => queue'[i] = queue[i]]_vars

\* No request in flight is lost: a row goes while it is in flight by an admin's
\* delete, or at a start (store.go:802) that leaves an OLDER row of the same
\* requester and title in flight, and then that one waits in its place.  Neither
\* the clearing of finished rows nor a crash removes one.
StandsFor(j, i) ==
    j < i /\ Active(j) /\ SameIdentity(i, j) /\ queue'[j] = [queue[j] EXCEPT !.status = "pending"]
InFlightIsKept ==
    [][\A i \in Ids : Active(i) /\ queue'[i].status = "gone" =>
         \/ \E u \in Admins : Delete(u, i)
         \/ Restart /\ \E j \in Ids : StandsFor(j, i)]_vars

\* Every request that waits is settled in the end, behind the others, across
\* re-picks, lost cancels and restarts, as long as the database takes the final
\* writes.  Only one thing can keep it waiting: the worker takes the oldest
\* request first, and a re-pick leaves a row its place, so that re-picks of OLDER
\* requests that never end hold up the younger ones.
Repicked(j) ==
    \E c \in Clients : req[c].id = j /\ RequestRequeue(c) /\ queue'[j].status = "pending"
RequestsSettle ==
    \A i \in Ids : []<>~Active(i) \/ \E j \in 1 .. i - 1 : []<><<Repicked(j)>>_vars

-----------------------------------------------------------------------------
(* What its comments say of it, and the code does not do *)

\* store.go:1708 and main.go:1107: a re-pick re-resolves the row the user is
\* already watching.  So a row that is done holds the release picked for it.
RepickIsHonoured ==
    \A i \in Ids : queue[i].status = "done" /\ queue[i].magnet # NoMagnet =>
        queue[i].hash = queue[i].magnet
=============================================================================
