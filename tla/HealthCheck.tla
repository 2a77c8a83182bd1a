----------------------------- MODULE HealthCheck -----------------------------
(***************************************************************************)
(* The library health check (cmd/orchestrator/main.go,                     *)
(* taskLibraryHealthCheck): one indexer search for each library row, a few *)
(* dozen rows a run.  The row it looked at last is saved as a setting, so  *)
(* that the next run goes on from there.                                   *)
(*                                                                         *)
(* A run works on the list of rows it read when it began.  Meanwhile rows  *)
(* are removed and inserted, the worker and /play write them, the service  *)
(* may be stopped, and releases come and go.                               *)
(*                                                                         *)
(* Abstractions.  A row is its id and its status.  "alive" is the set of   *)
(* rows a release could be found for just now (resolvableSeeders >= 0).    *)
(* The item's pause and the wall-clock budget are the freedom to end a run *)
(* after any row.  What the copy does to the other columns of the row is   *)
(* the subject of module Library.                                          *)
(***************************************************************************)
EXTENDS Naturals, FiniteSets, FiniteSetsExt

CONSTANTS
    MaxId,    \* bound: ids handed out by AUTOINCREMENT
    PerRun    \* healthCheckMaxItems

VARIABLES
    status,   \* of each row; "none": there is no row of that id
    lastId,   \* the highest id that was ever handed out
    alive,    \* rows whose title the indexer has a release for
    cursor,   \* the setting health_check_cursor
    phase,    \* of the run: "rest", "next" (the loop's head), "search"
    left,     \* rows of the run's list it has yet to look at
    copies,   \* those of the list that were stale when it was read
    at,       \* the row the run looks at, or looked at last
    checked   \* how many it has looked at

vars == <<status, lastId, alive, cursor, phase, left, copies, at, checked>>

Ids == 1 .. MaxId

TypeOK ==
    /\ status \in [Ids -> {"none", "ready", "stale"}]
    /\ lastId \in 0 .. MaxId
    /\ alive \subseteq Ids
    /\ cursor \in 0 .. MaxId
    /\ phase \in {"rest", "next", "search"}
    /\ left \subseteq Ids
    /\ copies \subseteq Ids
    /\ at \in 0 .. MaxId
    /\ checked \in 0 .. PerRun

Rows == {i \in Ids : status[i] # "none"}

Init ==
    /\ status = [i \in Ids |-> "none"]
    /\ lastId = 0
    /\ alive = {}
    /\ cursor = 0
    /\ phase = "rest"
    /\ left = {}
    /\ copies = {}
    /\ at = 0
    /\ checked = 0

run == <<phase, left, copies, at, checked>>

-----------------------------------------------------------------------------
\* What happens to the rows meanwhile.

\* A row is inserted (worker, ingest, web source).
Insert ==
    /\ lastId < MaxId
    /\ lastId' = lastId + 1
    /\ status' = [status EXCEPT ![lastId + 1] = "ready"]
    /\ UNCHANGED <<alive, cursor, run>>

\* An existing row is written again, after a resolve: cacheResolved, the worker.
Rewrite(i) ==
    /\ i \in Rows
    /\ status' = [status EXCEPT ![i] = "ready"]
    /\ UNCHANGED <<lastId, alive, cursor, run>>

Remove(i) ==
    /\ i \in Rows
    /\ status' = [status EXCEPT ![i] = "none"]
    /\ UNCHANGED <<lastId, alive, cursor, run>>

\* Releases of a title appear in the indexers, or lose their last seeder.
ReleasesChange(i) ==
    /\ i \in Rows
    /\ alive' = IF i \in alive THEN alive \ {i} ELSE alive \cup {i}
    /\ UNCHANGED <<status, lastId, cursor, run>>

-----------------------------------------------------------------------------
\* The run.

\* (mutant: the search for the start of the list stops at the cursor itself)
FollowingItself(list, i) ==
    IF \E j \in list : j >= i THEN Min({j \in list : j >= i}) ELSE Min(list)

\* rotateAfter: by id, from the first one after the cursor, then from the lowest.
Following(list, i) ==
    IF \E j \in list : j > i THEN Min({j \in list : j > i}) ELSE Min(list)

\* Ping answered, the rows are listed, the cursor is read.
Begin ==
    /\ phase = "rest"
    /\ phase' = "next"
    /\ left' = Rows
    /\ copies' = {i \in Rows : status[i] = "stale"}
    /\ at' = cursor
    /\ checked' = 0
    /\ UNCHANGED <<status, lastId, alive, cursor>>

\* (mutant: the cap is noticed one row late)
CappedLate == checked > PerRun

\* The run has looked at as many rows as it may.
Capped == checked >= PerRun

\* The next row is searched for; its position is saved before the search.  A
\* setting that cannot be written is only logged.
Look(saved) ==
    /\ phase = "next"
    /\ left # {}
    /\ ~Capped
    /\ at' = Following(left, at)
    /\ left' = left \ {at'}
    /\ checked' = checked + 1
    /\ cursor' = IF saved THEN at' ELSE cursor
    /\ phase' = "search"
    /\ UNCHANGED <<status, lastId, alive, copies>>

Looked == phase' = "next" /\ UNCHANGED <<lastId, alive, cursor, left, copies, at, checked>>

\* An error of the indexer changes no row.
SearchFails ==
    /\ phase = "search"
    /\ Looked
    /\ UNCHANGED status

\* A release was found: the listed copy is written back, ready.  A row that was
\* removed since comes back under a new id (while the bound lets it).
Revive ==
    /\ phase = "search" /\ at \in alive
    /\ LET id == IF at \in Rows THEN at ELSE lastId + 1
       IN  IF id \in Ids
           THEN status' = [status EXCEPT ![id] = "ready"] /\ lastId' = Max({lastId, id})
           ELSE UNCHANGED <<status, lastId>>
    /\ phase' = "next"
    /\ UNCHANGED <<alive, cursor, left, copies, at, checked>>

\* Nothing was found: a row that was not stale when listed is marked.
Expire ==
    /\ phase = "search" /\ at \notin alive
    /\ status' = IF at \in Rows \ copies THEN [status EXCEPT ![at] = "stale"] ELSE status
    /\ Looked

\* The budget is spent, the cap is reached or the list is done.
End ==
    /\ phase = "next"
    /\ checked > 0 \/ left = {}
    /\ phase' = "rest"
    /\ left' = {} /\ copies' = {}
    /\ UNCHANGED <<status, lastId, alive, cursor, at, checked>>

\* The service is stopped in the middle of a run.
Cut ==
    /\ phase # "rest"
    /\ phase' = "rest"
    /\ left' = {} /\ copies' = {}
    /\ UNCHANGED <<status, lastId, alive, cursor, at, checked>>

Run == Begin \/ (\E saved \in BOOLEAN : Look(saved)) \/ SearchFails \/ Revive \/ Expire \/ End

Next ==
    \/ Insert
    \/ \E i \in Ids : Rewrite(i) \/ Remove(i) \/ ReleasesChange(i)
    \/ Run
    \/ Cut

Spec == Init /\ [][Next]_vars

\* The schedule comes round again and a search ends by its timeout.  Runs are cut
\* short and writes of the setting fail, but not every one of them for ever.
Fairness == WF_vars(Run) /\ SF_vars(Look(TRUE))

FairSpec == Spec /\ Fairness

-----------------------------------------------------------------------------

\* Every row is looked at again and again for as long as it is there, however
\* many rows there are, whichever searches fail, however often a run is cut short
\* (main.go:4020: "the same first rows were re-checked forever and everything
\* after them never was").
EveryRowIsLookedAt ==
    \A i \in Ids : []<>(i \notin Rows \/ (phase = "search" /\ at = i))
=============================================================================
