------------------------ MODULE TorrentCache_proofs ------------------------
(***************************************************************************)
(* Proofs about who drops what.  Two facts for any number of titles,       *)
(* torrents, workers, viewers, removals and webhook calls:                 *)
(*   TriesAreDropped    no way out of a resolve or a job forgets to ask    *)
(*                      for the drop of a torrent that was only tried;     *)
(*   HookSparesViewers  the webhook never drops under somebody who has     *)
(*                      watched a ready title since before the call.       *)
(* TypeInv ties a release to the stages that have one.  HookInv says what  *)
(* each answer has excluded: after the sessions nobody watches the title   *)
(* that stopped, after the count nobody watches any.                       *)
(***************************************************************************)
EXTENDS TorrentCache, TLAPS

Removing == [at: {"off", "delete", "count", "drop"}, copy: [Titles -> Torrent],
             done: SUBSET Hashes, hash: Torrent]
WithHash == {"load", "reload", "verify", "found", "superseded", "upsert", "stored", "streaming"}
Trying == {"verify", "found", "superseded", "upsert", "stored"}

HasHash == \A p \in Procs : proc[p].at \in WithHash => proc[p].hash \in Hashes

TypeInv == TypeOK /\ HasHash

HookInv ==
    \A k \in Hooks :
        /\ hook[k].at \in {"sessions", "count"} => spared[k] \subseteq Watching(k)
        /\ hook[k].at = "count" =>
               \A v \in spared[k] : proc[v].title # hook[k].title
        /\ hook[k].at = "drop" => spared[k] = {}

IInv == TypeInv /\ TriesAreDropped /\ HookInv

-----------------------------------------------------------------------------
(* The state before anybody starts *)

LEMMA ConstantsAreTyped ==
    /\ AnyTitle \in Titles
    /\ NoRow \in Rows
    /\ \A h \in Hashes : Row(h) \in Rows
    /\ \A row \in Rows : row # NoRow => row.hash \in Hashes
    /\ \A row \in Rows : row.hash \in Torrent
<1>1. AnyTitle \in Titles
  BY TorrentCacheAssumption DEF AnyTitle
<1>2. QED
  BY <1>1, TorrentCacheAssumption DEF NoRow, Rows, Row, Torrent

LEMMA OffIsTyped ==
    /\ Off \in Process /\ Off.at = "off"
    /\ \A t \in Titles : /\ [Off EXCEPT !.at = "search", !.title = t] \in Process
                         /\ [Off EXCEPT !.at = "search", !.title = t].at = "search"
BY ConstantsAreTyped DEF Off, Process, Torrent

LEMMA InitInv == Init => IInv
<1> SUFFICES ASSUME Init PROVE IInv
  OBVIOUS
<1>1. TypeOK
  <2>1. NotRemoving \in [at: {"off", "delete", "count", "drop"},
                         copy: [Titles -> Torrent], done: SUBSET Hashes, hash: Torrent]
    BY DEF NotRemoving, Torrent
  <2>2. NoCall \in [at: {"off", "sessions", "count", "drop"}, title: Titles, hash: Torrent]
    BY ConstantsAreTyped DEF NoCall, Torrent
  <2>3. Sleeping \in [at: {"off", "list", "drop"}, list: SUBSET Hashes, hash: Torrent]
    BY DEF Sleeping, Torrent
  <2>4. proc \in [Procs -> Process]
    BY OffIsTyped DEF Init
  <2>5. crashes \in 0 .. MaxCrashes
    BY TorrentCacheAssumption DEF Init
  <2>6. /\ loaded \subseteq Hashes /\ trial \subseteq Hashes
        /\ item \in [Titles -> Rows]
        /\ spared \in [Hooks -> SUBSET Viewers]
    BY DEF Init
  <2>7. QED
    BY <2>1, <2>2, <2>3, <2>4, <2>5, <2>6 DEF Init, TypeOK
<1>2. HasHash /\ TriesAreDropped
  BY DEF Init, HasHash, TriesAreDropped, WithHash, Off
<1>3. HookInv
  BY DEF Init, HookInv, NoCall
<1>4. QED
  BY <1>1, <1>2, <1>3 DEF IInv, TypeInv

\* Every step but a crash extends the history the same way.
LEMMA WitnessTyped == TypeOK /\ Witness => spared' \in [Hooks -> SUBSET Viewers]
BY DEF TypeOK, Witness, Watching

-----------------------------------------------------------------------------
(* Types *)

\* A step of the worker or a viewer, as the other parts see it.
LEMMA ProcTypes ==
  ASSUME TypeInv, NEW p \in Procs, ByProc, proc' \in [Procs -> Process],
         \A q \in Procs \ {p} : proc'[q] = proc[q],
         proc'[p].at \in WithHash => proc'[p].hash \in Hashes,
         item' \in [Titles -> Rows], loaded' \subseteq Hashes, trial' \subseteq Hashes
  PROVE  TypeInv'
<1>1. TypeOK'
  BY WitnessTyped DEF TypeInv, TypeOK, ByProc
<1>2. HasHash'
  BY DEF TypeInv, HasHash
<1>3. QED
  BY <1>1, <1>2 DEF TypeInv

LEMMA WorkTypes == ASSUME TypeInv, NEW p \in Procs,
        Resolve(p) \/ Work(p) \/ View(p) PROVE TypeInv'
<1> USE DEF Goto, End, cache
<1>t. /\ proc \in [Procs -> Process] /\ proc[p] \in Process
      /\ item \in [Titles -> Rows]
      /\ loaded \subseteq Hashes /\ trial \subseteq Hashes
      /\ proc[p].at \in WithHash => proc[p].hash \in Hashes
  BY DEF TypeInv, TypeOK, HasHash
<1>o. Off \in Process /\ Off.at \notin WithHash
  BY OffIsTyped DEF WithHash
<1>r. \A h \in Hashes : Row(h) \in Rows
  BY ConstantsAreTyped
<1> USE <1>t DEF cache
<1>1. ASSUME AddCandidate(p) PROVE TypeInv'
  <2>1. PICK h \in Hashes :
          /\ proc' = [proc EXCEPT ![p] = [@ EXCEPT !.at = "verify", !.hash = h]]
          /\ loaded' = loaded \cup {h}
          /\ trial' = IF h \in loaded THEN trial ELSE trial \cup {h}
          /\ item' = item /\ ByProc
    BY <1>1 DEF AddCandidate
  <2>2. proc' \in [Procs -> Process]
    BY <2>1 DEF Process, Torrent
  <2>3. QED
    BY <2>1, <2>2, ProcTypes DEF Process
<1>1a. ASSUME AddFails(p) PROVE TypeInv'
  BY <1>1a, <1>o, ProcTypes DEF AddFails
<1>2. ASSUME RejectCandidate(p) PROVE TypeInv'
  BY <1>2, ProcTypes DEF RejectCandidate, Drop, Process, WithHash, Torrent
<1>3. ASSUME NothingFound(p) PROVE TypeInv'
  BY <1>3, <1>o, ProcTypes DEF NothingFound
<1>4. ASSUME Job(p) PROVE TypeInv'
  <2>1. PICK t \in Titles : proc' = [proc EXCEPT ![p] = [Off EXCEPT !.at = "search", !.title = t]]
    BY <1>4 DEF Job
  <2>2. /\ [Off EXCEPT !.at = "search", !.title = t] \in Process
        /\ [Off EXCEPT !.at = "search", !.title = t].at = "search"
    BY OffIsTyped DEF Torrent
  <2>3. QED
    BY <1>4, <2>1, <2>2, ProcTypes DEF Job, WithHash
<1>5. ASSUME Found(p) PROVE TypeInv'
  BY <1>5, ProcTypes DEF Found, Process, WithHash, Torrent
<1>6. ASSUME WriteFails(p) PROVE TypeInv'
  BY <1>6, <1>o, ProcTypes DEF WriteFails, Drop
<1>7. ASSUME LookUpExisting(p) PROVE TypeInv'
  <2>1. /\ proc[p].at = "found" /\ UNCHANGED <<cache, item>> /\ ByProc
        /\ \/ proc' = [proc EXCEPT ![p] = [@ EXCEPT !.at = "superseded",
                                                    !.old = item[proc[p].title].hash]]
           \/ proc' = [proc EXCEPT ![p] = [@ EXCEPT !.at = "upsert"]]
    BY <1>7 DEF LookUpExisting
  <2>2. item[proc[p].title].hash \in Torrent
    BY ConstantsAreTyped DEF Process
  <2>3. CASE proc' = [proc EXCEPT ![p] = [@ EXCEPT !.at = "superseded",
                                                   !.old = item[proc[p].title].hash]]
    BY <2>1, <2>2, <2>3, ProcTypes DEF Process, WithHash
  <2>4. CASE proc' = [proc EXCEPT ![p] = [@ EXCEPT !.at = "upsert"]]
    BY <2>1, <2>4, ProcTypes DEF Process, WithHash
  <2>5. QED
    BY <2>1, <2>3, <2>4
<1>8. ASSUME DropSuperseded(p) PROVE TypeInv'
  BY <1>8, ProcTypes DEF DropSuperseded, Drop, Process, WithHash, Torrent
<1>9. ASSUME Upsert(p) PROVE TypeInv'
  BY <1>9, <1>r, ProcTypes DEF Upsert, Process, WithHash, Torrent
<1>10. ASSUME DropAfterValidate(p) PROVE TypeInv'
  BY <1>10, <1>o, ProcTypes DEF DropAfterValidate, Drop
<1>11. ASSUME Request(p) PROVE TypeInv'
  <2>1. PICK t \in Titles : proc' = [proc EXCEPT ![p] =
            IF item[t] = NoRow THEN [Off EXCEPT !.at = "search", !.title = t]
            ELSE [at |-> "load", title |-> t, hash |-> item[t].hash, old |-> item[t].hash]]
    BY <1>11 DEF Request
  <2>2. /\ [Off EXCEPT !.at = "search", !.title = t] \in Process
        /\ [Off EXCEPT !.at = "search", !.title = t].at = "search"
    BY OffIsTyped
  <2>3. CASE item[t] = NoRow
    BY <1>11, <2>1, <2>2, <2>3, ProcTypes DEF Request, WithHash
  <2>4. CASE item[t] # NoRow
    <3>1. item[t].hash \in Hashes
      BY <2>4, ConstantsAreTyped
    <3>2. proc' = [proc EXCEPT ![p] = [at |-> "load", title |-> t, hash |-> item[t].hash,
                                       old |-> item[t].hash]]
      BY <2>1, <2>4
    <3>3. QED
      BY <1>11, <3>1, <3>2, ProcTypes DEF Request, Process, Torrent
  <2>5. QED
    BY <2>3, <2>4
<1>12. ASSUME TryCached(p) PROVE TypeInv'
  <2>1. /\ loaded' \subseteq Hashes /\ trial' \subseteq Hashes /\ ByProc
        /\ proc[p].hash \in Hashes
    BY <1>12 DEF TryCached, Play, WithHash
  <2>2. CASE /\ proc' = [proc EXCEPT ![p] = [@ EXCEPT !.at = "streaming"]]
             /\ \/ item' = item
                \/ \E status \in {"ready", "stale"} : item' =
                     [item EXCEPT ![proc[p].title] = [hash |-> proc[p].hash, status |-> status]]
    <3>1. item' \in [Titles -> Rows]
      BY <2>1, <2>2 DEF Rows
    <3>2. QED
      BY <2>1, <2>2, <3>1, ProcTypes DEF Process
  <2>3. CASE /\ proc' = [proc EXCEPT ![p] = [@ EXCEPT !.hash = NoHash,
                            !.at = IF proc[p].at = "load" THEN "retry" ELSE "search"]]
             /\ item' = item
    <3>1. \E a \in {"retry", "search"} :
             proc' = [proc EXCEPT ![p] = [@ EXCEPT !.hash = NoHash, !.at = a]]
      BY <2>3
    <3>2. PICK a \in {"retry", "search"} :
             proc' = [proc EXCEPT ![p] = [proc[p] EXCEPT !.hash = NoHash, !.at = a]]
      BY <3>1
    <3>3. [proc[p] EXCEPT !.hash = NoHash, !.at = a] \in Process
      BY DEF TypeInv, TypeOK, Process, Torrent
    <3>4. proc' \in [Procs -> Process] /\ proc'[p].at \notin WithHash
      BY <3>2, <3>3 DEF TypeInv, TypeOK, WithHash, Process
    <3>5. \A q \in Procs \ {p} : proc'[q] = proc[q]
      BY <3>2 DEF TypeInv, TypeOK
    <3>6. item' \in [Titles -> Rows]
      BY <2>3
    <3>7. QED
      BY <2>1, <3>4, <3>5, <3>6, ProcTypes
  <2>4. QED
    BY <1>12, <2>2, <2>3 DEF TryCached
<1>12a. ASSUME Recheck(p) PROVE TypeInv'
  <2>1. /\ UNCHANGED <<cache, item>> /\ ByProc
        /\ \/ /\ item[proc[p].title].hash # NoHash
              /\ proc' = [proc EXCEPT ![p] = [@ EXCEPT !.at = "reload",
                                                       !.hash = item[proc[p].title].hash]]
           \/ proc' = [proc EXCEPT ![p] = [@ EXCEPT !.at = "search"]]
    BY <1>12a DEF Recheck
  <2>2. item[proc[p].title].hash \in Torrent
    BY ConstantsAreTyped DEF Process
  <2>3. CASE /\ item[proc[p].title].hash # NoHash
             /\ proc' = [proc EXCEPT ![p] = [@ EXCEPT !.at = "reload",
                                                      !.hash = item[proc[p].title].hash]]
    BY <2>1, <2>2, <2>3, ProcTypes DEF Process, Torrent
  <2>4. CASE proc' = [proc EXCEPT ![p] = [@ EXCEPT !.at = "search"]]
    BY <2>1, <2>4, ProcTypes DEF Process, WithHash
  <2>5. QED
    BY <2>1, <2>3, <2>4
<1>12b. ASSUME TurnedAway(p) PROVE TypeInv'
  BY <1>12b, <1>o, ProcTypes DEF TurnedAway
<1>13. ASSUME PlayResolved(p) PROVE TypeInv'
  BY <1>13, <1>r, ProcTypes DEF PlayResolved, Process, WithHash, Torrent
<1>14. ASSUME StreamEnds(p) PROVE TypeInv'
  BY <1>14, <1>o, ProcTypes DEF StreamEnds
<1>15. QED
  BY <1>1, <1>1a, <1>2, <1>3, <1>4, <1>5, <1>6, <1>7, <1>8, <1>9, <1>10, <1>11, <1>12,
     <1>13, <1>14, <1>12a, <1>12b DEF Resolve, Work, View

\* A step that leaves the worker and the viewers alone.
LEMMA OtherTypes == ASSUME TypeInv, TypeOK', proc' = proc PROVE TypeInv'
BY DEF TypeInv, HasHash

LEMMA RemovalTypes == ASSUME TypeInv, NEW r \in Removers, Removal(r) PROVE TypeInv'
<1>t. /\ item \in [Titles -> Rows] /\ loaded \subseteq Hashes /\ trial \subseteq Hashes
      /\ remover \in [Removers -> Removing]
  BY DEF TypeInv, TypeOK, Removing
<1>n. NotRemoving \in Removing
  BY DEF NotRemoving, Torrent, Removing
<1> SUFFICES /\ ByRemover
             /\ item' \in [Titles -> Rows] /\ loaded' \subseteq Hashes /\ trial' \subseteq Hashes
             /\ remover' \in [Removers -> Removing]
  <2>1. TypeOK'
    BY WitnessTyped DEF ByRemover, TypeInv, TypeOK, Removing
  <2>2. QED
    BY <2>1, OtherTypes DEF ByRemover
<1> USE <1>t DEF cache
<1>1. CASE Remove(r)
  <2>1. PICK ts \in SUBSET {t \in Titles : item[t] # NoRow} :
          remover' = [remover EXCEPT ![r] = [NotRemoving EXCEPT !.at = "delete",
                        !.copy = [t \in Titles |-> IF t \in ts THEN item[t].hash ELSE NoHash]]]
    BY <1>1 DEF Remove
  <2>2. [t \in Titles |-> IF t \in ts THEN item[t].hash ELSE NoHash] \in [Titles -> Torrent]
    BY ConstantsAreTyped DEF Torrent
  <2>3. QED
    BY <1>1, <1>n, <2>1, <2>2 DEF Remove, Removing
<1>2. CASE DeleteItem(r)
  <2>1. PICK t \in Titles :
          /\ remover[r].copy[t] # NoHash
          /\ \/ /\ item' = [item EXCEPT ![t] = NoRow]
                /\ remover' = [remover EXCEPT ![r] =
                                 [remover[r] EXCEPT !.copy = [remover[r].copy EXCEPT ![t] = NoHash],
                                    !.done = remover[r].done \cup {remover[r].copy[t]}]]
             \/ /\ remover' = [remover EXCEPT ![r] = NotRemoving]
                /\ item' = item
    BY <1>2 DEF DeleteItem
  <2> DEFINE rest == [remover[r].copy EXCEPT ![t] = NoHash]
             gone == remover[r].done \cup {remover[r].copy[t]}
             x == [remover[r] EXCEPT !.copy = rest, !.done = gone]
  <2>2. gone \in SUBSET Hashes
    BY <2>1 DEF Torrent, Removing
  <2>3. item' \in [Titles -> Rows]
    BY <2>1, ConstantsAreTyped
  <2>4. rest \in [Titles -> Torrent]
    BY DEF Torrent, Removing
  <2>5. x \in Removing
    <3> HIDE DEF rest, gone
    <3>1. QED
      BY <2>2, <2>4 DEF Removing
  <2>6. remover' = [remover EXCEPT ![r] = x] \/ remover' = [remover EXCEPT ![r] = NotRemoving]
    BY <2>1
  <2>7. remover' \in [Removers -> Removing]
    <3> HIDE DEF x
    <3>1. QED
      BY <1>n, <2>5, <2>6
  <2>8. QED
    BY <1>2, <2>3, <2>7 DEF DeleteItem
<1>3. CASE Deleted(r)
  BY <1>3 DEF Deleted, Removing
<1>4. CASE CountByHash(r)
  <2>1. PICK h \in remover[r].done :
          \/ remover' = [remover EXCEPT ![r] = [@ EXCEPT !.at = "drop", !.hash = h,
                                                         !.done = remover[r].done \ {h}]]
          \/ remover' = [remover EXCEPT ![r] = [@ EXCEPT !.done = remover[r].done \ {h}]]
    BY <1>4 DEF CountByHash
  <2> DEFINE rest == remover[r].done \ {h}
             x == [remover[r] EXCEPT !.at = "drop", !.hash = h, !.done = rest]
             y == [remover[r] EXCEPT !.done = rest]
  <2>2. h \in Torrent /\ rest \in SUBSET Hashes
    BY DEF Torrent, Removing
  <2>3. x \in Removing /\ y \in Removing
    <3> HIDE DEF rest
    <3>1. QED
      BY <2>2 DEF Removing
  <2>4. remover' = [remover EXCEPT ![r] = x] \/ remover' = [remover EXCEPT ![r] = y]
    BY <2>1
  <2>5. remover' \in [Removers -> Removing]
    <3> HIDE DEF x, y
    <3>1. QED
      BY <2>3, <2>4
  <2>6. QED
    BY <1>4, <2>5 DEF CountByHash
<1>5. CASE DropRemoved(r)
  BY <1>5 DEF DropRemoved, Drop, Torrent, Removing
<1>6. CASE Removed(r)
  BY <1>6, <1>n DEF Removed
<1>7. QED
  BY <1>1, <1>2, <1>3, <1>4, <1>5, <1>6 DEF Removal

LEMMA WebhookTypes == ASSUME TypeInv, NEW k \in Hooks, Webhook(k) PROVE TypeInv'
<1>t. /\ item \in [Titles -> Rows] /\ loaded \subseteq Hashes /\ trial \subseteq Hashes
      /\ hook \in [Hooks -> [at: {"off", "sessions", "count", "drop"},
                             title: Titles, hash: Torrent]]
  BY DEF TypeInv, TypeOK
<1>n. NoCall \in [at: {"off", "sessions", "count", "drop"}, title: Titles, hash: Torrent]
  BY ConstantsAreTyped DEF NoCall, Torrent
<1> SUFFICES /\ ByHook /\ item' = item
             /\ loaded' \subseteq Hashes /\ trial' \subseteq Hashes
             /\ hook' \in [Hooks -> [at: {"off", "sessions", "count", "drop"},
                                     title: Titles, hash: Torrent]]
  <2>1. TypeOK'
    BY WitnessTyped DEF ByHook, TypeInv, TypeOK
  <2>2. QED
    BY <2>1, OtherTypes DEF ByHook
<1> USE <1>t, <1>n DEF cache
<1>1. CASE GetByStrmPath(k)
  <2>1. PICK t \in Titles :
          hook' = [hook EXCEPT ![k] = [at |-> "sessions", title |-> t, hash |-> item[t].hash]]
    BY <1>1 DEF GetByStrmPath
  <2>2. item[t].hash \in Torrent
    BY ConstantsAreTyped
  <2>3. QED
    BY <1>1, <2>1, <2>2 DEF GetByStrmPath
<1>2. CASE ActiveSessions(k)
  BY <1>2 DEF ActiveSessions, HookGoto, HookEnds
<1>3. CASE CountReadyByHashExcept(k)
  BY <1>3 DEF CountReadyByHashExcept, HookGoto, HookEnds
<1>4. CASE DropStopped(k)
  BY <1>4 DEF DropStopped, Drop, HookEnds
<1>5. QED
  BY <1>1, <1>2, <1>3, <1>4 DEF Webhook

LEMMA CleanupTypes == ASSUME TypeInv, NEW c \in Cleaners, Cleanup(c) PROVE TypeInv'
<1>t. /\ item \in [Titles -> Rows] /\ loaded \subseteq Hashes /\ trial \subseteq Hashes
      /\ cleaner \in [Cleaners -> [at: {"off", "list", "drop"}, list: SUBSET Hashes,
                                   hash: Torrent]]
  BY DEF TypeInv, TypeOK
<1>n. Sleeping \in [at: {"off", "list", "drop"}, list: SUBSET Hashes, hash: Torrent]
  BY DEF Sleeping, Torrent
<1> SUFFICES /\ ByCleaner /\ item' = item
             /\ loaded' \subseteq Hashes /\ trial' \subseteq Hashes
             /\ cleaner' \in [Cleaners -> [at: {"off", "list", "drop"}, list: SUBSET Hashes,
                                           hash: Torrent]]
  <2>1. TypeOK'
    BY WitnessTyped DEF ByCleaner, TypeInv, TypeOK
  <2>2. QED
    BY <2>1, OtherTypes DEF ByCleaner
<1> USE <1>t, <1>n DEF cache
<1>1. CASE List(c)
  BY <1>1 DEF List, Torrent
<1>2. CASE Keep(c)
  BY <1>2 DEF Keep, Advance, Torrent
<1>3. ASSUME NEW h \in Hashes, Condemn(c, h)
      PROVE  /\ ByCleaner /\ item' = item
             /\ loaded' \subseteq Hashes /\ trial' \subseteq Hashes
             /\ cleaner' \in [Cleaners -> [at: {"off", "list", "drop"}, list: SUBSET Hashes,
                                           hash: Torrent]]
  BY <1>3 DEF Condemn, Advance, Torrent
<1>4. CASE DropOrphan(c)
  BY <1>4 DEF DropOrphan, Drop, Torrent
<1>5. CASE CleanupEnds(c)
  BY <1>5 DEF CleanupEnds
<1>6. QED
  BY <1>1, <1>2, <1>3, <1>4, <1>5 DEF Cleanup

LEMMA CrashTypes == ASSUME TypeInv, Crash PROVE TypeInv'
<1>1. crashes' \in 0 .. MaxCrashes
  BY TorrentCacheAssumption DEF TypeInv, TypeOK, Crash
<1>2. proc' \in [Procs -> Process] /\ \A p \in Procs : proc'[p].at = "off"
  BY OffIsTyped DEF Crash
<1>3. /\ NotRemoving \in [at: {"off", "delete", "count", "drop"},
                          copy: [Titles -> Torrent], done: SUBSET Hashes, hash: Torrent]
      /\ NoCall \in [at: {"off", "sessions", "count", "drop"}, title: Titles, hash: Torrent]
      /\ Sleeping \in [at: {"off", "list", "drop"}, list: SUBSET Hashes, hash: Torrent]
  BY ConstantsAreTyped DEF NotRemoving, NoCall, Sleeping, Torrent
<1>4. TypeOK'
  <2>1. /\ loaded' \subseteq Hashes /\ item' \in [Titles -> Rows]
        /\ trial' \subseteq Hashes /\ spared' \in [Hooks -> SUBSET Viewers]
    BY DEF Crash, TypeInv, TypeOK
  <2>2. QED
    BY <1>1, <1>2, <1>3, <2>1 DEF Crash, TypeOK
<1>5. HasHash'
  BY <1>2 DEF HasHash, WithHash
<1>6. QED
  BY <1>4, <1>5 DEF TypeInv

LEMMA TypeStep == TypeInv /\ [Next]_vars => TypeInv'
<1> SUFFICES ASSUME TypeInv, [Next]_vars PROVE TypeInv'
  OBVIOUS
<1>1. CASE \E w \in Workers : Work(w)
  BY <1>1, WorkTypes DEF Procs
<1>2. CASE \E v \in Viewers : View(v)
  BY <1>2, WorkTypes DEF Procs
<1>3. CASE \E r \in Removers : Removal(r)
  BY <1>3, RemovalTypes
<1>4. CASE \E k \in Hooks : Webhook(k)
  BY <1>4, WebhookTypes
<1>5. CASE \E c \in Cleaners : Cleanup(c)
  BY <1>5, CleanupTypes
<1>6. ASSUME NEW h \in Hashes, IdleTimeout(h) PROVE TypeInv'
  <2>1. TypeOK'
    BY <1>6, WitnessTyped DEF IdleTimeout, TypeInv, TypeOK
  <2>2. QED
    BY <1>6, <2>1, OtherTypes DEF IdleTimeout
<1>7. ASSUME NEW t \in Titles, LibraryChanges(t) PROVE TypeInv'
  <2>1. item' \in [Titles -> Rows]
    BY <1>7 DEF LibraryChanges, cache, TypeInv, TypeOK
  <2>2. TypeOK'
    BY <1>7, <2>1, WitnessTyped DEF LibraryChanges, cache, TypeInv, TypeOK
  <2>3. QED
    BY <1>7, <2>2, OtherTypes DEF LibraryChanges
<1>8. CASE Crash
  BY <1>8, CrashTypes
<1>9. CASE UNCHANGED vars
  BY <1>9 DEF vars, TypeInv, TypeOK, HasHash
<1>10. QED
  BY <1>1, <1>2, <1>3, <1>4, <1>5, <1>6, <1>7, <1>8, <1>9 DEF Next

-----------------------------------------------------------------------------
(* What was only tried is dropped *)

LEMMA TriesByProc ==
  ASSUME TriesAreDropped, NEW p \in Procs, trial' \subseteq trial,
         \A q \in Procs \ {p} : proc'[q] = proc[q],
         proc[p].at \in Trying /\ proc[p].hash \in trial' =>
             proc'[p].at \in Trying /\ proc'[p].hash = proc[p].hash
  PROVE  TriesAreDropped'
BY DEF TriesAreDropped, Trying

LEMMA TriesStep == TypeInv /\ TriesAreDropped /\ [Next]_vars => TriesAreDropped'
<1> SUFFICES ASSUME TypeInv, TriesAreDropped, [Next]_vars PROVE TriesAreDropped'
  OBVIOUS
<1>t. proc \in [Procs -> Process]
  BY DEF TypeInv, TypeOK
<1>1. ASSUME NEW p \in Procs, Resolve(p) \/ Work(p) \/ View(p) PROVE TriesAreDropped'
  <2> USE <1>t DEF Goto, End
  <2>1. CASE AddCandidate(p)
    <3>1. PICK h \in Hashes :
            /\ proc[p].at = "search"
            /\ proc' = [proc EXCEPT ![p] = [@ EXCEPT !.at = "verify", !.hash = h]]
            /\ trial' \subseteq trial \cup {h}
      BY <2>1 DEF AddCandidate
    <3>2. proc'[p].at = "verify" /\ proc'[p].hash = h
      BY <3>1 DEF Process
    <3>3. ASSUME NEW g \in trial, g # h
          PROVE  \E q \in Procs : /\ proc'[q].hash = g /\ proc'[q].at \in Trying
      BY <3>1, <3>3 DEF TriesAreDropped, Trying
    <3>4. QED
      BY <3>1, <3>2, <3>3 DEF TriesAreDropped, Trying
  <2>1a. CASE AddFails(p)
    BY <2>1a, TriesByProc DEF AddFails, Trying
  <2>2. CASE RejectCandidate(p)
    BY <2>2, TriesByProc DEF cache, RejectCandidate, Drop
  <2>3. CASE NothingFound(p)
    BY <2>3, TriesByProc DEF cache, NothingFound, Trying
  <2>4. CASE Job(p)
    BY <2>4, TriesByProc DEF cache, Job, Trying
  <2>5. CASE Found(p)
    BY <2>5, TriesByProc DEF cache, Found, Trying, Process
  <2>6. CASE WriteFails(p)
    BY <2>6, TriesByProc DEF cache, WriteFails, Drop
  <2>7. CASE LookUpExisting(p)
    <3>1. /\ proc[p].at \in Trying /\ trial' = trial
          /\ \A q \in Procs \ {p} : proc'[q] = proc[q]
      BY <2>7 DEF LookUpExisting, Trying, cache
    <3>2. \/ proc' = [proc EXCEPT ![p] = [@ EXCEPT !.at = "superseded",
                                                   !.old = item[proc[p].title].hash]]
          \/ proc' = [proc EXCEPT ![p] = [@ EXCEPT !.at = "upsert"]]
      BY <2>7 DEF LookUpExisting
    <3>3. proc'[p].at \in Trying /\ proc'[p].hash = proc[p].hash
      BY <3>2 DEF Trying, Process
    <3>4. QED
      BY <3>1, <3>3, TriesByProc
  <2>8. CASE DropSuperseded(p)
    BY <2>8, TriesByProc DEF cache, DropSuperseded, Drop, Trying, Process
  <2>9. CASE Upsert(p)
    BY <2>9, TriesByProc DEF cache, Upsert, Trying, Process
  <2>10. CASE DropAfterValidate(p)
    BY <2>10, TriesByProc DEF cache, DropAfterValidate, Drop
  <2>11. CASE Request(p)
    BY <2>11, TriesByProc DEF cache, Request, Trying
  <2>12. CASE TryCached(p)
    <3>1. /\ proc[p].at \in {"load", "reload"} /\ trial' \subseteq trial
          /\ \A q \in Procs \ {p} : proc'[q] = proc[q]
      BY <2>12 DEF TryCached, Play, cache
    <3>2. QED
      BY <3>1, TriesByProc DEF cache, Trying
  <2>12a. CASE Recheck(p)
    BY <2>12a, TriesByProc DEF cache, Recheck, Trying
  <2>12b. CASE TurnedAway(p)
    BY <2>12b, TriesByProc DEF cache, TurnedAway, Trying
  <2>13. CASE PlayResolved(p)
    BY <2>13, TriesByProc DEF cache, PlayResolved
  <2>14. CASE StreamEnds(p)
    BY <2>14, TriesByProc DEF cache, StreamEnds, Trying
  <2>15. QED
    BY <1>1, <2>1, <2>1a, <2>2, <2>3, <2>4, <2>5, <2>6, <2>7, <2>8, <2>9, <2>10, <2>11, <2>12,
       <2>13, <2>14, <2>12a, <2>12b DEF Resolve, Work, View
<1>2. ASSUME proc' = proc, trial' \subseteq trial PROVE TriesAreDropped'
  BY <1>2 DEF TriesAreDropped
<1>3. ASSUME NEW r \in Removers, Removal(r) PROVE TriesAreDropped'
  BY <1>2, <1>3 DEF Removal, Remove, DeleteItem, Deleted, CountByHash, DropRemoved, Removed,
                    Drop, ByRemover, cache
<1>4. ASSUME NEW k \in Hooks, Webhook(k) PROVE TriesAreDropped'
  BY <1>2, <1>4 DEF Webhook, GetByStrmPath, ActiveSessions, CountReadyByHashExcept,
                    DropStopped, Drop, ByHook, cache
<1>5. ASSUME NEW c \in Cleaners, Cleanup(c) PROVE TriesAreDropped'
  BY <1>2, <1>5 DEF Cleanup, List, Keep, Condemn, DropOrphan, CleanupEnds, Drop, ByCleaner, cache
<1>6. QED
  <2>1. ASSUME NEW h \in Hashes, IdleTimeout(h) PROVE TriesAreDropped'
    BY <1>2, <2>1 DEF IdleTimeout
  <2>2. ASSUME NEW t \in Titles, LibraryChanges(t) PROVE TriesAreDropped'
    BY <1>2, <2>2 DEF LibraryChanges, cache
  <2>3. CASE Crash
    BY <2>3 DEF Crash, TriesAreDropped
  <2>4. CASE UNCHANGED vars
    BY <1>2, <2>4 DEF vars
  <2>5. QED
    BY <1>1, <1>3, <1>4, <1>5, <2>1, <2>2, <2>3, <2>4 DEF Next, Procs

-----------------------------------------------------------------------------
(* The webhook *)

\* Who streams before and after a step streams the same title.
LEMMA StreamsOn ==
  ASSUME TypeInv, Next, NEW v \in Viewers,
         proc[v].at = "streaming", proc'[v].at = "streaming"
  PROVE  proc'[v] = proc[v]
<1>t. proc \in [Procs -> Process] /\ v \in Procs
  BY DEF TypeInv, TypeOK, Procs
<1>1. ASSUME NEW w \in Workers, Work(w) PROVE proc'[v] = proc[v]
  <2>1. w # v /\ w \in Procs
    BY TorrentCacheAssumption DEF Procs
  <2>2. QED
    BY <1>t, <1>1, <2>1 DEF Work, Job, Resolve, AddCandidate, AddFails, RejectCandidate, NothingFound,
       Found, WriteFails, LookUpExisting, DropSuperseded, Upsert, DropAfterValidate, Goto, End
<1>2. ASSUME NEW u \in Viewers, View(u) PROVE proc'[v] = proc[v]
  <2>1. CASE u # v
    BY <1>t, <1>2, <2>1 DEF View, Request, TryCached, Recheck, TurnedAway, Resolve, AddCandidate, AddFails, RejectCandidate,
       NothingFound, PlayResolved, StreamEnds, Goto, End
  <2>2. CASE u = v
    <3>1. StreamEnds(v)
      BY <1>2, <2>2 DEF View, Request, TryCached, Recheck, TurnedAway, Resolve, AddCandidate, AddFails, RejectCandidate,
         NothingFound, PlayResolved
    <3>2. proc'[v].at = "off"
      BY <1>t, <3>1, OffIsTyped DEF StreamEnds, End
    <3>3. QED
      BY <3>2
  <2>3. QED
    BY <2>1, <2>2
<1>3. CASE Crash
  BY <1>t, <1>3, OffIsTyped DEF Crash
<1>4. ASSUME proc' = proc PROVE proc'[v] = proc[v]
  BY <1>4
<1>5. ASSUME NEW c \in Cleaners, Cleanup(c) PROVE proc' = proc
  BY <1>5 DEF Cleanup, List, Keep, Condemn, DropOrphan, CleanupEnds, ByCleaner
<1>6. ASSUME NEW r \in Removers, Removal(r) PROVE proc' = proc
  BY <1>6 DEF Removal, Remove, DeleteItem, Deleted, CountByHash, DropRemoved, Removed, ByRemover
<1>7. ASSUME NEW k \in Hooks, Webhook(k) PROVE proc' = proc
  BY <1>7 DEF Webhook, GetByStrmPath, ActiveSessions, CountReadyByHashExcept, DropStopped, ByHook
<1>8. QED
  BY <1>1, <1>2, <1>3, <1>4, <1>5, <1>6, <1>7 DEF Next, IdleTimeout, LibraryChanges

\* The history only shrinks while a call is under way.
LEMMA SparedShrinks ==
  ASSUME TypeInv, Witness, NEW k \in Hooks
  PROVE  /\ spared'[k] \subseteq Watching(k)'
         /\ hook[k].at # "off" => spared'[k] \subseteq spared[k]
BY DEF TypeInv, TypeOK, Witness

\* A step that is not the webhook's keeps what its answers have excluded.
LEMMA HookKept == ASSUME TypeInv, HookInv, Next, Witness, hook' = hook PROVE HookInv'
<1> SUFFICES ASSUME NEW k \in Hooks
             PROVE  /\ hook'[k].at \in {"sessions", "count"} => spared'[k] \subseteq Watching(k)'
                    /\ hook'[k].at = "count" =>
                           \A v \in spared'[k] : proc'[v].title # hook'[k].title
                    /\ hook'[k].at = "drop" => spared'[k] = {}
  BY DEF HookInv
<1>1. spared'[k] \subseteq Watching(k)'
  BY SparedShrinks
<1>2. ASSUME hook'[k].at = "count", NEW v \in spared'[k] PROVE proc'[v].title # hook'[k].title
  <2>1. v \in spared[k] /\ spared[k] \subseteq Watching(k) /\ proc[v].title # hook[k].title
    BY <1>2, SparedShrinks DEF HookInv
  <2>2. v \in Viewers /\ proc[v].at = "streaming" /\ proc'[v].at = "streaming"
    BY <1>1, <1>2, <2>1 DEF Watching
  <2>3. proc'[v] = proc[v]
    BY <2>2, StreamsOn
  <2>4. QED
    BY <2>1, <2>3
<1>3. ASSUME hook'[k].at = "drop" PROVE spared'[k] = {}
  BY <1>3, SparedShrinks DEF HookInv
<1>4. QED
  BY <1>1, <1>2, <1>3

\* What each answer excludes.
LEMMA HookAsks == ASSUME TypeInv, HookInv, NEW j \in Hooks, Webhook(j) PROVE HookInv'
<1>t. /\ proc \in [Procs -> Process] /\ Viewers \subseteq Procs
      /\ hook \in [Hooks -> [at: {"off", "sessions", "count", "drop"},
                             title: Titles, hash: Torrent]]
  BY DEF TypeInv, TypeOK, Procs
<1>w. Witness /\ proc' = proc /\ item' = item
  BY DEF cache, Webhook, GetByStrmPath, ActiveSessions, CountReadyByHashExcept, DropStopped, ByHook
<1>1. \A k \in Hooks : spared'[k] \subseteq Watching(k)'
  BY <1>w, SparedShrinks
<1>2. \A k \in Hooks \ {j} : hook'[k] = hook[k]
  BY <1>t DEF Webhook, GetByStrmPath, ActiveSessions, CountReadyByHashExcept, DropStopped,
             HookGoto, HookEnds
<1>3. ASSUME NEW k \in Hooks \ {j}
      PROVE  /\ hook'[k].at = "count" => \A v \in spared'[k] : proc'[v].title # hook'[k].title
             /\ hook'[k].at = "drop" => spared'[k] = {}
  BY <1>w, <1>2, SparedShrinks DEF HookInv
<1>4. /\ hook'[j].at = "count" => \A v \in spared'[j] : proc'[v].title # hook'[j].title
      /\ hook'[j].at = "drop" => spared'[j] = {}
  <2>1. CASE GetByStrmPath(j)
    <3>1. hook'[j].at = "sessions"
      BY <1>t, <2>1 DEF GetByStrmPath
    <3>2. QED
      BY <3>1
  <2>2. CASE hook'[j].at = "off"
    BY <2>2
  <2>3. CASE ActiveSessions(j) /\ hook'[j].at # "off"
    <3>1. /\ hook[j].at = "sessions" /\ Sessions(hook[j].title) = {}
          /\ hook'[j].at = "count" /\ hook'[j].title = hook[j].title
      BY <1>t, <2>3 DEF ActiveSessions, HookGoto, HookEnds, NoCall
    <3>2. spared'[j] \subseteq spared[j] /\ spared[j] \subseteq Watching(j)
      BY <1>w, <3>1, SparedShrinks DEF HookInv
    <3>3. QED
      BY <1>w, <3>1, <3>2 DEF Watching, Sessions
  <2>4. CASE CountReadyByHashExcept(j) /\ hook'[j].at # "off"
    <3>1. /\ hook[j].at = "count" /\ ReadyExcept(hook[j].hash, hook[j].title) = {}
          /\ hook'[j].at = "drop"
      BY <1>t, <2>4 DEF CountReadyByHashExcept, HookGoto, HookEnds, NoCall
    <3>2. spared'[j] \subseteq spared[j] /\ spared[j] \subseteq Watching(j)
      BY <1>w, <3>1, SparedShrinks DEF HookInv
    <3>3. ASSUME NEW v \in spared[j] PROVE FALSE
      <4>1. /\ v \in Viewers /\ proc[v].title \in Titles \ {hook[j].title}
            /\ item[proc[v].title] = Row(hook[j].hash)
        BY <1>t, <3>1, <3>2 DEF HookInv, Watching, Process
      <4>2. QED
        BY <3>1, <4>1 DEF ReadyExcept
    <3>4. QED
      BY <3>1, <3>2, <3>3
  <2>5. CASE DropStopped(j)
    BY <1>t, <2>5 DEF DropStopped, HookEnds, NoCall
  <2>6. QED
    BY <2>1, <2>2, <2>3, <2>4, <2>5 DEF Webhook
<1>5. QED
  BY <1>1, <1>3, <1>4 DEF HookInv

LEMMA HookStep == TypeInv /\ HookInv /\ [Next]_vars => HookInv'
<1> SUFFICES ASSUME TypeInv, HookInv, [Next]_vars PROVE HookInv'
  OBVIOUS
<1>1. CASE \E k \in Hooks : Webhook(k)
  BY <1>1, HookAsks
<1>2. CASE Crash
  BY <1>2 DEF Crash, HookInv, NoCall
<1>3. ASSUME NEW p \in Procs, Work(p) \/ View(p) PROVE Witness /\ hook' = hook
  BY <1>3 DEF Work, View, Job, Resolve, AddCandidate, AddFails, RejectCandidate, NothingFound,
     Found, WriteFails, LookUpExisting, DropSuperseded, Upsert, DropAfterValidate,
     Request, TryCached, Recheck, TurnedAway, PlayResolved, StreamEnds, ByProc
<1>4. ASSUME NEW c \in Cleaners, Cleanup(c) PROVE Witness /\ hook' = hook
  BY <1>4 DEF Cleanup, List, Keep, Condemn, DropOrphan, CleanupEnds, ByCleaner
<1>5. ASSUME NEW r \in Removers, Removal(r) PROVE Witness /\ hook' = hook
  BY <1>5 DEF Removal, Remove, DeleteItem, Deleted, CountByHash, DropRemoved, Removed, ByRemover
<1>6. CASE Next /\ Witness /\ hook' = hook
  BY <1>6, HookKept
<1>7. CASE UNCHANGED vars
  BY <1>7 DEF vars, HookInv, Watching, Row
<1>8. QED
  BY <1>1, <1>2, <1>3, <1>4, <1>5, <1>6, <1>7 DEF Next, Procs, IdleTimeout, LibraryChanges

-----------------------------------------------------------------------------
(* The theorems *)

\* The inductive invariant: the types, the trials, and what the answers exclude.
THEOREM Invariance == Spec => []IInv
<1>1. Init => IInv
  BY InitInv
<1>2. IInv /\ [Next]_vars => IInv'
  BY TypeStep, TriesStep, HookStep DEF IInv
<1>3. QED
  BY <1>1, <1>2, PTL DEF Spec

\* Every variable keeps its type.
THEOREM Typing == Spec => []TypeOK
<1>1. IInv => TypeOK
  BY DEF IInv, TypeInv
<1>2. QED
  BY <1>1, Invariance, PTL

\* No way out of resolvePlayable or of the worker's job forgets the torrent it
\* has only tried.
THEOREM NoLeak == Spec => []TriesAreDropped
<1>1. IInv => TriesAreDropped
  BY DEF IInv
<1>2. QED
  BY <1>1, Invariance, PTL

\* dropAfterPlaybackStop never drops under somebody who has watched a ready
\* title of the torrent since before the call, however the other droppers and
\* the writers of the library interleave with its three questions.
THEOREM HookIsCareful == Spec => []HookSparesViewers
<1>1. IInv => HookSparesViewers
  BY DEF IInv, HookInv, HookSparesViewers
<1>2. QED
  BY <1>1, Invariance, PTL
=============================================================================
