---------------------------- MODULE TorrentCache ----------------------------
(***************************************************************************)
(* What is loaded in TorrServer, and everybody who loads and drops it.     *)
(*                                                                         *)
(* A torrent costs memory and background traffic while it is loaded, so it *)
(* is dropped as soon as nobody seems to need it; and a season pack is ONE *)
(* torrent behind many library rows.  Who drops decides by himself:        *)
(*   - resolvePlayable, for a candidate it rejects;                        *)
(*   - the queue worker, for the superseded release of a row, after a      *)
(*     failure, and after it has validated the release it chose;           *)
(*   - removeItems, for the releases of the rows it deleted;               *)
(*   - the webhook, when Jellyfin says that playback has stopped;          *)
(*   - orphan cleanup, for what no library row refers to;                  *)
(*   - TorrServer itself, for what nobody has read for a while.            *)
(* Each looks before it drops, and the look and the drop are two calls.    *)
(*                                                                         *)
(* Abstractions.  A library row is its release and whether it is 'ready';  *)
(* rows without a torrent (web sources) are left out.  The lock and the    *)
(* cooldown of /play are module ResolveAtPlay, the queue of the worker is  *)
(* module RequestQueue; pre-warming (module PreWarm) loads as a viewer     *)
(* does.  A Jellyfin session is a viewer that streams.                     *)
(***************************************************************************)
EXTENDS FiniteSets, Naturals

CONSTANTS
    Titles,     \* movies and episodes, each with its .strm path
    Hashes,     \* torrents
    NoHash,     \* no torrent
    Workers,    \* the queue worker
    Viewers,    \* requests to /play
    Removers,   \* requests that remove library rows
    Hooks,      \* calls of the playback-stop webhook
    Cleaners,   \* the orphan cleanup task
    MaxCrashes  \* bound: times the process dies

ASSUME TorrentCacheAssumption ==
    /\ NoHash \notin Hashes
    /\ Titles # {}
    /\ Workers \cap Viewers = {}
    /\ MaxCrashes \in Nat

VARIABLES
    loaded,     \* the torrents TorrServer has
    item,       \* the library rows
    proc,       \* who resolves and plays: worker and viewers
    remover,    \* removals under way
    hook,       \* webhook calls under way
    cleaner,    \* orphan cleanup
    crashes,    \* how often the process died
    trial,      \* history: torrents loaded only to be tried, by an add that answered
                \* with their hash, and not dropped since
    spared      \* history: for each webhook call, who has been watching since it began

vars == <<loaded, item, proc, remover, hook, cleaner, crashes, trial, spared>>
cache == <<loaded, trial>>

Torrent == Hashes \cup {NoHash}
Procs == Workers \cup Viewers
AnyTitle == CHOOSE t \in Titles : TRUE
NoRow == [hash |-> NoHash, status |-> "none"]
Rows == {NoRow} \cup [hash: Hashes, status: {"ready", "stale"}]
NotRemoving == [at |-> "off", copy |-> [t \in Titles |-> NoHash], done |-> {}, hash |-> NoHash]
Off == [at |-> "off", title |-> AnyTitle, hash |-> NoHash, old |-> NoHash]
NoCall == [at |-> "off", title |-> AnyTitle, hash |-> NoHash]
Sleeping == [at |-> "off", list |-> {}, hash |-> NoHash]

Process == [at: {"off", "load", "retry", "reload", "search", "verify", "found", "superseded",
                 "upsert", "stored", "streaming"}, title: Titles, hash: Torrent, old: Torrent]

TypeOK ==
    /\ loaded \subseteq Hashes
    /\ item \in [Titles -> Rows]
    /\ proc \in [Procs -> Process]
    /\ remover \in [Removers -> [at: {"off", "delete", "count", "drop"},
                                 copy: [Titles -> Torrent], done: SUBSET Hashes, hash: Torrent]]
    /\ hook \in [Hooks -> [at: {"off", "sessions", "count", "drop"},
                           title: Titles, hash: Torrent]]
    /\ cleaner \in [Cleaners -> [at: {"off", "list", "drop"}, list: SUBSET Hashes,
                                 hash: Torrent]]
    /\ crashes \in 0 .. MaxCrashes
    /\ trial \subseteq Hashes
    /\ spared \in [Hooks -> SUBSET Viewers]

Init ==
    /\ loaded = {}
    /\ item \in [Titles -> Rows]
    /\ proc = [p \in Procs |-> Off]
    /\ remover = [r \in Removers |-> NotRemoving]
    /\ hook = [k \in Hooks |-> NoCall]
    /\ cleaner = [c \in Cleaners |-> Sleeping]
    /\ crashes = 0
    /\ trial = {}
    /\ spared = [k \in Hooks |-> {}]

-----------------------------------------------------------------------------
(* TorrServer and the library *)

\* Drop: the torrent goes, or the call fails and a line is logged.
Drop(h) ==
    /\ loaded' = loaded \ {h} \/ UNCHANGED loaded
    /\ trial' = trial \ {h}

\* A player takes the torrent over, whoever has loaded it.
Play(h) ==
    /\ loaded' = loaded \cup {h}
    /\ trial' = trial \ {h}

Row(h) == [hash |-> h, status |-> "ready"]
Refer(h) == {t \in Titles : item[t].hash = h}
ReadyExcept(h, t) == {u \in Titles \ {t} : item[u] = Row(h)}

\* Who streams the torrent of call k for a title whose row is ready with it.
Watching(k) ==
    {v \in Viewers : /\ proc[v].at = "streaming" /\ proc[v].hash = hook[k].hash
                     /\ item[proc[v].title] = Row(hook[k].hash)}

\* The history of the webhook calls: a call that has just begun may cut
\* everybody who watches its torrent, later only who has watched it throughout.
Witness ==
    spared' = [k \in Hooks |-> IF hook[k].at = "off" THEN Watching(k)'
                               ELSE spared[k] \cap Watching(k)']

\* What a step of one of them leaves alone.
ByProc == UNCHANGED <<remover, hook, cleaner, crashes>> /\ Witness
ByRemover == UNCHANGED <<proc, hook, cleaner, crashes>> /\ Witness
ByHook == UNCHANGED <<proc, remover, cleaner, crashes>> /\ Witness
ByCleaner == UNCHANGED <<proc, remover, hook, crashes>> /\ Witness

Goto(p, at) == proc' = [proc EXCEPT ![p] = [@ EXCEPT !.at = at]]
End(p) == proc' = [proc EXCEPT ![p] = Off]

-----------------------------------------------------------------------------
(* resolvePlayable, for the worker and for /play *)

AddCandidate(p) ==
    /\ proc[p].at = "search"
    /\ \E h \in Hashes :
         /\ proc' = [proc EXCEPT ![p] = [@ EXCEPT !.at = "verify", !.hash = h]]
         /\ loaded' = loaded \cup {h}
         /\ trial' = IF h \in loaded THEN trial ELSE trial \cup {h}
    /\ UNCHANGED item
    /\ ByProc

\* Add answers with an error (a time-out, an answer it cannot read, an empty
\* hash) to a torrent that TorrServer has accepted: the resolve ends, and
\* nobody knows the hash to drop.
AddFails(p) ==
    /\ proc[p].at = "search"
    /\ End(p)
    /\ \E h \in Hashes : loaded' = loaded \cup {h}
    /\ UNCHANGED <<trial, item>>
    /\ ByProc

\* (mutant: a ghost release is skipped and stays loaded)
SkipCandidate(p) ==
    /\ proc[p].at = "verify"
    /\ proc' = [proc EXCEPT ![p] = [@ EXCEPT !.at = "search", !.hash = NoHash]]
    /\ UNCHANGED <<cache, item>>
    /\ ByProc

\* No file list, the wrong episode, no video, no peers, or the context ended.
RejectCandidate(p) ==
    /\ proc[p].at = "verify"
    /\ Drop(proc[p].hash)
    /\ proc' = [proc EXCEPT ![p] = [@ EXCEPT !.at = "search", !.hash = NoHash]]
    /\ UNCHANGED item
    /\ ByProc

\* No candidate is left, or the add of one has failed in TorrServer too.
NothingFound(p) ==
    /\ proc[p].at = "search"
    /\ End(p)
    /\ UNCHANGED <<cache, item>>
    /\ ByProc

Resolve(p) == AddCandidate(p) \/ AddFails(p) \/ RejectCandidate(p) \/ NothingFound(p)

-----------------------------------------------------------------------------
(* The queue worker *)

Job(w) ==
    /\ proc[w].at = "off"
    /\ \E t \in Titles : proc' = [proc EXCEPT ![w] = [Off EXCEPT !.at = "search", !.title = t]]
    /\ UNCHANGED <<cache, item>>
    /\ ByProc

Found(w) ==
    /\ proc[w].at = "verify"
    /\ Goto(w, "found")
    /\ UNCHANGED <<cache, item>>
    /\ ByProc

\* The .strm, or later the library row, cannot be written.
WriteFails(w) ==
    /\ proc[w].at \in {"found", "upsert"}
    /\ Drop(proc[w].hash)
    /\ End(w)
    /\ UNCHANGED item
    /\ ByProc

\* GetByStrmPath: has the row another release?  An error counts as no.
LookUpExisting(w) ==
    /\ proc[w].at = "found"
    /\ LET old == item[proc[w].title].hash
       IN  \/ /\ old \notin {NoHash, proc[w].hash}
              /\ proc' = [proc EXCEPT ![w] = [@ EXCEPT !.at = "superseded", !.old = old]]
           \/ Goto(w, "upsert")
    /\ UNCHANGED <<cache, item>>
    /\ ByProc

DropSuperseded(w) ==
    /\ proc[w].at = "superseded"
    /\ Drop(proc[w].old)
    /\ Goto(w, "upsert")
    /\ UNCHANGED item
    /\ ByProc

Upsert(w) ==
    /\ proc[w].at = "upsert"
    /\ item' = [item EXCEPT ![proc[w].title] = Row(proc[w].hash)]
    /\ Goto(w, "stored")
    /\ UNCHANGED cache
    /\ ByProc

DropAfterValidate(w) ==
    /\ proc[w].at = "stored"
    /\ Drop(proc[w].hash)
    /\ End(w)
    /\ UNCHANGED item
    /\ ByProc

Work(w) ==
    \/ Job(w) \/ Resolve(w) \/ Found(w) \/ WriteFails(w) \/ LookUpExisting(w)
    \/ DropSuperseded(w) \/ Upsert(w) \/ DropAfterValidate(w)

-----------------------------------------------------------------------------
(* /play *)

\* The row is read into a copy (old: its release); without one, a resolve.
Request(v) ==
    /\ proc[v].at = "off"
    /\ \E t \in Titles :
         proc' = [proc EXCEPT ![v] = IF item[t] = NoRow THEN [Off EXCEPT !.at = "search", !.title = t]
                    ELSE [at |-> "load", title |-> t, hash |-> item[t].hash, old |-> item[t].hash]]
    /\ UNCHANGED <<cache, item>>
    /\ ByProc

\* tryCached: EnsureLoaded, then the file list and peers.  A file index that
\* differs is saved with the copy of the row, as it was read.  A release found
\* dead stays loaded, and the request queues for the lock.
TryCached(v) ==
    /\ proc[v].at \in {"load", "reload"}
    /\ Play(proc[v].hash) \/ UNCHANGED cache
    /\ \/ /\ proc[v].hash \in loaded'
          /\ Goto(v, "streaming")
          /\ \/ UNCHANGED item
             \/ \E status \in {"ready", "stale"} :
                  item' = [item EXCEPT ![proc[v].title] = [hash |-> proc[v].hash, status |-> status]]
       \/ /\ proc' = [proc EXCEPT ![v] = [@ EXCEPT !.hash = NoHash,
                         !.at = IF proc[v].at = "load" THEN "retry" ELSE "search"]]
          /\ UNCHANGED item
    /\ ByProc

\* With the lock the row is read again: another release is tried first.
Recheck(v) ==
    /\ proc[v].at = "retry"
    /\ LET fresh == item[proc[v].title].hash
       IN  \/ /\ fresh \notin {NoHash, proc[v].old}
              /\ proc' = [proc EXCEPT ![v] = [@ EXCEPT !.at = "reload", !.hash = fresh]]
           \/ Goto(v, "search")
    /\ UNCHANGED <<cache, item>>
    /\ ByProc

\* Turned away: a cooldown, no lock in time, or the client has gone.
TurnedAway(v) ==
    /\ proc[v].at = "retry"
    /\ End(v)
    /\ UNCHANGED <<cache, item>>
    /\ ByProc

\* cacheResolved writes the copy back, if there was one; then the stream.
PlayResolved(v) ==
    /\ proc[v].at = "verify"
    /\ Goto(v, "streaming")
    /\ item' = IF proc[v].old = NoHash THEN item
               ELSE [item EXCEPT ![proc[v].title] = Row(proc[v].hash)]
    /\ trial' = trial \ {proc[v].hash}
    /\ UNCHANGED loaded
    /\ ByProc

StreamEnds(v) ==
    /\ proc[v].at = "streaming"
    /\ End(v)
    /\ UNCHANGED <<cache, item>>
    /\ ByProc

View(v) ==
    \/ Request(v) \/ TryCached(v) \/ Recheck(v) \/ TurnedAway(v) \/ Resolve(v) \/ PlayResolved(v)
    \/ StreamEnds(v)

-----------------------------------------------------------------------------
(* removeItems *)

\* The rows to be removed are read first, with their releases.
Remove(r) ==
    /\ remover[r].at = "off"
    /\ \E ts \in SUBSET {t \in Titles : item[t] # NoRow} :
         /\ ts # {}
         /\ remover' = [remover EXCEPT ![r] = [NotRemoving EXCEPT !.at = "delete",
                            !.copy = [t \in Titles |-> IF t \in ts THEN item[t].hash ELSE NoHash]]]
    /\ UNCHANGED <<cache, item>>
    /\ ByRemover

\* RemoveStrm and DeleteItem.  If the row cannot be deleted the request ends
\* there, and the torrents of the rows already gone are left to the cleanup.
DeleteItem(r) ==
    LET copy == remover[r].copy IN
    /\ remover[r].at = "delete"
    /\ \E t \in Titles :
         /\ copy[t] # NoHash
         /\ \/ /\ item' = [item EXCEPT ![t] = NoRow]
               /\ remover' = [remover EXCEPT ![r] =
                                 [@ EXCEPT !.copy = [copy EXCEPT ![t] = NoHash],
                                           !.done = remover[r].done \cup {copy[t]}]]
            \/ /\ remover' = [remover EXCEPT ![r] = NotRemoving]
               /\ UNCHANGED item
    /\ UNCHANGED cache
    /\ ByRemover

Deleted(r) ==
    /\ remover[r].at = "delete" /\ \A t \in Titles : remover[r].copy[t] = NoHash
    /\ remover' = [remover EXCEPT ![r] = [@ EXCEPT !.at = "count"]]
    /\ UNCHANGED <<cache, item>>
    /\ ByRemover

\* CountByHash: rows of any status; on an error the torrent is kept.
CountByHash(r) ==
    /\ remover[r].at = "count"
    /\ \E h \in remover[r].done :
         LET rest == remover[r].done \ {h}
         IN  \/ /\ Refer(h) = {}
                /\ remover' = [remover EXCEPT ![r] = [@ EXCEPT !.at = "drop", !.hash = h,
                                                               !.done = rest]]
             \/ remover' = [remover EXCEPT ![r] = [@ EXCEPT !.done = rest]]
    /\ UNCHANGED <<cache, item>>
    /\ ByRemover

DropRemoved(r) ==
    /\ remover[r].at = "drop"
    /\ Drop(remover[r].hash)
    /\ remover' = [remover EXCEPT ![r] = [@ EXCEPT !.at = "count", !.hash = NoHash]]
    /\ UNCHANGED item
    /\ ByRemover

Removed(r) ==
    /\ remover[r].at = "count" /\ remover[r].done = {}
    /\ remover' = [remover EXCEPT ![r] = NotRemoving]
    /\ UNCHANGED <<cache, item>>
    /\ ByRemover

Removal(r) ==
    \/ Remove(r) \/ DeleteItem(r) \/ Deleted(r) \/ CountByHash(r) \/ DropRemoved(r) \/ Removed(r)

-----------------------------------------------------------------------------
(* dropAfterPlaybackStop; an answer it cannot get ends the call at any point *)

HookEnds(k) == hook' = [hook EXCEPT ![k] = NoCall]
HookGoto(k, at) == hook' = [hook EXCEPT ![k] = [@ EXCEPT !.at = at]]

\* Playback of some title has stopped; the notice may come late.
GetByStrmPath(k) ==
    /\ hook[k].at = "off"
    /\ \E t \in Titles :
         /\ item[t] # NoRow
         /\ hook' = [hook EXCEPT ![k] = [at |-> "sessions", title |-> t, hash |-> item[t].hash]]
    /\ UNCHANGED <<cache, item>>
    /\ ByHook

Sessions(t) == {v \in Viewers : proc[v].at = "streaming" /\ proc[v].title = t}

ActiveSessions(k) ==
    /\ hook[k].at = "sessions"
    /\ \/ Sessions(hook[k].title) = {} /\ HookGoto(k, "count")
       \/ HookEnds(k)
    /\ UNCHANGED <<cache, item>>
    /\ ByHook

\* (mutant: the rows of the hash are not counted)
CountNothing(k) ==
    /\ hook[k].at = "count"
    /\ HookGoto(k, "drop")
    /\ UNCHANGED <<cache, item>>
    /\ ByHook

CountReadyByHashExcept(k) ==
    /\ hook[k].at = "count"
    /\ \/ ReadyExcept(hook[k].hash, hook[k].title) = {} /\ HookGoto(k, "drop")
       \/ HookEnds(k)
    /\ UNCHANGED <<cache, item>>
    /\ ByHook

DropStopped(k) ==
    /\ hook[k].at = "drop"
    /\ Drop(hook[k].hash)
    /\ HookEnds(k)
    /\ UNCHANGED item
    /\ ByHook

Webhook(k) == GetByStrmPath(k) \/ ActiveSessions(k) \/ CountReadyByHashExcept(k) \/ DropStopped(k)

-----------------------------------------------------------------------------
(* taskOrphanCleanup *)

List(c) ==
    /\ cleaner[c].at = "off"
    /\ loaded # {}
    /\ cleaner' = [cleaner EXCEPT ![c] = [at |-> "list", list |-> loaded, hash |-> NoHash]]
    /\ UNCHANGED <<cache, item>>
    /\ ByCleaner

Advance(c, at, h, k) ==
    cleaner' = [cleaner EXCEPT ![c] = [at |-> at, list |-> @.list \ {h}, hash |-> k]]

\* GetByHash: kept if a row refers to it, or if the lookup failed.
Keep(c) ==
    /\ cleaner[c].at = "list"
    /\ \E h \in cleaner[c].list : Advance(c, "list", h, NoHash)
    /\ UNCHANGED <<cache, item>>
    /\ ByCleaner

\* (mutant: what a row refers to is taken for an orphan, and the rest is kept)
CondemnReferred(c, h) ==
    /\ cleaner[c].at = "list"
    /\ h \in cleaner[c].list /\ Refer(h) # {}
    /\ Advance(c, "drop", h, h)
    /\ UNCHANGED <<cache, item>>
    /\ ByCleaner

Condemn(c, h) ==
    /\ cleaner[c].at = "list"
    /\ h \in cleaner[c].list /\ Refer(h) = {}
    /\ Advance(c, "drop", h, h)
    /\ UNCHANGED <<cache, item>>
    /\ ByCleaner

DropOrphan(c) ==
    /\ cleaner[c].at = "drop"
    /\ Drop(cleaner[c].hash)
    /\ cleaner' = [cleaner EXCEPT ![c] = [@ EXCEPT !.at = "list", !.hash = NoHash]]
    /\ UNCHANGED item
    /\ ByCleaner

CleanupEnds(c) ==
    /\ cleaner[c].at = "list" /\ cleaner[c].list = {}
    /\ cleaner' = [cleaner EXCEPT ![c] = Sleeping]
    /\ UNCHANGED <<cache, item>>
    /\ ByCleaner

Cleanup(c) ==
    List(c) \/ Keep(c) \/ (\E h \in Hashes : Condemn(c, h)) \/ DropOrphan(c) \/ CleanupEnds(c)

-----------------------------------------------------------------------------

\* TorrServer's disconnect timeout: nobody has read the torrent for a while.
IdleTimeout(h) ==
    /\ h \in loaded
    /\ \A v \in Viewers : ~(proc[v].at = "streaming" /\ proc[v].hash = h)
    /\ loaded' = loaded \ {h}
    /\ trial' = trial \ {h}
    /\ UNCHANGED <<item, proc, remover, hook, cleaner, crashes>>
    /\ Witness

\* Health check, ingest and removal elsewhere: any other writer of a row.
LibraryChanges(t) ==
    /\ \E row \in Rows : item' = [item EXCEPT ![t] = row]
    /\ UNCHANGED <<cache, proc, remover, hook, cleaner, crashes>>
    /\ Witness

\* The process dies, and TorrServer keeps what it has loaded.
Crash ==
    /\ crashes < MaxCrashes
    /\ crashes' = crashes + 1
    /\ proc' = [p \in Procs |-> Off]
    /\ remover' = [r \in Removers |-> NotRemoving]
    /\ hook' = [k \in Hooks |-> NoCall]
    /\ cleaner' = [c \in Cleaners |-> Sleeping]
    /\ trial' = {}
    /\ spared' = [k \in Hooks |-> {}]
    /\ UNCHANGED <<loaded, item>>

Next ==
    \/ \E w \in Workers : Work(w)
    \/ \E v \in Viewers : View(v)
    \/ \E r \in Removers : Removal(r)
    \/ \E k \in Hooks : Webhook(k)
    \/ \E c \in Cleaners : Cleanup(c)
    \/ \E h \in Hashes : IdleTimeout(h)
    \/ \E t \in Titles : LibraryChanges(t)
    \/ Crash

Spec == Init /\ [][Next]_vars

\* Orphan cleanup runs every hour, its steps end, and neither the database nor
\* TorrServer fails for ever.
Fairness ==
    \A c \in Cleaners :
        /\ WF_vars(List(c)) /\ WF_vars(Keep(c) \/ CleanupEnds(c) \/ DropOrphan(c))
        /\ \A h \in Hashes :
             /\ SF_vars(Condemn(c, h))
             /\ SF_vars(DropOrphan(c) /\ cleaner[c].hash = h /\ h \notin loaded')

FairSpec == Spec /\ Fairness

-----------------------------------------------------------------------------

\* What was added to TorrServer and answered with its hash does not stay loaded
\* because it was only tried: on each of the ways out of a resolve and of a job
\* that torrent has been dropped, or its drop has at least been asked for ("a
\* leaked torrent keeps consuming the bounded TorrServer cache", main.go:3617).
\* Three leaks it does not deny, and the code leaves to the orphan cleanup
\* (OrphansGo): the add that fails though TorrServer has accepted the torrent
\* (AddFails; main.go:3513-3518 returns without a drop), a drop that fails, and
\* a crash.
TriesAreDropped ==
    \A h \in trial : \E p \in Procs :
        /\ proc[p].hash = h
        /\ proc[p].at \in {"verify", "found", "superseded", "upsert", "stored"}

\* The webhook never cuts off a viewer of a ready title who has been watching
\* since before the call began, be it the title that stopped or another one of
\* the same season pack, whatever the other droppers and writers do meanwhile.
HookSparesViewers ==
    \A k \in Hooks : hook[k].at = "drop" => spared[k] = {}

\* A torrent that no row refers to does not stay loaded for ever, whoever has
\* left it behind: a crash, a failed drop, a removal that ended half-way.
OrphansGo ==
    \A h \in Hashes : []<>(h \in loaded => Refer(h) # {})
=============================================================================
