------------------------------- MODULE Library -------------------------------
(***************************************************************************)
(* The library: a row of the table items and a .strm file for each entry,  *)
(* and for a pasted video page also a row of web_sources                   *)
(* (cmd/orchestrator/main.go and websources.go, internal/library/writer.go,*)
(* internal/store/store.go and websources.go).                             *)
(*                                                                         *)
(* Nothing makes the two or three writes of an entry one.  The queue       *)
(* worker, a provider's daemon (PUT and DELETE /api/provider/...), an      *)
(* admin's pasted link, the removals of the web interface, and the two     *)
(* that write a row back as they read it long ago (the health check, and   *)
(* /play after it resolved again) take turns at the same entries; each     *)
(* write may fail, and the service may stop between any two of them.       *)
(*                                                                         *)
(* Abstractions.  A title, year and library make a path: an entry may move *)
(* from one path to another, and entries of different identities may want  *)
(* the same one.  Of a row we keep its path and its identity, of a file    *)
(* its path and the identity of the play URL in it ("cut": a write that    *)
(* stopped halfway).  Which rows a removal picks - one episode, a season,  *)
(* those the user may remove - is any choice among the rows of a title.    *)
(* External: no daemon registers items under the provider "web", the one   *)
(* namespace besides tmdb that has an owner (main.go:2684 refuses tmdb     *)
(* only).                                                                  *)
(***************************************************************************)
EXTENDS Naturals

CONSTANTS
    Paths,      \* paths of .strm files
    Titles,     \* identities resolved by the queue worker (provider tmdb)
    Items,      \* identities registered by a provider's daemon
    Links,      \* identities of pasted video pages (provider web)
    Handlers,   \* what runs at the same time: the worker, requests, the health check
    MaxFaults,  \* bound: writes that fail and stops of the service
    none, cut

Ids == Titles \cup Items \cup Links

ASSUME LibraryAssumption ==
    /\ MaxFaults \in Nat
    /\ (Paths \cup {none}) \cap (Ids \cup {cut}) = {}
    /\ {none, cut} \cap Ids = {} /\ none # cut /\ none \notin Paths
    /\ Titles \cap Items = {} /\ Titles \cap Links = {} /\ Items \cap Links = {}

VARIABLES
    row,        \* table items: the identity of the row with this strm_path
    file,       \* the .strm files
    links,      \* ids of table web_sources
    run,        \* what each handler is doing
    faults,     \* how many faults there were
    excused,    \* ghost: paths and identities hit by a fault that no handler makes up for,
                \* or by two handlers at once
    raced       \* ghost: identities that a removal and another handler were busy with at once

vars == <<row, file, links, run, faults, excused, raced>>
ghosts == <<excused, raced>>

\* A handler's locals: the step it is at, its identity and path, the path of the
\* row it found at first, and the paths it still has to remove.
Idle == [at |-> "idle", does |-> "nothing", id |-> none, path |-> none, old |-> none, todo |-> {}]
Runs == [at   : {"idle", "write", "link", "record", "unlink", "delete", "forget"},
         does : {"nothing", "add", "remove", "copy"},
         id   : Ids \cup {none},
         path : Paths \cup {none},
         old  : Paths \cup {none},
         todo : SUBSET Paths]

TypeOK ==
    /\ row \in [Paths -> Ids \cup {none}]
    /\ file \in [Paths -> Ids \cup {none, cut}]
    /\ links \subseteq Links
    /\ run \in [Handlers -> Runs]
    /\ faults \in 0 .. MaxFaults
    /\ excused \subseteq Paths \cup Ids
    /\ raced \subseteq Ids

Init ==
    /\ row = [q \in Paths |-> none]
    /\ file = [q \in Paths |-> none]
    /\ links = {}
    /\ run = [h \in Handlers |-> Idle]
    /\ faults = 0
    /\ excused = {}
    /\ raced = {}

Rows(id) == {q \in Paths : row[q] = id}

\* What a handler may touch from here on.
Claims(r) == ({r.id, r.path, r.old} \cup r.todo) \ {none}

Becomes(h, r) == run' = [run EXCEPT ![h] = r]
Goes(h, at) == Becomes(h, [run[h] EXCEPT !.at = at])
Ends(h) == Becomes(h, Idle)

\* Handler h takes up r: what others claim as well is contended, and an
\* identity is raced for if h or another of them removes it.
Both(h, r) == UNION {Claims(r) \cap Claims(run[g]) : g \in Handlers \ {h}}
Removing(h, r) == {g \in Handlers \ {h} : "remove" \in {r.does, run[g].does}}
Takes(h, r) ==
    /\ Becomes(h, r)
    /\ excused' = excused \cup Both(h, r)
    /\ raced' = raced \cup UNION {Ids \cap Claims(r) \cap Claims(run[g]) : g \in Removing(h, r)}

Fault(hit) ==
    /\ faults < MaxFaults
    /\ faults' = faults + 1
    /\ excused' = excused \cup hit
    /\ UNCHANGED raced

Fine == UNCHANGED <<faults, ghosts>>

-----------------------------------------------------------------------------
\* Adding an entry.

\* GetByProviderIdentity: some row of the identity; the worker does not look.
Found(id) == IF id \in Titles \/ Rows(id) = {} THEN {none} ELSE Rows(id)

\* The worker has resolved a release; PUT /items/{id} or POST /websources is valid.
Add(h, id, q) ==
    /\ run[h] = Idle
    /\ \E old \in Found(id) :
           Takes(h, [at |-> "write", does |-> "add", id |-> id, path |-> q, old |-> old, todo |-> {}])
    /\ UNCHANGED <<row, file, links, faults>>

AfterWrite(r) == IF r.id \in Links THEN "link" ELSE "record"

\* WriteMovieStrm, WriteTVStrm.
Write(h) ==
    LET r == run[h] IN
    /\ r.at = "write"
    /\ file' = [file EXCEPT ![r.path] = r.id]
    /\ Goes(h, AfterWrite(r))
    /\ Fine /\ UNCHANGED <<row, links>>

\* Before anything is written, halfway, or at the last chmod.
WriteFails(h) ==
    LET r == run[h] IN
    /\ r.at = "write"
    /\ \E content \in {file[r.path], cut, r.id} : file' = [file EXCEPT ![r.path] = content]
    /\ Fault(IF file' = file THEN {} ELSE {r.path})
    /\ Ends(h)
    /\ UNCHANGED <<row, links>>

\* UpsertWebSource.
Link(h) ==
    LET r == run[h] IN
    /\ r.at = "link"
    /\ links' = links \cup {r.id}
    /\ Goes(h, "record")
    /\ Fine /\ UNCHANGED <<row, file>>

\* (mutant: the row that was found counts as another file's whatever its path)
AlwaysNew(r) == r.does = "add"

\* Is the file rolled back when a row cannot be written?
RollsBack(r) == r.does = "add" /\ (r.id \in Titles \/ r.old # r.path)

\* A row cannot be written.  The file goes again, unless the row that was found
\* has the same path; that of another row's path goes as well.
RecordFails(h) ==
    LET r == run[h] IN
    /\ r.at \in {"link", "record"}
    /\ \E removed \in BOOLEAN :
           /\ file' = IF RollsBack(r) /\ removed THEN [file EXCEPT ![r.path] = none] ELSE file
           /\ Fault(IF r.does = "add" /\ ((RollsBack(r) /\ ~removed) \/ (r.old # r.path /\ row[r.path] # none))
                    THEN {r.path} ELSE {})
    /\ Ends(h)
    /\ UNCHANGED <<row, links>>

\* (mutant: a row that moved is left behind)
NeverSupersedes(r) == FALSE

\* Does the entry leave an older path?
Supersedes(r) == r.old \notin {none, r.path}

\* Upsert: on the path, whatever identity had it.
Record(h) ==
    LET r == run[h] IN
    /\ r.at = "record"
    /\ row' = [row EXCEPT ![r.path] = r.id]
    /\ IF Supersedes(r)
       THEN Becomes(h, [r EXCEPT !.at = "unlink", !.todo = {r.old}])
       ELSE Ends(h)
    /\ Fine /\ UNCHANGED <<file, links>>

-----------------------------------------------------------------------------
\* Removing entries.

\* What is left to do once a removal is done with the paths.
AfterDelete(r) == IF r.does = "remove" /\ r.id \in Links THEN "forget" ELSE "idle"

Proceeds(h, r) ==
    IF r.todo # {} THEN Becomes(h, [r EXCEPT !.at = "unlink"])
    ELSE IF AfterDelete(r) = "idle" THEN Ends(h)
    ELSE Becomes(h, [r EXCEPT !.at = AfterDelete(r)])

\* (mutant: the link is forgotten before its rows)
ForgetFirst(h, id) ==
    /\ run[h] = Idle
    /\ links' = links \ {id}
    /\ \E chosen \in {Rows(id)} :
           Takes(h, [at |-> IF chosen = {} THEN "forget" ELSE "unlink", does |-> "remove",
                     id |-> id, path |-> none, old |-> none, todo |-> chosen])
    /\ UNCHANGED <<row, file, faults>>

\* removeItems, DELETE /items/{id}: some rows of the identity; DELETE /websources/{id}
\* takes all of them, and has the link to forget when there is none.
Remove(h, id) ==
    /\ run[h] = Idle
    /\ \E chosen \in (IF id \in Links THEN {Rows(id)} ELSE (SUBSET Rows(id)) \ {{}}) :
           Takes(h, [at |-> IF chosen = {} THEN "forget" ELSE "unlink", does |-> "remove",
                     id |-> id, path |-> none, old |-> none, todo |-> chosen])
    /\ UNCHANGED <<row, file, links, faults>>

\* RemoveStrm of the next path; a failure is only logged.
Unlink(h, q) ==
    LET r == run[h] IN
    /\ r.at = "unlink" /\ q \in r.todo
    /\ Becomes(h, [r EXCEPT !.at = "delete", !.path = q])
    /\ \/ file' = [file EXCEPT ![q] = none] /\ Fine
       \/ UNCHANGED file /\ Fault({q})
    /\ UNCHANGED <<row, links>>

\* DeleteItem.
Delete(h) ==
    LET r == run[h] IN
    /\ r.at = "delete"
    /\ row' = [row EXCEPT ![r.path] = none]
    /\ Proceeds(h, [r EXCEPT !.todo = @ \ {r.path}])
    /\ Fine /\ UNCHANGED <<file, links>>

\* The row stays, without its file: the removal ends with an error, while the
\* add that superseded the row succeeds.
DeleteFails(h) ==
    LET r == run[h] IN
    /\ r.at = "delete"
    /\ Fault({r.path, r.id})
    /\ Ends(h)
    /\ UNCHANGED <<row, file, links>>

\* DeleteWebSource.
Forget(h) ==
    LET r == run[h] IN
    /\ r.at = "forget"
    /\ \/ links' = links \ {r.id} /\ Fine
       \/ UNCHANGED links /\ Fault({})
    /\ Ends(h)
    /\ UNCHANGED <<row, file>>

-----------------------------------------------------------------------------
\* Rows that are written back.

\* The health check lists all rows, /play of a title reads one; a search or a
\* resolve later the copy is upserted (Record), or that fails (RecordFails).
ReadCopy(h, q) ==
    /\ run[h] = Idle
    /\ row[q] # none
    /\ Takes(h, [at |-> "record", does |-> "copy", id |-> row[q], path |-> q, old |-> none, todo |-> {}])
    /\ UNCHANGED <<row, file, links, faults>>

\* Nothing was found: only the status is touched, or nothing.
Discard(h) ==
    /\ run[h].does = "copy"
    /\ Ends(h)
    /\ Fine /\ UNCHANGED <<row, file, links>>

\* The service stops or dies; whatever was half done stays half done.
Stop ==
    /\ \E h \in Handlers : run[h] # Idle
    /\ Fault(UNION {Claims(run[h]) : h \in {g \in Handlers : run[g].does # "copy"}})
    /\ run' = [h \in Handlers |-> Idle]
    /\ UNCHANGED <<row, file, links>>

Step(h) ==
    \/ Write(h) \/ WriteFails(h) \/ Link(h) \/ RecordFails(h) \/ Record(h)
    \/ \E q \in Paths : Unlink(h, q)
    \/ Delete(h) \/ DeleteFails(h) \/ Forget(h) \/ Discard(h)

Next ==
    \/ \E h \in Handlers :
           \/ \E id \in Ids : Remove(h, id) \/ \E q \in Paths : Add(h, id, q)
           \/ \E q \in Paths : ReadCopy(h, q)
           \/ Step(h)
    \/ Stop

Spec == Init /\ [][Next]_vars

-----------------------------------------------------------------------------

Claimed == UNION {Claims(run[h]) : h \in Handlers}

\* An entry is whole or not there: whenever nobody is at work on a path, its file
\* and its row are both there, and of one identity, or neither is.  This survives
\* every write that fails where the code makes up for it; excused are two handlers
\* at once on the path and the failures nothing makes up for (see "excused").
EntriesAreWhole == \A q \in Paths \ (excused \cup Claimed) : file[q] = row[q]

\* An item or a link that is registered again under another title moves: it never
\* has two entries, unless two handlers met or the old row could not be deleted.
OneEntryEach == 
    \A id \in (Items \cup Links) \ (excused \cup Claimed) :
        \A q, p \in Rows(id) : q = p

\* The entry of a pasted page never lacks the page it came from, which playback
\* needs, wherever an add, a removal or a write-back fails or is cut off and
\* however adds of the page overlap each other and its write-backs.  What can do
\* that, and is excused (raced), is a removal of the page that overlaps another
\* handler of it: an add, or the health check, which reads all rows first, pasted
\* pages too, and writes its copy back by Upsert over the removal (main.go:4072).
EntriesHaveTheirLink == \A q \in Paths : row[q] \in Links => row[q] \in links \cup raced

\* A file that is rolled back is one no row points to (main.go:2879-2881: "ONLY if we
\* just created it").
RollbackSparesRows ==
    [][\A h \in Handlers, q \in Paths : RecordFails(h) /\ file[q] # none /\ file'[q] = none => row[q] = none]_vars
=============================================================================
