------------------------------ MODULE PlayTokens ------------------------------
(***************************************************************************)
(* The tokens in the play URLs of .strm files                              *)
(* (cmd/orchestrator/playtoken.go, helpers.go, rotatekey.go): the signing  *)
(* key, the rewriting of all files when the service starts, and the        *)
(* decision to refuse URLs without a valid token.                          *)
(*                                                                         *)
(* Jellyfin plays whatever URL a file holds.  Refusing before every file   *)
(* is signed would stop the library from playing; the key may be replaced  *)
(* from the command line at any time; a file may be unreadable or          *)
(* read-only just when the service starts; and a start may be cut short.   *)
(*                                                                         *)
(* Abstractions.  A token is the number of the key it was made with; that  *)
(* it is made for one identity only is taken from the encoding (no field   *)
(* holds the delimiter).  Every file is at its entry's path.  A file may   *)
(* have lost its row, and a row its file.                                  *)
(***************************************************************************)
EXTENDS Naturals

CONSTANTS
    Titles,   \* entries of TMDB titles: their URL can be parsed again
    Others,   \* entries of other providers
    MaxKeys,  \* bound: keys ever made
    none

VARIABLES
    key,       \* the setting play.hmac_key, 0: none
    marker,    \* the setting play.token_required
    keys,      \* the last key that was made
    rows,      \* entries with a library row
    file,      \* what is in the .strm file of each entry
    phase,     \* "down", "start", "migrate", "sweep", "up"
    memKey,    \* playKey
    enforced,  \* playTokensEnforced
    before,    \* enforcedBefore
    todo,      \* rows, then files, the start has yet to look at
    lost       \* rows whose file this start could not rewrite

vars == <<key, marker, keys, rows, file, phase, memKey, enforced, before, todo, lost>>
settings == <<key, marker, keys>>
process == <<memKey, enforced, before, todo, lost>>

Entries == Titles \cup Others

\* A URL of today names an identity, a legacy one an info hash; its token, 0 for none,
\* may be repeated.
Files == [form : {"play", "stream"}, token : 0 .. MaxKeys, repeated : BOOLEAN]

TypeOK ==
    /\ key \in 0 .. MaxKeys /\ keys \in key .. MaxKeys /\ memKey \in 0 .. keys
    /\ marker \in BOOLEAN /\ enforced \in BOOLEAN /\ before \in BOOLEAN
    /\ rows \subseteq Entries
    /\ file \in [Entries -> Files \cup {none}]
    /\ phase \in {"down", "start", "migrate", "sweep", "up"}
    /\ todo \subseteq Entries /\ lost \subseteq Entries

Signed(form, k) == [form |-> form, token |-> k, repeated |-> FALSE]

\* What a version without tokens left behind, or one that signed legacy URLs anew at
\* each start.
Init ==
    /\ key \in {0, 1} /\ keys = key
    /\ marker \in {FALSE, key = 1}
    /\ rows \in SUBSET Entries
    /\ file \in [Entries -> {none, Signed("play", 0), Signed("stream", 0), Signed("play", key),
                            [form |-> "stream", token |-> key, repeated |-> key = 1]}]
    /\ \A e \in Others : file[e] # none => file[e].form = "play"
    /\ phase = "down"
    /\ memKey = 0 /\ enforced = FALSE /\ before = FALSE /\ todo = {} /\ lost = {}

-----------------------------------------------------------------------------
\* The service starts.

\* loadPlayKey; without a key, or with one it cannot store, the service ends.
LoadKey ==
    /\ phase = "down"
    /\ IF key = 0 THEN keys < MaxKeys /\ keys' = keys + 1 /\ key' = keys' ELSE UNCHANGED <<key, keys>>
    /\ memKey' = key'
    /\ enforced' = FALSE /\ before' = FALSE /\ todo' = {} /\ lost' = {}
    /\ phase' = "start"
    /\ UNCHANGED <<marker, rows, file>>

\* migrateStrmTokens: an unreadable marker counts as set; rows that cannot be listed
\* end it.
ReadMarker ==
    /\ phase = "start"
    /\ \E unreadable \in BOOLEAN : before' = (marker \/ unreadable)
    /\ enforced' = before'
    /\ \/ phase' = "migrate" /\ todo' = rows /\ lost' = {}
       \/ phase' = "up" /\ todo' = {} /\ lost' = rows
    /\ UNCHANGED <<settings, rows, file, memKey>>

\* One row: its file is up to date, is written, or cannot be read or written.
MigrateRow(e) ==
    /\ phase = "migrate" /\ e \in todo
    /\ todo' = todo \ {e}
    /\ \/ file' = [file EXCEPT ![e] = Signed("play", memKey)] /\ UNCHANGED lost
       \/ lost' = lost \cup {e} /\ UNCHANGED file
    /\ UNCHANGED <<settings, rows, phase, memKey, enforced, before>>

\* (mutant: enforced although a file could not be rewritten)
EvenSo == TRUE

\* Has every row's file been rewritten?
AllRewritten == lost = {}

\* Enforcement is turned on, and recorded if it can be; else it stays as it was.
Migrated ==
    /\ phase = "migrate" /\ todo = {}
    /\ IF AllRewritten
       THEN /\ enforced' = TRUE
            /\ marker' \in {marker, TRUE}
            /\ phase' = "sweep"
            /\ todo' = {e \in Entries : file[e] # none}
       ELSE phase' = "up" /\ UNCHANGED <<enforced, marker, todo>>
    /\ UNCHANGED <<key, keys, rows, file, memKey, before, lost>>

\* GetByHash: the row of a torrent that a legacy file points to.
KnownHash(e) == e \in rows

\* What sweepOrphanStrmTokens makes of a file: repeated tokens are made one, whatever
\* key they are of; without one, a title's URL is signed, a legacy URL becomes that of
\* its row or is signed for its hash; other providers' URLs are left as they are.
SweptFile(e) ==
    LET f == file[e] IN
    IF f.token # 0 THEN [f EXCEPT !.repeated = FALSE]
    ELSE IF f.form = "stream" THEN Signed(IF KnownHash(e) THEN "play" ELSE "stream", memKey)
    ELSE IF e \in Titles THEN Signed("play", memKey)
    ELSE f

\* A file that cannot be read or written is only reported.
SweepFile(e) ==
    /\ phase = "sweep" /\ e \in todo
    /\ todo' = todo \ {e}
    /\ \/ file[e] # none /\ file' = [file EXCEPT ![e] = SweptFile(e)]
       \/ UNCHANGED file
    /\ UNCHANGED <<settings, rows, phase, memKey, enforced, before, lost>>

Started ==
    /\ phase = "sweep" /\ todo = {}
    /\ phase' = "up"
    /\ UNCHANGED <<settings, rows, file, process>>

\* The service ends, or dies while it starts.
Stop ==
    /\ phase # "down"
    /\ phase' = "down"
    /\ UNCHANGED <<settings, rows, file, process>>

-----------------------------------------------------------------------------
\* Meanwhile.

\* rotate-play-key, a process of its own: the running service keeps its key.
Rotate ==
    /\ keys < MaxKeys
    /\ keys' = keys + 1 /\ key' = keys'
    /\ UNCHANGED <<marker, rows, file, phase, process>>

\* An entry is added, or written again, with the token of the running service.  The
\* queue's worker runs before the files are migrated (main.go:195); the handlers that
\* write entries of other providers only once the service is up.
AddEntry(e) ==
    /\ phase = "up" \/ (phase # "down" /\ e \in Titles)
    /\ rows' = rows \cup {e}
    /\ file' = [file EXCEPT ![e] = Signed("play", memKey)]
    /\ lost' = IF phase = "up" THEN lost \ {e} ELSE lost
    /\ UNCHANGED <<settings, phase, memKey, enforced, before, todo>>

\* A removal that could not remove the file, or a file somebody deleted.
LoseRow(e) ==
    /\ phase = "up" /\ e \in rows
    /\ rows' = rows \ {e}
    /\ UNCHANGED <<settings, file, phase, process>>

LoseFile(e) ==
    /\ file[e] # none
    /\ file' = [file EXCEPT ![e] = none]
    /\ UNCHANGED <<settings, rows, phase, process>>

Next ==
    \/ LoadKey \/ ReadMarker \/ Migrated \/ Started \/ Stop \/ Rotate
    \/ \E e \in Entries : MigrateRow(e) \/ SweepFile(e) \/ AddEntry(e) \/ LoseRow(e) \/ LoseFile(e)

Spec == Init /\ [][Next]_vars

-----------------------------------------------------------------------------

\* playTokenEnforced, validPlayTokenFor: is the URL in the file accepted?
Accepted(e) == ~enforced \/ file[e].token = memKey

\* Whatever starts were cut short, whichever files could not be written in them, and
\* whenever the key was replaced: once the service is up, the file of every row plays.
\* Only where tokens were enforced before may a file that could not be rewritten be
\* refused; and a recorded decision to enforce is never taken back.  It is about rows:
\* a file no row points to is the sweep's (helpers.go:574), and may be refused.
LibraryKeepsPlaying ==
    phase = "up" =>
        /\ \A e \in rows : (before /\ e \in lost) \/ file[e] = none \/ Accepted(e)
        /\ marker => enforced
=============================================================================
