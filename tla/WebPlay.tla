------------------------------ MODULE WebPlay ------------------------------
(***************************************************************************)
(* Pasted video links at play time (cmd/orchestrator/websources.go): GET   *)
(* /play/p/web/{id} reads the link's row, resolves it to a media URL with  *)
(* yt-dlp, and relays the media.  What is shared: resolveGroup, one        *)
(* resolve per link at a time; the cache of resolved URLs; the cooldown of *)
(* links that failed; the budget of yt-dlp processes, which the dashboard  *)
(* draws on as well, its status page excepted.                             *)
(*                                                                         *)
(* A request is named after its call of lock(), which it makes once, and   *)
(* once more, forced, when the site refuses the URL it was given.          *)
(*                                                                         *)
(* Abstractions.  A key is a link.  A media URL is known by whether the    *)
(* cache has one in its time to live; any URL may be refused by the site.  *)
(* Of a row of web_sources the model keeps whether it records an error.    *)
(* The .strm file and the library row of a link are left out.              *)
(***************************************************************************)
EXTENDS ResolveGroup, FiniteSets, Integers

CONSTANTS
    Admins,   \* dashboard handlers: preview, add, delete and status
    Slots     \* yt-dlp processes allowed at once

ASSUME WebPlayAssumption ==
    /\ Slots \in Nat \ {0}
    /\ Admins \cap Calls = {}

VARIABLES
    source,       \* for each link its row: none, or with or without an error
    cached,       \* the links with a media URL in the cache
    cooldown,     \* the links that failed less than a minute ago
    extracting,   \* the handlers that have a slot of the budget
    play,         \* the requests: how far each is, its link, whether it is forced
    admin         \* the dashboard handlers: how far each is and its link

vars == <<mutex, call, source, cached, cooldown, extracting, play, admin>>

Steps == {"idle", "look", "queue", "again", "cool", "slot", "extract", "worked", "keep",
          "failed", "hungup", "canceled", "fetch", "stream"}
AdminSteps == {"idle", "slot", "extract", "upsert", "delete", "forget", "version"}
Idle == [at |-> "idle", key |-> NoKey, force |-> FALSE]
Resting == [at |-> "idle", key |-> NoKey]

TypeOK ==
    /\ GroupTypeOK
    /\ source \in [Keys -> {"none", "ok", "failed"}]
    /\ cached \subseteq Keys
    /\ cooldown \subseteq Keys
    /\ extracting \subseteq Calls \cup Admins
    /\ play \in [Calls -> [at: Steps, key: Keys \cup {NoKey}, force: BOOLEAN]]
    /\ admin \in [Admins -> [at: AdminSteps, key: Keys \cup {NoKey}]]

Init ==
    /\ GroupInit
    /\ source \in [Keys -> {"none", "ok", "failed"}]
    /\ cached = {}
    /\ cooldown = {}
    /\ extracting = {}
    /\ play = [c \in Calls |-> Idle]
    /\ admin = [a \in Admins |-> Resting]

-----------------------------------------------------------------------------
(* A request *)

Playing(c, at) == play[c].at = at
Move(c, at) == play' = [play EXCEPT ![c] = [@ EXCEPT !.at = at]]
End(c) == play' = [play EXCEPT ![c] = Idle]

\* GetWebSource finds the row.
Request(c, k) ==
    /\ Playing(c, "idle") /\ At(c, "out")
    /\ source[k] # "none"
    /\ play' = [play EXCEPT ![c] = [at |-> "look", key |-> k, force |-> FALSE]]
    /\ UNCHANGED <<mutex, call, source, cached, cooldown, extracting, admin>>

CacheHit(c) ==
    /\ Playing(c, "look") /\ ~play[c].force /\ play[c].key \in cached
    /\ Move(c, "fetch")
    /\ UNCHANGED <<mutex, call, source, cached, cooldown, extracting, admin>>

Queue(c) ==
    /\ Playing(c, "look") /\ (play[c].force \/ play[c].key \notin cached)
    /\ Lock(c, play[c].key)
    /\ Move(c, "queue")
    /\ UNCHANGED <<source, cached, cooldown, extracting, admin>>

\* The player hangs up: the request's context is the only one lock() has.
WaitOver(c) ==
    /\ Playing(c, "queue")
    /\ GiveUp(c)
    /\ End(c)
    /\ UNCHANGED <<source, cached, cooldown, extracting, admin>>

Admitted(c) ==
    /\ Playing(c, "queue")
    /\ Enter(c)
    /\ Move(c, "again")
    /\ UNCHANGED <<source, cached, cooldown, extracting, admin>>

\* The cache is asked again with the lock, then the cooldown; a forced resolve
\* asks neither.  Every return runs the deferred release().
CacheHitAgain(c) ==
    /\ Playing(c, "again") /\ ~play[c].force /\ play[c].key \in cached
    /\ Release(c)
    /\ Move(c, "fetch")
    /\ UNCHANGED <<source, cached, cooldown, extracting, admin>>

CacheMissAgain(c) ==
    /\ Playing(c, "again") /\ (play[c].force \/ play[c].key \notin cached)
    /\ Move(c, IF play[c].force THEN "slot" ELSE "cool")
    /\ UNCHANGED <<mutex, call, source, cached, cooldown, extracting, admin>>

\* (mutant: once it has the lock the request does not ask the cooldown)
Uncooled(c) ==
    /\ Playing(c, "cool")
    /\ Move(c, "slot")
    /\ UNCHANGED <<mutex, call, source, cached, cooldown, extracting, admin>>

NotBlocked(c) ==
    /\ Playing(c, "cool") /\ play[c].key \notin cooldown
    /\ Move(c, "slot")
    /\ UNCHANGED <<mutex, call, source, cached, cooldown, extracting, admin>>

\* (mutant: the request that is turned away keeps the lock)
BlockedInside(c) ==
    /\ Playing(c, "cool") /\ play[c].key \in cooldown
    /\ End(c)
    /\ UNCHANGED <<mutex, call, source, cached, cooldown, extracting, admin>>

Blocked(c) ==
    /\ Playing(c, "cool") /\ play[c].key \in cooldown
    /\ Release(c)
    /\ End(c)
    /\ UNCHANGED <<source, cached, cooldown, extracting, admin>>

\* inspect waits for a slot.  If the player hangs up first, inspect returns
\* the context's own error.
HasRoom == Cardinality(extracting) < Slots
TakeSlot(c) ==
    /\ Playing(c, "slot") /\ HasRoom
    /\ extracting' = extracting \cup {c}
    /\ Move(c, "extract")
    /\ UNCHANGED <<mutex, call, source, cached, cooldown, admin>>

SlotCanceled(c) ==
    /\ Playing(c, "slot")
    /\ Move(c, "canceled")
    /\ UNCHANGED <<mutex, call, source, cached, cooldown, extracting, admin>>

\* (mutant: the slot is given back by a success only)
ExtractLeaks(c) ==
    /\ Playing(c, "extract")
    /\ \/ /\ Move(c, "worked")
          /\ extracting' = extracting \ {c}
          /\ cooldown' = cooldown \ {play[c].key}
       \/ /\ \E at \in {"failed", "hungup"} : Move(c, at)
          /\ UNCHANGED <<extracting, cooldown>>
    /\ UNCHANGED <<mutex, call, source, cached, admin>>

\* yt-dlp ends and the slot is given back: it worked, it failed or ran into
\* its 90 seconds, or it was killed because the player hung up.  The last two
\* are one error to the caller, ErrExtractionFailed; the model tells them apart.
ExtractEnds(c) ==
    /\ Playing(c, "extract")
    /\ extracting' = extracting \ {c}
    /\ \/ /\ Move(c, "worked")
          /\ cooldown' = cooldown \ {play[c].key}
       \/ /\ \E at \in {"failed", "hungup"} : Move(c, at)
          /\ UNCHANGED cooldown
    /\ UNCHANGED <<mutex, call, source, cached, admin>>

\* (mutant: a mark inserts the row it does not find)
MarkedAnew(k, health) == [source EXCEPT ![k] = health]

\* MarkWebSourceOK and MarkWebSourceFailed are UPDATEs: no row, no effect.
Marked(k, health) == [source EXCEPT ![k] = IF @ = "none" THEN "none" ELSE health]

MarkOK(c) ==
    /\ Playing(c, "worked")
    /\ source' = Marked(play[c].key, "ok")
    /\ Move(c, "keep")
    /\ UNCHANGED <<mutex, call, cached, cooldown, extracting, admin>>

Keep(c) ==
    /\ Playing(c, "keep")
    /\ cached' = cached \cup {play[c].key}
    /\ Release(c)
    /\ Move(c, "fetch")
    /\ UNCHANGED <<source, cooldown, extracting, admin>>

\* The failure is recorded, and the link is in cooldown unless the error is
\* context.Canceled.
ResolveFailed(c) ==
    /\ play[c].at \in {"failed", "hungup", "canceled"}
    /\ source' = Marked(play[c].key, "failed")
    /\ cooldown' = IF Playing(c, "canceled") THEN cooldown ELSE cooldown \cup {play[c].key}
    /\ Release(c)
    /\ End(c)
    /\ UNCHANGED <<cached, extracting, admin>>

\* The site answers, whatever it is, and the answer is relayed; the lock is
\* long free.
Fetched(c) ==
    /\ Playing(c, "fetch")
    /\ Move(c, "stream")
    /\ UNCHANGED <<mutex, call, source, cached, cooldown, extracting, admin>>

\* 403 or 410, the first time: the cached URL is thrown away and resolve is
\* called once more, with force.
Refused(c) ==
    /\ Playing(c, "fetch") /\ ~play[c].force
    /\ cached' = cached \ {play[c].key}
    /\ play' = [play EXCEPT ![c] = [@ EXCEPT !.at = "look", !.force = TRUE]]
    /\ UNCHANGED <<mutex, call, source, cooldown, extracting, admin>>

\* The response has been relayed to its end, or the site is out of reach.
PlayEnds(c) ==
    /\ play[c].at \in {"fetch", "stream"}
    /\ End(c)
    /\ UNCHANGED <<mutex, call, source, cached, cooldown, extracting, admin>>

Goroutine(c) ==
    /\ Grant(c) \/ HandBack(c)
    /\ UNCHANGED <<source, cached, cooldown, extracting, play, admin>>

Handle(c) ==
    \/ \E k \in Keys : Request(c, k)
    \/ CacheHit(c) \/ Queue(c) \/ WaitOver(c) \/ Admitted(c)
    \/ CacheHitAgain(c) \/ CacheMissAgain(c) \/ NotBlocked(c) \/ Blocked(c)
    \/ TakeSlot(c) \/ SlotCanceled(c) \/ ExtractEnds(c) \/ MarkOK(c) \/ Keep(c) \/ ResolveFailed(c)
    \/ Fetched(c) \/ Refused(c) \/ PlayEnds(c)

-----------------------------------------------------------------------------
(* The dashboard *)

Acting(a, at) == admin[a].at = at
Turn(a, at) == admin' = [admin EXCEPT ![a] = [@ EXCEPT !.at = at]]
Rest(a) == admin' = [admin EXCEPT ![a] = Resting]

\* A preview or an add begins with an extraction of its own, outside the lock.
Paste(a, k) ==
    /\ Acting(a, "idle")
    /\ admin' = [admin EXCEPT ![a] = [at |-> "slot", key |-> k]]
    /\ UNCHANGED <<mutex, call, source, cached, cooldown, extracting, play>>

AdminTakesSlot(a) ==
    /\ Acting(a, "slot") /\ HasRoom
    /\ extracting' = extracting \cup {a}
    /\ Turn(a, "extract")
    /\ UNCHANGED <<mutex, call, source, cached, cooldown, play>>

AdminGivesUp(a) ==
    /\ Acting(a, "slot")
    /\ Rest(a)
    /\ UNCHANGED <<mutex, call, source, cached, cooldown, extracting, play>>

\* It failed, or it was a preview; or the link is to be added.
AdminExtracts(a) ==
    /\ Acting(a, "extract")
    /\ extracting' = extracting \ {a}
    /\ Rest(a) \/ Turn(a, "upsert")
    /\ UNCHANGED <<mutex, call, source, cached, cooldown, play>>

\* UpsertWebSource, which clears the error; or it fails.
AddLink(a) ==
    /\ Acting(a, "upsert")
    /\ \/ source' = [source EXCEPT ![admin[a].key] = "ok"]
       \/ UNCHANGED source
    /\ Rest(a)
    /\ UNCHANGED <<mutex, call, cached, cooldown, extracting, play>>

\* DELETE: DeleteWebSource, then invalidate; or the first fails.
Remove(a, k) ==
    /\ Acting(a, "idle")
    /\ admin' = [admin EXCEPT ![a] = [at |-> "delete", key |-> k]]
    /\ UNCHANGED <<mutex, call, source, cached, cooldown, extracting, play>>

DeleteLink(a) ==
    /\ Acting(a, "delete")
    /\ \/ /\ source' = [source EXCEPT ![admin[a].key] = "none"]
          /\ Turn(a, "forget")
       \/ /\ UNCHANGED source
          /\ Rest(a)
    /\ UNCHANGED <<mutex, call, cached, cooldown, extracting, play>>

Invalidate(a) ==
    /\ Acting(a, "forget")
    /\ cached' = cached \ {admin[a].key}
    /\ Rest(a)
    /\ UNCHANGED <<mutex, call, source, cooldown, extracting, play>>

\* The status page asks yt-dlp for its version, and takes no slot for that.
Status(a) ==
    /\ Acting(a, "idle")
    /\ Turn(a, "version")
    /\ UNCHANGED <<mutex, call, source, cached, cooldown, extracting, play>>

Version(a) ==
    /\ Acting(a, "version")
    /\ Rest(a)
    /\ UNCHANGED <<mutex, call, source, cached, cooldown, extracting, play>>

Administer(a) ==
    \/ \E k \in Keys : Paste(a, k) \/ Remove(a, k)
    \/ Status(a) \/ Version(a)
    \/ AdminTakesSlot(a) \/ AdminGivesUp(a) \/ AdminExtracts(a)
    \/ AddLink(a) \/ DeleteLink(a) \/ Invalidate(a)

\* The clock: ten minutes for a cached URL, one for a cooldown.
Expire(k) ==
    /\ \/ k \in cached /\ cached' = cached \ {k} /\ UNCHANGED cooldown
       \/ k \in cooldown /\ cooldown' = cooldown \ {k} /\ UNCHANGED cached
    /\ UNCHANGED <<mutex, call, source, extracting, play, admin>>

Next ==
    \/ \E c \in Calls : Handle(c) \/ Goroutine(c)
    \/ \E a \in Admins : Administer(a)
    \/ \E k \in Keys : Expire(k)

Spec == Init /\ [][Next]_vars

\* Handlers run.  An extraction ends within its timeout, a fetch within those
\* of its transport, and a stream when the film does.  The waiters for a slot
\* are served in order (a channel's senders queue), those for the mutex are not
\* starved.  Nobody is obliged to hang up, to ask for anything, or to expire.
Fairness ==
    /\ \A c \in Calls :
        /\ WF_vars(CacheHit(c) \/ Queue(c)) /\ WF_vars(Admitted(c) \/ (At(c, "granted") /\ WaitOver(c)))
        /\ WF_vars(CacheHitAgain(c) \/ CacheMissAgain(c)) /\ WF_vars(NotBlocked(c) \/ Blocked(c))
        /\ SF_vars(TakeSlot(c)) /\ WF_vars(ExtractEnds(c)) /\ WF_vars(MarkOK(c)) /\ WF_vars(Keep(c))
        /\ WF_vars(ResolveFailed(c)) /\ WF_vars(Fetched(c)) /\ WF_vars(PlayEnds(c))
        /\ SF_vars(Grant(c) /\ Goroutine(c)) /\ WF_vars(HandBack(c) /\ Goroutine(c))
    /\ \A a \in Admins : WF_vars(AdminExtracts(a))

FairSpec == Spec /\ Fairness

-----------------------------------------------------------------------------

\* At most one request at a time has yt-dlp at work, or is about to, for a
\* link, forced or not, whoever hangs up in the queue (websources.go:70-72).
Resolving(c) == play[c].at \in {"again", "cool", "slot", "extract", "worked", "keep",
                                "failed", "hungup", "canceled"}
OneResolve ==
    \A c, d \in Calls : Resolving(c) /\ Resolving(d) /\ play[c].key = play[d].key => c = d

\* A link that just failed is not extracted again by a request that is not
\* forced, one that queued while it failed included (websources.go:74-79, 228).
FailureIsServedBack ==
    \A c \in Calls :
        play[c].at \in {"slot", "extract"} /\ ~play[c].force => play[c].key \notin cooldown

\* The yt-dlp processes that run.
Processes == {c \in Calls : Playing(c, "extract")}
             \cup {a \in Admins : admin[a].at \in {"extract", "version"}}

\* The budget bounds the yt-dlp processes of play, preview and add, and its
\* slots are held by running ones only: no way out of inspect loses one
\* (websources.go:155-168).  It is not the bound on all of them that the comment
\* at websources.go:81-84 promises: the status page starts yt-dlp outside the
\* budget (websources.go:601), and its processes are the exception here.
SlotsAreReturned ==
    /\ Cardinality(extracting) <= Slots
    /\ Processes = extracting \cup {a \in Admins : Acting(a, "version")}

\* A link that was removed comes back only when it is added again: a resolve
\* that was under way finds no row to mark (store/websources.go:198-216).
RemovedStaysRemoved ==
    [][\A k \in Keys : source[k] = "none" /\ source'[k] # "none" =>
          \E a \in Admins : Acting(a, "upsert") /\ admin[a].key = k]_vars

\* Every request is answered: neither the queue for the link nor the one for
\* a slot, which the first one's holder waits in, holds anybody up for ever.
RequestsAreAnswered ==
    \A c \in Calls : []<>(play[c].at \in {"idle", "stream"})

-----------------------------------------------------------------------------
(* What its comment says of it, and the code does not do *)

\* websources.go:244: a client that hung up in the middle of a resolve does not
\* put the link into cooldown.
HangUpIsNoFailure ==
    [][\A c \in Calls : Playing(c, "hungup") /\ ~Playing(c, "hungup")' => cooldown' = cooldown]_vars
=============================================================================
