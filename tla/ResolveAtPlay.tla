--------------------------- MODULE ResolveAtPlay ---------------------------
(***************************************************************************)
(* GET /play (cmd/orchestrator/main.go, playHandler): the fast path over   *)
(* the release cached in the library row, and the slow path that resolves  *)
(* another one when the cached release is dead, with what keeps the slow   *)
(* path from being paid for too often: resolveGroup, one attempt per title *)
(* at a time, and resolveCooldown, none shortly after one that failed.     *)
(*                                                                         *)
(* A request is named after its call of lock().  Its slot is free again    *)
(* when it has ended AND the goroutines lock() left behind are gone.       *)
(*                                                                         *)
(* Abstractions.  A key is the play identity and its library row, of which *)
(* the model keeps the release, NoRelease when there is no row; at any     *)
(* moment a cached release may be found alive or dead.  Capability tokens, *)
(* HEAD requests, web sources and identities of other providers are turned *)
(* away before this path and left out.                                     *)
(***************************************************************************)
EXTENDS ResolveGroup

CONSTANTS
    Releases,   \* releases, each with its info hash
    NoRelease   \* no library row

ASSUME ResolveAtPlayAssumption == NoRelease \notin Releases

VARIABLES
    item,       \* for each key the release its library row caches
    cooldown,   \* the keys in cooldown
    play        \* the requests: how far each is, its key and its copy of the row

vars == <<mutex, call, item, cooldown, play>>

Cached == Releases \cup {NoRelease}
Steps == {"idle", "fast", "missed", "slow", "retry", "resolve", "stream"}
Idle == [at |-> "idle", key |-> NoKey, copy |-> NoRelease, fresh |-> NoRelease]

TypeOK ==
    /\ GroupTypeOK
    /\ item \in [Keys -> Cached]
    /\ cooldown \subseteq Keys
    /\ play \in [Calls -> [at: Steps, key: Keys \cup {NoKey}, copy: Cached, fresh: Cached]]

Init ==
    /\ GroupInit
    /\ item \in [Keys -> Cached]
    /\ cooldown = {}
    /\ play = [c \in Calls |-> Idle]

-----------------------------------------------------------------------------

Playing(c, at) == play[c].at = at
Move(c, at) == play' = [play EXCEPT ![c] = [@ EXCEPT !.at = at]]
Stream(c) == play' = [play EXCEPT ![c] = [@ EXCEPT !.at = "stream", !.copy = NoRelease,
                                                 !.fresh = NoRelease]]
End(c) == play' = [play EXCEPT ![c] = Idle]

\* GetByProviderIdentity: the handler keeps a copy of the row.
Request(c, k) ==
    /\ Playing(c, "idle") /\ At(c, "out")
    /\ play' = [play EXCEPT ![c] = [at |-> "fast", key |-> k, copy |-> item[k],
                                    fresh |-> NoRelease]]
    /\ UNCHANGED <<mutex, call, item, cooldown>>

\* tryCached over a copy of a row finds the release alive.  A corrected file
\* index is saved by writing the copy back.
TryCached(c, copy) ==
    /\ copy # NoRelease
    /\ Stream(c)
    /\ \/ UNCHANGED item
       \/ item' = [item EXCEPT ![play[c].key] = copy]

FastHit(c) ==
    /\ Playing(c, "fast")
    /\ TryCached(c, play[c].copy)
    /\ UNCHANGED <<mutex, call, cooldown>>

FastMiss(c) ==
    /\ Playing(c, "fast")
    /\ Move(c, "missed")
    /\ UNCHANGED <<mutex, call, item, cooldown>>

\* The client hung up while the cached release was tried, or this title failed
\* a moment ago and the answer is served back.
TurnedAway(c) ==
    /\ Playing(c, "fast") \/ (Playing(c, "missed") /\ play[c].key \in cooldown)
    /\ End(c)
    /\ UNCHANGED <<mutex, call, item, cooldown>>

\* cooldown.blocked said no; resolves.lock is called.
Queue(c) ==
    /\ Playing(c, "missed") /\ play[c].key \notin cooldown
    /\ Lock(c, play[c].key)
    /\ Move(c, "slow")
    /\ UNCHANGED <<item, cooldown>>

WaitOver(c) ==
    /\ Playing(c, "slow")
    /\ GiveUp(c)
    /\ End(c)
    /\ UNCHANGED <<item, cooldown>>

\* The lock is ours.  The fast path is tried again only if the row now caches
\* another release than the copy.
Admitted(c) ==
    /\ Playing(c, "slow")
    /\ Enter(c)
    /\ LET p == play[c] IN
       IF item[p.key] # NoRelease /\ p.copy # NoRelease /\ item[p.key] # p.copy
         THEN play' = [play EXCEPT ![c] = [p EXCEPT !.at = "retry", !.fresh = item[p.key]]]
         ELSE Move(c, "resolve")
    /\ UNCHANGED <<item, cooldown>>

RetryHit(c) ==
    /\ Playing(c, "retry")
    /\ TryCached(c, play[c].fresh)
    /\ UNCHANGED <<mutex, call, cooldown>>

RetryMiss(c) ==
    /\ Playing(c, "retry")
    /\ Move(c, "resolve")
    /\ UNCHANGED <<mutex, call, item, cooldown>>

\* resolvePlayable found a release; cacheResolved writes it into the copy of
\* the row and the copy into the library, if there was a row.
Resolved(c) ==
    /\ Playing(c, "resolve")
    /\ \E r \in Releases :
         item' = IF play[c].copy = NoRelease THEN item
                 ELSE [item EXCEPT ![play[c].key] = r]
    /\ Stream(c)
    /\ cooldown' = cooldown \ {play[c].key}
    /\ UNCHANGED <<mutex, call>>

\* It found none, or ran into its deadline, or the client hung up meanwhile:
\* the title goes into cooldown, and the deferred release runs.
ResolveFailed(c) ==
    /\ Playing(c, "resolve")
    /\ cooldown' = cooldown \cup {play[c].key}
    /\ Release(c)
    /\ End(c)
    /\ UNCHANGED <<item>>

\* The response has been copied to its end, or the player went away.  A request
\* that took the lock holds it until here: release() is deferred.
StreamEnds(c) ==
    /\ Playing(c, "stream")
    /\ IF At(c, "inside") THEN Release(c) ELSE UNCHANGED <<mutex, call>>
    /\ End(c)
    /\ UNCHANGED <<item, cooldown>>

\* The goroutines of lock().
Goroutine(c) ==
    /\ Grant(c) \/ HandBack(c)
    /\ UNCHANGED <<item, cooldown, play>>

\* The clock, and whoever else writes or removes the library row.
CooldownExpires(k) ==
    /\ k \in cooldown
    /\ cooldown' = cooldown \ {k}
    /\ UNCHANGED <<mutex, call, item, play>>
LibraryChanges(k, r) ==
    /\ item' = [item EXCEPT ![k] = r]
    /\ UNCHANGED <<mutex, call, cooldown, play>>

Handle(c) ==
    \/ \E k \in Keys : Request(c, k)
    \/ FastHit(c) \/ FastMiss(c) \/ TurnedAway(c) \/ Queue(c) \/ WaitOver(c) \/ Admitted(c)
    \/ RetryHit(c) \/ RetryMiss(c) \/ Resolved(c) \/ ResolveFailed(c) \/ StreamEnds(c)

Next ==
    \/ \E c \in Calls : Handle(c) \/ Goroutine(c)
    \/ \E k \in Keys : CooldownExpires(k) \/ \E r \in Cached : LibraryChanges(k, r)

Spec == Init /\ [][Next]_vars

\* A handler runs to its end: every wait in it has a deadline, and a player
\* stops some day.  Nobody is obliged to leave the queue before its turn: who
\* waits is to be served by those in front, not by its own deadline.  A
\* goroutine that waits for a mutex is not starved (sync.Mutex hands it over
\* to the one at the head of the queue after a millisecond).
Fairness ==
    \A c \in Calls :
        /\ WF_vars(FastMiss(c)) /\ WF_vars(Playing(c, "missed") /\ (Queue(c) \/ TurnedAway(c)))
        /\ WF_vars(Admitted(c) \/ (At(c, "granted") /\ WaitOver(c)))
        /\ WF_vars(RetryMiss(c)) /\ WF_vars(ResolveFailed(c)) /\ WF_vars(StreamEnds(c))
        /\ SF_vars(Grant(c) /\ Goroutine(c)) /\ WF_vars(HandBack(c) /\ Goroutine(c))

FairSpec == Spec /\ Fairness

-----------------------------------------------------------------------------

\* At most one request at a time runs the slow path of a title, whatever
\* waiters give up, and whenever they do (serve_test.go:85).
SingleResolve ==
    \A c, d \in Calls :
        /\ play[c].at \in {"retry", "resolve"} /\ play[d].at \in {"retry", "resolve"}
        /\ play[c].key = play[d].key
        => c = d

\* A request that waits gets its turn even if it never gives up: no abandoned
\* waiter, failed resolve or finished stream leaves the title locked.
WaitersAreServed == \A c \in Calls : []<>~Playing(c, "slow")
=============================================================================
