------------------------------ MODULE PreWarm ------------------------------
(***************************************************************************)
(* Pre-warming (cmd/orchestrator/main.go, preWarmNext and cancelWarm):     *)
(* when a player comes near the end of an episode, a goroutine resolves    *)
(* the next one and keeps its torrent loaded until that episode is played  *)
(* or twelve minutes have passed.                                          *)
(*                                                                         *)
(* preWarmCancels is the registry: for each episode the cancel function of *)
(* the goroutine that keeps it warm.  A cancelled goroutine is not gone.   *)
(* It notices at its next look at the context, which a step of the resolve *)
(* may put off, and its deferred cancelWarm runs only then.                *)
(*                                                                         *)
(* Abstractions.  An episode here is the one that is warmed.  The release  *)
(* is left out: a goroutine either gets one that stays loaded, or ends.    *)
(* What it writes into the library row (cacheResolved) is one of the       *)
(* changes module ResolveAtPlay allows anybody.                            *)
(***************************************************************************)
CONSTANTS
    Episodes,   \* episodes that can be warmed
    Loops,      \* goroutines of preWarmNext
    NoLoop      \* no entry in the registry

ASSUME PreWarmAssumption ==
    /\ NoLoop \notin Loops
    /\ Episodes # {}

VARIABLES
    preWarmCancels,   \* for each episode the goroutine its entry cancels
    loop              \* the goroutines: episode, progress, context

vars == <<preWarmCancels, loop>>

\* "off": no such goroutine; "begun": yet to look at the registry; then
\* the library, EnsureLoaded, resolvePlayable, the keep-warm loop, and the
\* return whose deferred cancelWarm has yet to run
Stages == {"off", "begun", "lookup", "load", "resolve", "hot", "return"}
Running == {"lookup", "load", "resolve", "hot", "return"}

Loop == [at: Stages, episode: Episodes, cancelled: BOOLEAN]
Off == [at |-> "off", episode |-> CHOOSE e \in Episodes : TRUE, cancelled |-> FALSE]

TypeOK ==
    /\ preWarmCancels \in [Episodes -> Loops \cup {NoLoop}]
    /\ loop \in [Loops -> Loop]

Init ==
    /\ preWarmCancels = [e \in Episodes |-> NoLoop]
    /\ loop = [l \in Loops |-> Off]

-----------------------------------------------------------------------------

At(l, stage) == loop[l].at = stage
Move(l, stage) == loop' = [loop EXCEPT ![l] = [@ EXCEPT !.at = stage]]
Live(l) == loop[l].at \in Running /\ ~loop[l].cancelled

\* cancelWarm(e): the entry's context is cancelled and the entry deleted.
Cancelled(e) == [l \in Loops |-> IF preWarmCancels[e] = l THEN [loop[l] EXCEPT !.cancelled = TRUE]
                                 ELSE loop[l]]
Removed(e) == [preWarmCancels EXCEPT ![e] = NoLoop]

\* maybePreWarm: the player reads the last fifth of the episode before e.
NearEnd(e) ==
    \E l \in Loops :
        /\ At(l, "off")
        /\ loop' = [loop EXCEPT ![l] = [at |-> "begun", episode |-> e, cancelled |-> FALSE]]
        /\ UNCHANGED preWarmCancels

\* (mutant: the registry is written without being looked at)
RegisterBlindly(l) ==
    /\ At(l, "begun")
    /\ Move(l, "lookup")
    /\ preWarmCancels' = [preWarmCancels EXCEPT ![loop[l].episode] = l]

\* The registry is looked at and written under one lock: a second goroutine
\* for the episode ends here, before its cancelWarm is deferred.
Register(l) ==
    /\ At(l, "begun")
    /\ IF preWarmCancels[loop[l].episode] # NoLoop
         THEN /\ loop' = [loop EXCEPT ![l] = Off]
              /\ UNCHANGED preWarmCancels
         ELSE /\ Move(l, "lookup")
              /\ preWarmCancels' = [preWarmCancels EXCEPT ![loop[l].episode] = l]

\* GetByIdentity: the next episode is in the library, or there is nothing to
\* warm (or the lookup failed).
LookUp(l) ==
    /\ At(l, "lookup")
    /\ Move(l, "load") \/ Move(l, "return")
    /\ UNCHANGED preWarmCancels

\* EnsureLoaded and resolveFileIndex over the cached release; a cancelled
\* context makes EnsureLoaded give up, which leads to the resolve.
Load(l) ==
    /\ At(l, "load")
    /\ Move(l, "resolve") \/ Move(l, "hot")
    /\ UNCHANGED preWarmCancels

\* resolvePlayable, in the end: a release, or none, or the context's error.  It
\* may find one after the cancel: the context is looked at between its steps.
Resolve(l) ==
    /\ At(l, "resolve")
    /\ Move(l, "hot") \/ Move(l, "return")
    /\ UNCHANGED preWarmCancels

\* The keep-warm loop ends: cancelled, or at its twelve minutes.
Cool(l) ==
    /\ At(l, "hot")
    /\ Move(l, "return")
    /\ UNCHANGED preWarmCancels

\* (mutant: an early return that skips the deferred cancelWarm)
LeaveEntry(l) ==
    /\ At(l, "return")
    /\ loop' = [loop EXCEPT ![l] = Off]
    /\ UNCHANGED preWarmCancels

\* The deferred cancelWarm, which asks for the episode and not for its caller.
Return(l) ==
    /\ At(l, "return")
    /\ loop' = [Cancelled(loop[l].episode) EXCEPT ![l] = Off]
    /\ preWarmCancels' = Removed(loop[l].episode)

\* (mutant: the entry is deleted and its context is not cancelled)
PlayWithoutCancel(e) ==
    /\ preWarmCancels' = Removed(e)
    /\ UNCHANGED loop

\* /play of the episode itself calls cancelWarm first.
Play(e) ==
    /\ preWarmCancels' = Removed(e)
    /\ loop' = Cancelled(e)

Goroutine(l) == Register(l) \/ LookUp(l) \/ Load(l) \/ Resolve(l) \/ Cool(l) \/ Return(l)

Next ==
    \/ \E l \in Loops : Goroutine(l)
    \/ \E e \in Episodes : NearEnd(e) \/ Play(e)

Spec == Init /\ [][Next]_vars

-----------------------------------------------------------------------------

\* Only one keep-warm loop per episode runs at a time (main.go:3657): the
\* others that still exist have been cancelled, however late they notice.
OneWarm ==
    \A l, m \in Loops :
        Live(l) /\ Live(m) /\ loop[l].episode = loop[m].episode => l = m

\* An entry belongs to a goroutine that is there, has not been cancelled and
\* will remove it: one that outlived its goroutine would answer 'busy' for the
\* episode until the process ends.
EntriesAreLive ==
    \A e \in Episodes : preWarmCancels[e] # NoLoop =>
        Live(preWarmCancels[e]) /\ loop[preWarmCancels[e]].episode = e

\* Playing an episode ends its pre-warming (main.go:3666): whichever goroutine
\* has registered for it, whatever other cancels came before, none is left that
\* goes on warming beside the player.
PlayTakesOver ==
    [][\A e \in Episodes : Play(e) =>
         \A l \in Loops : loop[l].episode = e => ~Live(l)']_vars
=============================================================================
