---------------------------- MODULE ResolveGroup ----------------------------
(***************************************************************************)
(* resolveGroup (cmd/orchestrator/serve.go): one mutex per key, and a      *)
(* lock() that honours a context.                                          *)
(*                                                                         *)
(* sync.Mutex cannot be waited for with a deadline, so lock() starts a     *)
(* goroutine that waits for it, and selects between that goroutine and the *)
(* context.  A caller whose context ends first leaves; a second goroutine  *)
(* stays behind to hand the mutex back when the first one gets it.  A      *)
(* "call" here is one such call of lock() with its goroutines: the caller  *)
(* may be long gone while its goroutines still wait in the mutex's queue.  *)
(***************************************************************************)
CONSTANTS
    Calls,    \* calls of lock() in progress
    Keys,     \* play identities
    Nobody,   \* a mutex that is free
    NoKey     \* the key of a call that waits for nothing

ASSUME ResolveGroupAssumption ==
    /\ Nobody \notin Calls
    /\ NoKey \notin Keys

VARIABLES
    mutex,    \* for each key the call whose goroutine has it, or Nobody
    call      \* for each call its key and how far it has come

groupVars == <<mutex, call>>

\* "out":      no call
\* "waiting":  the caller selects, its goroutine waits for the mutex
\* "granted":  the goroutine has the mutex and closed done, the caller has not looked
\* "inside":   the caller has the mutex and has yet to release it
\* "deserted": the caller has left, its goroutine still waits
\* "orphaned": the caller has left, its goroutine has the mutex
Stages == {"out", "waiting", "granted", "inside", "deserted", "orphaned"}
Out == [at |-> "out", key |-> NoKey]

GroupTypeOK ==
    /\ mutex \in [Keys -> Calls \cup {Nobody}]
    /\ call \in [Calls -> [at: Stages, key: Keys \cup {NoKey}]]

GroupInit ==
    /\ mutex = [k \in Keys |-> Nobody]
    /\ call = [c \in Calls |-> Out]

At(c, stage) == call[c].at = stage
GoTo(c, stage) == call' = [call EXCEPT ![c] = [@ EXCEPT !.at = stage]]

\* lock(ctx, key) is called: the map has, or gets, a mutex for the key.
Lock(c, k) ==
    /\ At(c, "out")
    /\ call' = [call EXCEPT ![c] = [at |-> "waiting", key |-> k]]
    /\ UNCHANGED mutex

\* (mutant: the mutex is handed out without being waited for)
GrantAnyway(c) ==
    /\ call[c].at \in {"waiting", "deserted"}
    /\ mutex' = [mutex EXCEPT ![call[c].key] = c]
    /\ GoTo(c, IF At(c, "waiting") THEN "granted" ELSE "orphaned")

\* mu.Lock() returns in the goroutine; close(done).
Grant(c) ==
    /\ call[c].at \in {"waiting", "deserted"}
    /\ mutex[call[c].key] = Nobody
    /\ mutex' = [mutex EXCEPT ![call[c].key] = c]
    /\ GoTo(c, IF At(c, "waiting") THEN "granted" ELSE "orphaned")

\* The select takes <-done.
Enter(c) ==
    /\ At(c, "granted")
    /\ GoTo(c, "inside")
    /\ UNCHANGED mutex

\* (mutant: the caller that leaves unlocks, whoever has the mutex)
GiveUpAndUnlock(c) ==
    /\ call[c].at \in {"waiting", "granted"}
    /\ GoTo(c, IF At(c, "waiting") THEN "deserted" ELSE "orphaned")
    /\ mutex' = [mutex EXCEPT ![call[c].key] = Nobody]

\* The select takes <-ctx.Done(), be done closed or not: lock returns false.
GiveUp(c) ==
    /\ call[c].at \in {"waiting", "granted"}
    /\ GoTo(c, IF At(c, "waiting") THEN "deserted" ELSE "orphaned")
    /\ UNCHANGED mutex

\* (mutant: the goroutine left behind returns without unlocking)
ForgetToHandBack(c) ==
    /\ At(c, "orphaned")
    /\ call' = [call EXCEPT ![c] = Out]
    /\ UNCHANGED mutex

\* The goroutine left behind: <-done; mu.Unlock().
HandBack(c) ==
    /\ At(c, "orphaned")
    /\ mutex' = [mutex EXCEPT ![call[c].key] = Nobody]
    /\ call' = [call EXCEPT ![c] = Out]

\* The deferred release() of a caller that is inside.
Release(c) ==
    /\ At(c, "inside")
    /\ mutex' = [mutex EXCEPT ![call[c].key] = Nobody]
    /\ call' = [call EXCEPT ![c] = Out]

GroupNext ==
    \E c \in Calls :
        \/ \E k \in Keys : Lock(c, k)
        \/ Grant(c) \/ Enter(c) \/ GiveUp(c) \/ HandBack(c) \/ Release(c)

GroupSpec == GroupInit /\ [][GroupNext]_groupVars

-----------------------------------------------------------------------------
(* The promise it keeps *)

\* Seen from the handlers: only a caller that is inside holds a key, and only
\* one that still listens is asking.  What its goroutines do is not seen.
Inside(k) == {c \in Calls : At(c, "inside") /\ call[c].key = k}
Holder == [k \in Keys |-> IF Inside(k) = {} THEN Nobody ELSE CHOOSE c \in Inside(k) : TRUE]
Asking == [c \in Calls |-> IF call[c].at \in {"waiting", "granted"} THEN call[c].key ELSE NoKey]

Promise == INSTANCE SingleFlight WITH holder <- Holder, asking <- Asking

\* Abandoned waiters, late grants and hand-backs included, the handlers see a
\* single-flight group (serve.go:118-132).
KeepsPromise == Promise!Spec

\* No two callers are inside for the same key.
OneInside == \A c, d \in Calls :
    At(c, "inside") /\ At(d, "inside") /\ call[c].key = call[d].key => c = d
=============================================================================
