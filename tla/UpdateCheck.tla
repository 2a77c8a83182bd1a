----------------------------- MODULE UpdateCheck -----------------------------
(***************************************************************************)
(* The cached update check (internal/update/check.go): every load of the   *)
(* dashboard calls it, so GitHub is asked at most once while an answer is  *)
(* fresh -- a success for long, a failure for a short time -- however many *)
(* pages ask at once; a page may ask for a refresh.  What an answer says   *)
(* is in module Updater.                                                   *)
(***************************************************************************)
EXTENDS Integers

CONSTANTS
    Pages,       \* goroutines of GET /api/update/check
    CacheTTL, FailureTTL,
    MaxTime,     \* bound: the clock stops there
    MaxForced,   \* bound: refreshes
    none

VARIABLES
    now,
    cachedAt, cachedOK,  \* the cache; never filled: none
    page,        \* each goroutine: "rest", "wait" (for the lock), "recheck", "fetch"
    forced,      \* its refresh argument
    asked,       \* history: requests to GitHub that no page had forced
    failed,      \* history: requests that failed
    refreshes    \* history: refreshes

vars == <<now, cachedAt, cachedOK, page, forced, asked, failed, refreshes>>

TypeOK ==
    /\ now \in 0 .. MaxTime
    /\ cachedAt \in (0 .. MaxTime) \cup {none} /\ cachedOK \in BOOLEAN
    /\ page \in [Pages -> {"rest", "wait", "recheck", "fetch"}]
    /\ forced \in [Pages -> BOOLEAN]
    /\ asked \in Nat /\ failed \in Nat /\ refreshes \in 0 .. MaxForced

Init ==
    /\ now = 0
    /\ cachedAt = none /\ cachedOK = FALSE
    /\ page = [p \in Pages |-> "rest"]
    /\ forced = [p \in Pages |-> FALSE]
    /\ asked = 0 /\ failed = 0 /\ refreshes = 0

Tick ==
    /\ now < MaxTime
    /\ now' = now + 1
    /\ UNCHANGED <<cachedAt, cachedOK, page, forced, asked, failed, refreshes>>

\* cachedResult.
Fresh ==
    /\ cachedAt # none
    /\ now - cachedAt < (IF cachedOK THEN CacheTTL ELSE FailureTTL)

To(p, stage) == page' = [page EXCEPT ![p] = stage]

\* The first look at the cache.  One that is served from it changes nothing.
Ask(p) ==
    /\ page[p] = "rest" /\ ~Fresh
    /\ To(p, "wait")
    /\ forced' = [forced EXCEPT ![p] = FALSE]
    /\ UNCHANGED <<now, cachedAt, cachedOK, asked, failed, refreshes>>

Refresh(p) ==
    /\ page[p] = "rest" /\ refreshes < MaxForced
    /\ refreshes' = refreshes + 1
    /\ To(p, "wait")
    /\ forced' = [forced EXCEPT ![p] = TRUE]
    /\ UNCHANGED <<now, cachedAt, cachedOK, asked, failed>>

\* fetch.Lock.
Lock(p) ==
    /\ page[p] = "wait"
    /\ \A q \in Pages : page[q] \notin {"recheck", "fetch"}
    /\ To(p, "recheck")
    /\ UNCHANGED <<now, cachedAt, cachedOK, forced, asked, failed, refreshes>>

\* (mutant: whoever has waited for the lock asks GitHub)
Impatient(p) == FALSE

\* Has another page refreshed the cache meanwhile?
Served(p) == ~forced[p] /\ Fresh

Recheck(p) ==
    /\ page[p] = "recheck"
    /\ IF Served(p) THEN To(p, "rest") /\ UNCHANGED asked
       ELSE To(p, "fetch") /\ asked' = asked + (IF forced[p] THEN 0 ELSE 1)
    /\ UNCHANGED <<now, cachedAt, cachedOK, forced, failed, refreshes>>

\* The result of live is cached, whatever it is.
Fetched(p, ok) ==
    /\ page[p] = "fetch"
    /\ cachedAt' = now /\ cachedOK' = ok
    /\ failed' = failed + (IF ok THEN 0 ELSE 1)
    /\ To(p, "rest")
    /\ UNCHANGED <<now, forced, asked, refreshes>>

Next ==
    \/ Tick
    \/ \E p \in Pages : Ask(p) \/ Refresh(p) \/ Lock(p) \/ Recheck(p)
    \/ \E p \in Pages, ok \in BOOLEAN : Fetched(p, ok)

Spec == Init /\ [][Next]_vars

-----------------------------------------------------------------------------

\* However many pages are loaded, and whenever: unless a refresh is asked for, GitHub
\* gets one request per FailureTTL at most, and one per CacheTTL but for those that
\* follow a failure ("N dashboards loading at once after the TTL expires produce ONE
\* request to GitHub, not N", check.go:66).
OneRequest ==
    /\ asked <= 1 + now \div FailureTTL
    /\ asked <= 1 + failed + now \div CacheTTL
=============================================================================
