-------------------------------- MODULE Limits --------------------------------
(***************************************************************************)
(* The limiter of failed logins (internal/api/ratelimit.go) and the two    *)
(* handlers that ask it (internal/api/auth.go, LoginHandler and            *)
(* APILoginHandler): ask, compare the password with bcrypt, report.        *)
(*                                                                         *)
(* Failures are counted for the address and for the name that was tried.   *)
(* Several attempts may be between asking and reporting at once, buckets   *)
(* age and are swept, and a success forgets both counts.                   *)
(*                                                                         *)
(* Abstractions.  Time is a number of ticks.  A password is right or not.  *)
(***************************************************************************)
EXTENDS Naturals, FiniteSets, FiniteSetsExt

CONSTANTS
    Addresses, Names,
    Handlers,             \* attempts under way at once
    Burst,                \* failures before the backoff begins
    Window, MaxWait,      \* for how long a failure counts; the longest backoff
    SweepAt,              \* 1024: buckets from which on gc sweeps
    MaxTime, MaxFailures, \* bounds: ticks, and failures counted in a bucket
    none

VARIABLES
    now,
    buckets,  \* by address and by name
    trying,   \* the attempt of each handler that was let through
    streak    \* ghost: of each address, its failures since its last success, each within
              \* Window of the one before it, and when the last was

vars == <<now, buckets, trying, streak>>

Keys == Addresses \cup Names
Counts == [failures : 0 .. MaxFailures, last : 0 .. MaxTime]
Buckets == [failures : 0 .. MaxFailures, last : 0 .. MaxTime, blocked : 0 .. MaxTime + MaxWait]

TypeOK ==
    /\ now \in 0 .. MaxTime
    /\ buckets \in [Keys -> Buckets \cup {none}]
    /\ trying \in [Handlers -> (Addresses \X Names) \cup {none}]
    /\ streak \in [Addresses -> Counts]

Init ==
    /\ now = 0
    /\ buckets = [k \in Keys |-> none]
    /\ trying = [h \in Handlers |-> none]
    /\ streak = [a \in Addresses |-> [failures |-> 0, last |-> 0]]

Tick ==
    /\ now < MaxTime
    /\ now' = now + 1
    /\ UNCHANGED <<buckets, trying, streak>>

\* gc: buckets that have aged out are dropped once there are many.
Swept ==
    IF Cardinality({k \in Keys : buckets[k] # none}) < SweepAt THEN buckets
    ELSE [k \in Keys |-> IF /\ buckets[k] # none
                            /\ now - buckets[k].last > Window /\ now > buckets[k].blocked
                         THEN none ELSE buckets[k]]

Blocked(b) == b # none /\ now < b.blocked

\* (mutant: the name binds every address)
RefusedByName(table, a, n) == Blocked(table[a]) \/ Blocked(table[n])

\* Allow: the name only binds an address that has failed.
Refused(table, a, n) ==
    \/ Blocked(table[a])
    \/ table[a] # none /\ table[a].failures > 0 /\ Blocked(table[n])

\* Allow, and on to the password.
Attempt(h, a, n) ==
    /\ trying[h] = none
    /\ buckets' = Swept
    /\ trying' = IF Refused(Swept, a, n) THEN trying ELSE [trying EXCEPT ![h] = <<a, n>>]
    /\ UNCHANGED <<now, streak>>

\* time.Second << n
Shifted[n \in 0 .. 20] == IF n = 0 THEN 1 ELSE 2 * Shifted[n - 1]

\* 1, 2, 4, ... past the burst, capped.
Backoff(failures) == Min({Shifted[Min({failures - Burst - 1, 20})], MaxWait})

\* One more failure, or the first again if the last one is too long ago.
Counted(c) ==
    [failures |-> IF c.failures = 0 \/ now - c.last > Window THEN 1 ELSE c.failures + 1, last |-> now]

Failed(b) ==
    LET old == IF b = none \/ now - b.last > Window THEN [failures |-> 0, last |-> 0, blocked |-> 0] ELSE b
        new == Counted(old)
    IN  [failures |-> new.failures, last |-> now,
         blocked |-> IF new.failures > Burst THEN now + Backoff(new.failures) ELSE old.blocked]

\* Fail: the password, or the name, is wrong.
Wrong(h) ==
    /\ trying[h] # none
    /\ LET a == trying[h][1]  n == trying[h][2] IN
           /\ \A k \in {a, n} : Swept[k] # none => Swept[k].failures < MaxFailures
           /\ buckets' = [k \in Keys |-> IF k \in {a, n} THEN Failed(Swept[k]) ELSE Swept[k]]
           /\ streak' = [streak EXCEPT ![a] = Counted(@)]
    /\ trying' = [trying EXCEPT ![h] = none]
    /\ UNCHANGED now

\* Succeed: both counts are forgotten.
Right(h) ==
    /\ trying[h] # none
    /\ LET a == trying[h][1]  n == trying[h][2] IN
           /\ buckets' = [buckets EXCEPT ![a] = none, ![n] = none]
           /\ streak' = [streak EXCEPT ![a] = [failures |-> 0, last |-> 0]]
    /\ trying' = [trying EXCEPT ![h] = none]
    /\ UNCHANGED now

Next ==
    \/ Tick
    \/ \E h \in Handlers :
           \/ \E a \in Addresses, n \in Names : Attempt(h, a, n)
           \/ Wrong(h) \/ Right(h)

Spec == Init /\ [][Next]_vars

-----------------------------------------------------------------------------

\* Whatever others try, an address that has not failed since it last got in is let
\* through under every name (ratelimit.go:27: "A clean IP is never refused because of
\* somebody else's attack on that name"), and one that failed too often is not let
\* through under any before its backoff is over, however many attempts were under way
\* at once and whatever was swept.
OnlyOffendersWait ==
    \A a \in Addresses, n \in Names :
        /\ streak[a].failures = 0 => ~Refused(Swept, a, n)
        /\ streak[a].failures > Burst /\ now < streak[a].last + Backoff(streak[a].failures)
           => Refused(Swept, a, n)
=============================================================================
