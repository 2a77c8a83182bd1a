----------------------------- MODULE MCPlayback -----------------------------
(***************************************************************************)
(* What a viewer waits for: /play, and the queue when the database takes   *)
(* every write.  The two share no state; `part' says what a behaviour is   *)
(* of, and the other keeps its initial state, in which nothing is asked of *)
(* it.  Of the queue there are two kinds of behaviours: one user who asks  *)
(* again and again for a title, on a new database, and two requests that   *)
(* wait behind each other from the start, of any age of the database, with *)
(* re-picks that need not end.                                             *)
(***************************************************************************)
EXTENDS ResolveAtPlay, Naturals

CONSTANTS p1, p2, p3, movie, r1, r2, t1, alice, bob, m1, m2, c1, NoMagnet

VARIABLES part, queue, nextId, ready, worker, req, proc, crashes, faults

Q == INSTANCE RequestQueue WITH Titles <- {t1}, Users <- {alice, bob}, Admins <- {alice}, Blind <- {},
        Magnets <- {m1, m2}, Clients <- {c1}, MaxRows <- 2, MaxCrashes <- 1, MaxFaults <- 0

MCThreeCalls == {p1, p2, p3}
MCKeys == {movie}
MCTwoReleases == {r1, r2}

queueing == <<queue, nextId, ready, worker, req, proc, crashes, faults>>
allVars == <<part, vars, queueing>>

InitOfAll ==
    /\ \/ part \in {"play", "again"} /\ nextId = 1
       \/ part = "behind" /\ nextId = 3
    /\ Init /\ Q!Init
    /\ part = "play" => ready = [t \in {t1} |-> FALSE]
    /\ part # "play" => item = [k \in Keys |-> NoRelease]
    /\ part = "behind" =>
         /\ queue[1].user # queue[2].user
         /\ \A i \in 1 .. 2 : Q!Active(i) /\ queue[i].magnet = NoMagnet /\ queue[i].hash = NoMagnet

\* Alice asks for anything but one of the releases; or only re-picks, for the older
\* or the younger of the two requests, in a process that keeps running.
Asks == req'[c1].user = alice /\ req'[c1].magnet # m2
Repicks ==
    /\ req'[c1].op = "none" \/ (req'[c1].op = "request" /\ req'[c1].magnet # NoMagnet)
    /\ req'[c1].user = alice /\ crashes' = 0

NextOfAll ==
    \/ part = "play" /\ Next /\ UNCHANGED <<part, queueing>>
    \/ part = "again" /\ Q!Next /\ Asks /\ UNCHANGED <<part, vars>>
    \/ part = "behind" /\ Q!Next /\ Repicks /\ UNCHANGED <<part, vars>>

\* RequestQueue's Fairness, for the part that runs.
QueueFairness ==
    /\ WF_queueing(part # "play" /\ Q!NextPending) /\ WF_queueing(part # "play" /\ Q!Claim)
    /\ WF_queueing(part # "play" /\ Q!LookUpMetadata)
    /\ WF_queueing(part # "play" /\ (Q!Resolve \/ Q!Fail))
    /\ WF_queueing(part # "play" /\ (Q!WriteLibrary \/ Q!Fail)) /\ WF_queueing(part # "play" /\ Q!Finish)
    /\ WF_queueing(part # "play" /\ Q!Exit /\ proc = "stopping") /\ WF_queueing(part # "play" /\ Q!Restart)

SpecOfAll == InitOfAll /\ [][NextOfAll]_allVars /\ Fairness /\ QueueFairness

\* Every request that waits is settled in the end, behind the others, across re-picks,
\* lost cancels and restarts, unless re-picks of older ones never end.
RequestsSettle == Q!RequestsSettle
=============================================================================
