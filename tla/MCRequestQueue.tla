--------------------------- MODULE MCRequestQueue ---------------------------
(***************************************************************************)
(* Model values and symmetry for the runs of RequestQueue, and the two     *)
(* kinds of behaviours of `queue_rows': handlers that overlap, or crashes  *)
(* and faults.                                                             *)
(***************************************************************************)
EXTENDS RequestQueue, TLC

CONSTANTS t1, alice, admin, m1, m2, c1, c2

VARIABLE part

MCTitles == {t1}
MCUsers == {alice, admin}
MCAdmins == {admin}
MCOneUser == {alice}
MCNobody == {}
MCOneMagnet == {m1}
MCTwoMagnets == {m1, m2}
MCOneClient == {c1}
MCTwoClients == {c1, c2}

Served == {c \in Clients : req'[c].pc # "idle"}

\* Requests of one user, in a process that keeps running on a database that takes
\* every write.
Overlapping == crashes' = 0 /\ faults' = 0 /\ \A c \in Served : req'[c].user = admin

\* Requests of several users, one at a time.
OneAtATime == Cardinality(Served) <= 1

\* Handlers overlap on a new database; a process that may die starts on any, and no
\* release of the past matters there.
InitOfAll ==
    /\ \/ part = "overlap" /\ nextId = 1
       \/ part = "faults" /\ nextId \in 1 .. MaxRows + 1
    /\ Init
    /\ \A i \in Ids : queue[i].magnet = NoMagnet /\ queue[i].hash = NoMagnet

NextOfAll ==
    /\ UNCHANGED part
    /\ \/ part = "overlap" /\ Next /\ Overlapping
       \/ part = "faults" /\ Next /\ OneAtATime

SpecOfAll == InitOfAll /\ [][NextOfAll]_<<part, vars>>

\* Spec, of a `part' that says nothing.
SpecOfOne == nextId = 1 /\ Init /\ part = "all" /\ [][Next /\ UNCHANGED part]_<<part, vars>>

\* Handlers are interchangeable, and so are releases.
Symmetry == Permutations(Clients) \cup Permutations(Magnets)
=============================================================================
