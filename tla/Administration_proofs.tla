----------------------- MODULE Administration_proofs -----------------------
(***************************************************************************)
(* Proofs about administration: an admin remains, sessions follow the      *)
(* password and a new account inherits nothing; the compared versions are  *)
(* ordered as semantic versioning orders them, so that an update never     *)
(* goes backwards; the answers of the update check spare GitHub.           *)
(***************************************************************************)
EXTENDS Administration, WellFoundedInduction, TLAPS

-----------------------------------------------------------------------------
(* Accounts, sessions and requests *)

\* The types of a step's start, with the choices spelt out.
LEMMA Insertion ==
    ASSUME TypeOK, NEW n \in Names, NEW isAdmin \in BOOLEAN, NEW local \in BOOLEAN, Insert(n, isAdmin, local)
    PROVE  /\ lastId + 1 \in Ids /\ lastId' = lastId + 1 /\ lastId' \in 0 .. MaxAccounts
           /\ passwords' \in Passwords
           /\ users' \in [Ids -> Accounts \cup {none}]
           /\ users'[lastId'] \in Accounts /\ users'[lastId'].admin = isAdmin
           /\ \A i \in Ids \ {lastId'} : users'[i] = users[i]
<1>1. lastId + 1 \in Ids /\ lastId' = lastId + 1 /\ passwords' \in Passwords /\ lastId \in Nat
  BY AccountsAssumption DEF TypeOK, Insert, NewId, Ids, Passwords
<1>2. lastId' \in 0 .. MaxAccounts
  BY <1>1, AccountsAssumption DEF Ids
<1>3. [name |-> n, password |-> IF local THEN passwords' ELSE 0, admin |-> isAdmin] \in Accounts
  BY <1>1, AccountsAssumption DEF Accounts, Passwords
<1>4. QED
  BY <1>1, <1>2, <1>3 DEF TypeOK, Insert, NewId

\* A request under way has the account it is about, and the row if it will write it.
Sound(r) ==
    /\ r \in Runs
    /\ r.at \notin {"idle", "setup"} => r.id \in Ids
    /\ r.at \in {"session", "change", "patch"} => r.copy \in Accounts

Subjects == \A h \in Handlers : Sound(run[h])

\* What a step of one request does to the requests.
LEMMA Becoming ==
    ASSUME TypeOK, Subjects, NEW h \in Handlers, NEW r, Sound(r), Becomes(h, r)
    PROVE  run' \in [Handlers -> Runs] /\ Subjects' /\ \A g \in Handlers : run'[g] = IF g = h THEN r ELSE run[g]
<1>1. run \in [Handlers -> Runs] /\ r \in Runs
  BY DEF TypeOK, Sound
<1>2. \A g \in Handlers : run'[g] = IF g = h THEN r ELSE run[g]
  BY <1>1 DEF Becomes
<1>3. QED
  BY <1>1, <1>2 DEF Becomes, Subjects

LEMMA SoundIdle == Sound(Idle) /\ Idle.at = "idle"
BY DEF Sound, Idle, Runs

LEMMA Ending ==
    ASSUME TypeOK, Subjects, NEW h \in Handlers, Ends(h)
    PROVE  run' \in [Handlers -> Runs] /\ Subjects' /\ \A g \in Handlers : run'[g] = IF g = h THEN Idle ELSE run[g]
BY Becoming, SoundIdle DEF Ends

\* Marking touches only the account of the request.
LEMMA Marking ==
    ASSUME TypeOK, Subjects, NEW h \in Handlers, run[h].at \notin {"idle", "setup"}, MarkIfLate(h)
    PROVE  /\ excused' \subseteq Ids /\ excused \subseteq excused'
           /\ Late(h) => run[h].id \in excused'
BY DEF TypeOK, Subjects, Sound, MarkIfLate

LEMMA MarkingOld ==
    ASSUME TypeOK, Subjects, NEW h \in Handlers, run[h].at \notin {"idle", "setup"}, MarkIfOld(h)
    PROVE  /\ unpurged' \subseteq Ids /\ unpurged \subseteq unpurged'
           /\ UsesOld(h) => run[h].id \in unpurged'
BY DEF TypeOK, Subjects, Sound, MarkIfOld

LEMMA AccountsTyped == ASSUME TypeOK, Subjects, Next PROVE TypeOK' /\ Subjects'
<1>0. /\ users \in [Ids -> Accounts \cup {none}] /\ lastId \in 0 .. MaxAccounts
      /\ grants \in [Ids -> SUBSET Libraries] /\ sessions \in [Tokens -> Sessions \cup {none}]
      /\ run \in [Handlers -> Runs] /\ passwords \in Passwords /\ excused \subseteq Ids
      /\ unpurged \subseteq Ids
  BY DEF TypeOK
<1>1. ASSUME NEW h \in Handlers, Setup(h) \/ Fails(h) PROVE TypeOK' /\ Subjects'
  <2>1. Sound([Idle EXCEPT !.at = "setup"])
    BY DEF Sound, Idle, Runs
  <2>2. QED
    BY <1>1, <2>1, Becoming, Ending DEF TypeOK, Setup, Fails
<1>2. ASSUME NEW h \in Handlers, Change(h) PROVE TypeOK' /\ Subjects'
  <2>1. Sound(run[h]) /\ run[h].at = "change" /\ passwords' \in Passwords
    BY <1>0, <1>2, AccountsAssumption DEF Subjects, Change, Passwords
  <2>2. Sound([run[h] EXCEPT !.at = "purge"])
    BY <2>1 DEF Sound, Runs
  <2>3. [run[h].copy EXCEPT !.password = passwords'] \in Accounts
    BY <2>1 DEF Sound, Accounts
  <2>4. \A t \in Tokens : sessions[t] # none => [sessions[t] EXCEPT !.password = passwords'] \in Sessions
    BY <1>0, <2>1 DEF Sessions
  <2>5. users' \in [Ids -> Accounts \cup {none}] /\ sessions' \in [Tokens -> Sessions \cup {none}]
    BY <1>0, <1>2, <2>3, <2>4 DEF Change
  <2>6. QED
    BY <1>0, <1>2, <2>1, <2>2, <2>5, Becoming, Marking DEF TypeOK, Change
<1>3. ASSUME NEW h \in Handlers, Purge(h) PROVE TypeOK' /\ Subjects'
  <2>1. run[h].id \in Ids
    BY <1>3 DEF Subjects, Sound, Purge
  <2>2. QED
    BY <1>0, <1>3, <2>1, Ending DEF TypeOK, Purge
<1>4. ASSUME NEW h \in Handlers, Delete(h) PROVE TypeOK' /\ Subjects'
  <2>1. users' \in [Ids -> Accounts \cup {none}] /\ grants' \in [Ids -> SUBSET Libraries]
    BY <1>0, <1>4 DEF Delete
  <2>2. QED
    BY <1>0, <1>4, <2>1, Ending, Marking DEF TypeOK, Delete
<1>5. ASSUME NEW h \in Handlers, NEW n \in Names, CreateFirst(h, n) PROVE TypeOK' /\ Subjects'
  <2>1. CASE Named(n) = {}
    <3>1. lastId + 1 \in Ids /\ lastId' = lastId + 1 /\ lastId' \in 0 .. MaxAccounts /\ passwords' \in Passwords
          /\ users' \in [Ids -> Accounts \cup {none}] /\ users'[lastId'] \in Accounts
      BY <1>5, <2>1, Insertion DEF CreateFirst
    <3>2. Sound([Idle EXCEPT !.at = "session", !.id = lastId + 1, !.copy = users'[lastId + 1]])
      BY <3>1 DEF Sound, Idle, Runs
    <3>3. QED
      BY <1>0, <1>5, <2>1, <3>1, <3>2, Becoming DEF TypeOK, CreateFirst, NewId
  <2>2. CASE Named(n) # {}
    BY <1>0, <1>5, <2>2, Ending DEF TypeOK, CreateFirst
  <2>3. QED
    BY <2>1, <2>2
<1>6. ASSUME NEW h \in Handlers, NEW n \in Names, Login(h, n) PROVE TypeOK' /\ Subjects'
  <2>1. PICK i \in Named(n) : Becomes(h, [Idle EXCEPT !.at = "session", !.id = i, !.copy = users[i]])
    BY <1>6 DEF Login
  <2>2. Sound([Idle EXCEPT !.at = "session", !.id = i, !.copy = users[i]])
    BY <1>0, <2>1 DEF Sound, Idle, Runs, Named, Existing
  <2>3. QED
    BY <1>0, <1>6, <2>1, <2>2, Becoming DEF TypeOK, Login
<1>7. ASSUME NEW h \in Handlers, NEW n \in Names, NEW isAdmin \in BOOLEAN, Patch(h, n, isAdmin)
      PROVE TypeOK' /\ Subjects'
  <2>1. run[h].copy \in Accounts /\ run[h].at = "patch"
    BY <1>7 DEF Subjects, Sound, Patch
  <2>2. [run[h].copy EXCEPT !.name = n, !.admin = isAdmin] \in Accounts
    BY <2>1 DEF Accounts
  <2>3. users' \in [Ids -> Accounts \cup {none}]
    BY <1>0, <1>7, <2>2 DEF Patch
  <2>4. excused' \subseteq Ids /\ unpurged' \subseteq Ids
    BY <1>0, <1>7, <2>1, Marking, MarkingOld DEF Patch
  <2>5. QED
    BY <1>0, <1>7, <2>3, <2>4, Ending DEF TypeOK, Patch
<1>8. ASSUME NEW h \in Handlers, NEW t \in Tokens, StartSession(h, t) PROVE TypeOK' /\ Subjects'
  <2>1. run[h].copy \in Accounts /\ run[h].at = "session" /\ run[h].id \in Ids
    BY <1>8 DEF Subjects, Sound, StartSession
  <2>2. [user |-> run[h].id, password |-> run[h].copy.password] \in Sessions
    BY <2>1 DEF Accounts, Sessions
  <2>3. QED
    BY <1>0, <1>8, <2>1, <2>2, MarkingOld, Ending DEF TypeOK, StartSession
<1>9. ASSUME NEW h \in Handlers, NEW t \in Tokens, AskChange(h, t) PROVE TypeOK' /\ Subjects'
  <2>1. Sound([Idle EXCEPT !.at = "change", !.token = t, !.id = UserOf(t), !.copy = users[UserOf(t)]])
    BY <1>0, <1>9 DEF Sound, Idle, Runs, AskChange, Existing
  <2>2. QED
    BY <1>0, <1>9, <2>1, Becoming DEF TypeOK, AskChange
<1>10. ASSUME NEW h \in Handlers, NEW t \in Tokens, NEW i \in Ids, AskAccess(h, t, i) PROVE TypeOK' /\ Subjects'
  <2>1. Sound([Idle EXCEPT !.at = "access", !.token = t, !.id = i, !.seen = grants[i]])
    BY <1>0 DEF Sound, Idle, Runs
  <2>2. QED
    BY <1>0, <1>10, <2>1, Becoming DEF TypeOK, AskAccess
<1>11. ASSUME NEW h \in Handlers, NEW t \in Tokens, NEW i \in Ids, NEW does \in {"patch", "delete"},
              AskManage(h, t, i, does) PROVE TypeOK' /\ Subjects'
  <2>1. Sound([Idle EXCEPT !.at = does, !.token = t, !.id = i, !.copy = IF does = "patch" THEN users[i] ELSE none])
    BY <1>0, <1>11 DEF Sound, Idle, Runs, AskManage, Existing
  <2>2. QED
    BY <1>0, <1>11, <2>1, Becoming DEF TypeOK, AskManage
<1>12. ASSUME NEW h \in Handlers, NEW l \in Libraries, SaveAccess(h, l) PROVE TypeOK' /\ Subjects'
  <2>1. run[h].seen \subseteq Libraries
    BY <1>0 DEF Runs
  <2>2. grants' \in [Ids -> SUBSET Libraries]
    BY <1>0, <1>12, <2>1 DEF SaveAccess
  <2>3. QED
    BY <1>0, <1>12, <2>2, Ending DEF TypeOK, SaveAccess
<1>13. ASSUME NEW t \in Tokens, EndSession(t) PROVE TypeOK' /\ Subjects'
  BY <1>0, <1>13 DEF TypeOK, EndSession, Subjects
<1>14. ASSUME NEW t \in Tokens, NEW n \in Names, NEW isAdmin \in BOOLEAN, NEW local \in BOOLEAN,
              Create(t, n, isAdmin, local) PROVE TypeOK' /\ Subjects'
  BY <1>0, <1>14, Insertion DEF TypeOK, Create, Subjects
<1>15. QED
  BY <1>1, <1>2, <1>3, <1>4, <1>5, <1>6, <1>7, <1>8, <1>9, <1>10, <1>11, <1>12, <1>13, <1>14 DEF Next

-----------------------------------------------------------------------------
(* What requests, sessions and rows have to do with one another *)

\* Ids that were never handed out are in use nowhere: only DELETE takes any.
NewIdsAreNew ==
    /\ \A i \in Ids : users[i] # none => i <= lastId
    /\ \A t \in Tokens : UserOf(t) <= lastId
    /\ \A h \in Handlers : run[h].at \notin {"idle", "delete"} => run[h].id <= lastId

\* Grants go with the row.
GrantsGo == \A i \in Ids : users[i] = none => grants[i] = {}

\* A request that manages an account has another caller, one that changes a password
\* no other, as long as the caller's session lasts.
Callers ==
    \A h \in Handlers :
        /\ run[h].at \in {"change", "purge", "patch", "delete"} => run[h].token \in Tokens
        /\ run[h].at \in {"patch", "delete"} => UserOf(run[h].token) # run[h].id
        /\ run[h].at \in {"change", "purge"} => UserOf(run[h].token) \in {0, run[h].id}

\* A session of an old password will be ended by a request that is at it.
OldOnesEnd ==
    \A t \in Tokens :
        UserOf(t) \in Existing \ unpurged =>
            \/ sessions[t].password = users[UserOf(t)].password
            \/ \E h \in Handlers : run[h].at = "purge" /\ run[h].id = UserOf(t) /\ run[h].token # t

Relations == NewIdsAreNew /\ GrantsGo /\ Callers /\ OldOnesEnd /\ AdminRemains

AccountsInv == TypeOK /\ Subjects /\ Relations

LEMMA AccountsInit == Init => AccountsInv
<1> SUFFICES ASSUME Init PROVE AccountsInv
  OBVIOUS
<1>1. TypeOK /\ Subjects
  BY SoundIdle, AccountsAssumption DEF Init, TypeOK, Subjects, Sound, Passwords
<1>2. NewIdsAreNew /\ GrantsGo /\ Callers /\ OldOnesEnd /\ AdminRemains
  BY DEF Init, NewIdsAreNew, GrantsGo, Callers, OldOnesEnd, AdminRemains, UserOf, Existing, Idle, Ids
<1>3. QED
  BY <1>1, <1>2 DEF AccountsInv, Relations

\* A request that has read something and written nothing yet.
Reads(h, r) ==
    /\ Sound(r) /\ Becomes(h, r) /\ run[h].at # "purge"
    /\ r.at \notin {"idle", "delete"} => r.id <= lastId
    /\ r.at \in {"change", "patch", "delete"} => r.token \in Tokens
    /\ r.at \in {"patch", "delete"} => UserOf(r.token) # r.id
    /\ r.at = "change" => UserOf(r.token) = r.id
    /\ r.at # "purge"
    /\ UNCHANGED <<users, lastId, grants, sessions, passwords, excused, unpurged>>

LEMMA Reading == ASSUME AccountsInv, NEW h \in Handlers, NEW r, Reads(h, r)
                 PROVE  Relations'
<1>1. \A g \in Handlers : run'[g] = IF g = h THEN r ELSE run[g]
  BY Becoming DEF AccountsInv, Reads
<1>2. NewIdsAreNew' /\ GrantsGo' /\ Callers' /\ AdminRemains'
  BY <1>1 DEF Reads, AccountsInv, Relations, NewIdsAreNew, GrantsGo, Callers, AdminRemains, UserOf, Admins, Existing
<1>3. OldOnesEnd'
  <2> SUFFICES ASSUME NEW t \in Tokens, UserOf(t)' \in (Existing \ unpurged)',
                      sessions'[t].password # users'[UserOf(t)'].password
               PROVE  \E g \in Handlers : run'[g].at = "purge" /\ run'[g].id = UserOf(t)' /\ run'[g].token # t
    BY DEF OldOnesEnd
  <2>1. PICK g \in Handlers : run[g].at = "purge" /\ run[g].id = UserOf(t) /\ run[g].token # t
    BY DEF Reads, AccountsInv, Relations, OldOnesEnd, UserOf, Existing
  <2>2. QED
    BY <1>1, <2>1 DEF Reads, UserOf
<1>4. QED
  BY <1>2, <1>3 DEF Relations

\* All the requests that only read, and those that end without a write.
LEMMA ReadersKeep ==
    ASSUME AccountsInv, NEW h \in Handlers,
           \/ Setup(h) \/ Fails(h)
           \/ \E n \in Names : Login(h, n)
           \/ \E t \in Tokens : AskChange(h, t)
           \/ \E t \in Tokens, i \in Ids : AskAccess(h, t, i)
           \/ \E t \in Tokens, i \in Ids, does \in {"patch", "delete"} : AskManage(h, t, i, does)
    PROVE  \E r : Reads(h, r)
<1>0. users \in [Ids -> Accounts \cup {none}] /\ grants \in [Ids -> SUBSET Libraries] /\ lastId \in Nat
  BY AccountsAssumption DEF AccountsInv, TypeOK
<1>1. CASE Setup(h)
  <2>1. Reads(h, [Idle EXCEPT !.at = "setup"])
    BY <1>0, <1>1 DEF Setup, Reads, Sound, Idle, Runs
  <2>2. QED
    BY <2>1
<1>2. CASE Fails(h)
  <2>1. Reads(h, Idle)
    BY <1>2, SoundIdle DEF Fails, Reads, Ends
  <2>2. QED
    BY <2>1
<1>3. ASSUME NEW n \in Names, Login(h, n) PROVE \E r : Reads(h, r)
  <2>1. PICK i \in Named(n) : Becomes(h, [Idle EXCEPT !.at = "session", !.id = i, !.copy = users[i]])
    BY <1>3 DEF Login
  <2> DEFINE r == [Idle EXCEPT !.at = "session", !.id = i, !.copy = users[i]]
  <2>2. i <= lastId /\ i \in Ids /\ users[i] \in Accounts
    BY <1>0, <2>1 DEF AccountsInv, Relations, NewIdsAreNew, Named, Existing
  <2>3. Sound(r) /\ r.at = "session" /\ r.id = i
    BY <2>2 DEF Sound, Idle, Runs
  <2>4. Becomes(h, r) /\ run[h].at = "idle" /\ UNCHANGED <<users, lastId, grants, sessions, passwords, excused, unpurged>>
    BY <1>3, <2>1, SoundIdle DEF Login
  <2> HIDE DEF r
  <2>5. Reads(h, r)
    BY <2>2, <2>3, <2>4 DEF Reads
  <2>6. QED
    BY <2>5
<1>4. ASSUME NEW t \in Tokens, AskChange(h, t) PROVE \E r : Reads(h, r)
  <2> DEFINE r == [Idle EXCEPT !.at = "change", !.token = t, !.id = UserOf(t), !.copy = users[UserOf(t)]]
  <2>1. UserOf(t) <= lastId /\ UserOf(t) \in Ids /\ users[UserOf(t)] \in Accounts
    BY <1>0, <1>4 DEF AccountsInv, Relations, NewIdsAreNew, AskChange, Existing
  <2>2. Sound(r) /\ r.at = "change" /\ r.id = UserOf(t) /\ r.token = t
    BY <2>1 DEF Sound, Idle, Runs
  <2>3. Becomes(h, r) /\ run[h].at = "idle" /\ UNCHANGED <<users, lastId, grants, sessions, passwords, excused, unpurged>>
    BY <1>4, SoundIdle DEF AskChange
  <2> HIDE DEF r
  <2>4. Reads(h, r)
    BY <2>1, <2>2, <2>3 DEF Reads
  <2>5. QED
    BY <2>4
<1>5. ASSUME NEW t \in Tokens, NEW i \in Ids, AskAccess(h, t, i) PROVE \E r : Reads(h, r)
  <2> DEFINE r == [Idle EXCEPT !.at = "access", !.token = t, !.id = i, !.seen = grants[i]]
  <2>1. i <= lastId
    BY <1>5 DEF AccountsInv, Relations, NewIdsAreNew, AskAccess, Existing
  <2>2. Sound(r) /\ r.at = "access" /\ r.id = i
    BY <1>0 DEF Sound, Idle, Runs
  <2>3. Becomes(h, r) /\ run[h].at = "idle" /\ UNCHANGED <<users, lastId, grants, sessions, passwords, excused, unpurged>>
    BY <1>5, SoundIdle DEF AskAccess
  <2> HIDE DEF r
  <2>4. Reads(h, r)
    BY <2>1, <2>2, <2>3 DEF Reads
  <2>5. QED
    BY <2>4
<1>6. ASSUME NEW t \in Tokens, NEW i \in Ids, NEW does \in {"patch", "delete"}, AskManage(h, t, i, does)
      PROVE \E r : Reads(h, r)
  <2> DEFINE r == [Idle EXCEPT !.at = does, !.token = t, !.id = i,
                               !.copy = IF does = "patch" THEN users[i] ELSE none]
  <2>1. does = "patch" => i <= lastId /\ users[i] \in Accounts
    BY <1>0, <1>6 DEF AccountsInv, Relations, NewIdsAreNew, AskManage, Existing
  <2>2. Sound(r) /\ r.at = does /\ r.id = i /\ r.token = t
    BY <1>0, <1>6, <2>1 DEF Sound, Idle, Runs
  <2>3. Becomes(h, r) /\ run[h].at = "idle" /\ UNCHANGED <<users, lastId, grants, sessions, passwords, excused, unpurged>>
    BY <1>6, SoundIdle DEF AskManage
  <2>4. UserOf(t) # i
    BY <1>6 DEF AskManage, MayManage
  <2> HIDE DEF r
  <2>5. Reads(h, r)
    BY <2>1, <2>2, <2>3, <2>4 DEF Reads
  <2>6. QED
    BY <2>5
<1>7. QED
  BY <1>1, <1>2, <1>3, <1>4, <1>5, <1>6

-----------------------------------------------------------------------------
(* The requests that write *)

LEMMA StartSessionKeeps == ASSUME AccountsInv, NEW h \in Handlers, NEW t \in Tokens, StartSession(h, t)
                           PROVE  Relations'
<1>0. TypeOK /\ Subjects /\ Relations /\ run[h].at = "session" /\ Sound(run[h]) /\ sessions \in [Tokens -> Sessions \cup {none}]
  BY DEF AccountsInv, StartSession, Subjects, TypeOK
<1>1. \A g \in Handlers : run'[g] = IF g = h THEN Idle ELSE run[g]
  BY <1>0, Ending DEF StartSession
<1>2. /\ UNCHANGED <<users, lastId, grants, excused>> /\ unpurged \subseteq unpurged'
      /\ UsesOld(h) => run[h].id \in unpurged'
  BY <1>0, MarkingOld DEF StartSession
<1>3. /\ run[h].id \in Ids /\ run[h].id <= lastId /\ run[h].copy \in Accounts
      /\ sessions'[t].user = run[h].id /\ sessions'[t].password = run[h].copy.password
      /\ \A u \in Tokens \ {t} : sessions'[u] = sessions[u]
  BY <1>0 DEF StartSession, Sound, Relations, NewIdsAreNew
<1>4. /\ UserOf(t)' = run[h].id
      /\ \A u \in Tokens \ {t} : UserOf(u)' = UserOf(u)
  <2>1. [user |-> run[h].id, password |-> run[h].copy.password] \in Sessions
    BY <1>3 DEF Accounts, Sessions
  <2>2. sessions'[t] # none
    BY <1>0, <2>1, AccountsAssumption DEF StartSession
  <2>3. QED
    BY <1>3, <2>2 DEF UserOf
<1>5. NewIdsAreNew' /\ GrantsGo' /\ AdminRemains'
  BY <1>0, <1>1, <1>2, <1>3, <1>4, SoundIdle
     DEF Relations, NewIdsAreNew, GrantsGo, AdminRemains, Admins, Existing
<1>6. Callers'
  <2>1. \A g \in Handlers : run[g].token # t
    BY DEF StartSession
  <2>2. QED
    BY <1>0, <1>1, <1>4, <2>1, SoundIdle DEF Relations, Callers
<1>7. OldOnesEnd'
  <2> SUFFICES ASSUME NEW u \in Tokens, UserOf(u)' \in (Existing \ unpurged)',
                      sessions'[u].password # users'[UserOf(u)'].password
               PROVE  \E g \in Handlers : run'[g].at = "purge" /\ run'[g].id = UserOf(u)' /\ run'[g].token # u
    BY DEF OldOnesEnd
  <2>1. u # t
    <3>1. SUFFICES ASSUME u = t PROVE FALSE
      OBVIOUS
    <3>2. run[h].id \in Existing /\ ~UsesOld(h)
      BY <1>2, <1>4, <3>1 DEF Existing
    <3>3. QED
      BY <1>2, <1>3, <1>4, <3>1, <3>2 DEF UsesOld
  <2>2. PICK g \in Handlers : run[g].at = "purge" /\ run[g].id = UserOf(u) /\ run[g].token # u
    BY <1>0, <1>2, <1>3, <1>4, <2>1 DEF Relations, OldOnesEnd, Existing
  <2>3. QED
    BY <1>0, <1>1, <1>4, <2>1, <2>2
<1>8. QED
  BY <1>5, <1>6, <1>7 DEF Relations

LEMMA EndSessionKeeps == ASSUME AccountsInv, NEW t \in Tokens, EndSession(t) PROVE Relations'
<1>0. Relations /\ Subjects /\ UNCHANGED <<users, lastId, grants, run, excused, unpurged>> /\ lastId \in Nat
  BY AccountsAssumption DEF AccountsInv, EndSession, TypeOK
<1>1. UserOf(t)' = 0 /\ \A u \in Tokens \ {t} : UserOf(u)' = UserOf(u) /\ sessions'[u] = sessions[u]
  BY DEF AccountsInv, TypeOK, EndSession, UserOf
<1>2. NewIdsAreNew' /\ GrantsGo' /\ AdminRemains'
  BY <1>0, <1>1 DEF Relations, NewIdsAreNew, GrantsGo, AdminRemains, Admins, Existing
<1>3. Callers'
  <2>1. \A g \in Handlers : run[g].at \in {"patch", "delete"} => run[g].id # 0
    BY <1>0 DEF Subjects, Sound, Ids
  <2>2. QED
    BY <1>0, <1>1, <2>1 DEF Relations, Callers
<1>4. OldOnesEnd'
  BY <1>0, <1>1 DEF Relations, OldOnesEnd, Existing, Ids
<1>5. QED
  BY <1>2, <1>3, <1>4 DEF Relations

LEMMA ChangeKeeps == ASSUME AccountsInv, NEW h \in Handlers, Change(h) PROVE Relations'
<1> DEFINE r == run[h]
<1>0. TypeOK /\ Subjects /\ Relations /\ r.at = "change" /\ Sound(r)
  BY DEF AccountsInv, Change, Subjects
<1>1. /\ users \in [Ids -> Accounts \cup {none}] /\ sessions \in [Tokens -> Sessions \cup {none}]
      /\ r.id \in Ids /\ r.copy \in Accounts /\ r.token \in Tokens
      /\ UserOf(r.token) \in {0, r.id} /\ UNCHANGED <<lastId, grants, unpurged>> /\ passwords' \in Nat
  <2>1. passwords' \in Nat
    BY <1>0, AccountsAssumption DEF TypeOK, Passwords, Change
  <2>2. QED
    BY <1>0, <2>1 DEF TypeOK, Sound, Relations, Callers, Change
<1>2. \A g \in Handlers \ {h} : run'[g] = run[g]
  <2>1. run \in [Handlers -> Runs]
    BY <1>0 DEF TypeOK
  <2>2. QED
    BY <2>1 DEF Change, Becomes
<1>3. run'[h].at = "purge" /\ run'[h].id = r.id /\ run'[h].token = r.token
  <2>1. run'[h] = [r EXCEPT !.at = "purge"] /\ r \in Runs
    BY <1>0 DEF TypeOK, Change, Becomes
  <2>2. QED
    BY <2>1 DEF Runs
<1>4. excused \subseteq excused' /\ (Late(h) => r.id \in excused')
  BY <1>0, Marking DEF Change
<1>5. \A i \in Ids : /\ users'[i] = none <=> users[i] = none
                     /\ i # r.id => users'[i] = users[i]
                     /\ i = r.id /\ users[i] # none => /\ users'[i].password = passwords'
                                                       /\ users'[i].admin = r.copy.admin
  <2>1. [r.copy EXCEPT !.password = passwords'] # none
    <3>1. r.id \in Ids => passwords' \in Passwords
      BY <1>0, AccountsAssumption DEF Change, TypeOK, Passwords
    <3>2. [r.copy EXCEPT !.password = passwords'] \in Accounts
      BY <1>1, <3>1 DEF Accounts
    <3>3. QED
      BY <3>2, AccountsAssumption
  <2>2. [r.copy EXCEPT !.password = passwords'].password = passwords'
        /\ [r.copy EXCEPT !.password = passwords'].admin = r.copy.admin
    BY <1>1 DEF Accounts
  <2>3. QED
    BY <1>1, <2>1, <2>2 DEF Change
<1>6. \A t \in Tokens : /\ UserOf(t)' = UserOf(t)
                        /\ t # r.token => sessions'[t] = sessions[t]
                        /\ t = r.token /\ sessions[t] # none => sessions'[t].password = passwords'
  <2> SUFFICES ASSUME NEW t \in Tokens
               PROVE  /\ UserOf(t)' = UserOf(t)
                      /\ t # r.token => sessions'[t] = sessions[t]
                      /\ t = r.token /\ sessions[t] # none => sessions'[t].password = passwords'
    OBVIOUS
  <2>1. CASE t = r.token /\ sessions[t] # none
    <3>1. passwords' \in Passwords
      BY <1>0, AccountsAssumption DEF Change, TypeOK, Passwords
    <3>2. sessions'[t] = [sessions[t] EXCEPT !.password = passwords'] /\ sessions[t] \in Sessions
      BY <1>1, <2>1 DEF Change
    <3>3. sessions'[t] \in Sessions /\ sessions'[t].user = sessions[t].user /\ sessions'[t].password = passwords'
      BY <3>1, <3>2 DEF Sessions
    <3>4. QED
      BY <2>1, <3>3, AccountsAssumption DEF UserOf
  <2>2. CASE ~(t = r.token /\ sessions[t] # none)
    BY <1>1, <2>2 DEF Change, UserOf
  <2>3. QED
    BY <2>1, <2>2
<1>7. NewIdsAreNew' /\ GrantsGo'
  BY <1>0, <1>1, <1>2, <1>3, <1>5, <1>6 DEF Relations, NewIdsAreNew, GrantsGo
<1>8. Callers'
  BY <1>0, <1>1, <1>2, <1>3, <1>6 DEF Relations, Callers
<1>9. AdminRemains'
  <2> SUFFICES ASSUME lastId > 0, excused' = {} PROVE Admins' # {}
    BY <1>1 DEF AdminRemains
  <2>1. excused = {} /\ users[r.id] = r.copy
    <3>1. r.copy # none
      BY <1>1, AccountsAssumption
    <3>2. QED
      BY <1>4, <3>1 DEF Late
  <2>2. PICK i \in Admins : TRUE
    BY <1>0, <2>1 DEF Relations, AdminRemains
  <2>3. i \in Admins'
    BY <1>5, <2>1, <2>2 DEF Admins, Existing
  <2>4. QED
    BY <2>3
<1>10. OldOnesEnd'
  <2> SUFFICES ASSUME NEW t \in Tokens, UserOf(t)' \in (Existing \ unpurged)',
                      sessions'[t].password # users'[UserOf(t)'].password
               PROVE  \E g \in Handlers : run'[g].at = "purge" /\ run'[g].id = UserOf(t)' /\ run'[g].token # t
    BY DEF OldOnesEnd
  <2>1. UserOf(t) \in Existing \ unpurged /\ UserOf(t) \in Ids /\ sessions[t] # none
    BY <1>1, <1>5, <1>6 DEF Existing, Ids, UserOf
  <2>2. CASE UserOf(t) = r.id
    <3>1. users'[r.id].password = passwords'
      BY <1>1, <1>5, <2>1, <2>2 DEF Existing
    <3>2. t # r.token
      BY <1>6, <2>1, <2>2, <3>1
    <3>3. QED
      BY <1>3, <1>6, <2>2, <3>2
  <2>3. CASE UserOf(t) # r.id
    <3>1. t # r.token
      BY <1>1, <2>1, <2>3 DEF Ids
    <3>2. sessions[t].password # users[UserOf(t)].password
      BY <1>5, <1>6, <2>1, <2>3, <3>1
    <3>3. PICK g \in Handlers : run[g].at = "purge" /\ run[g].id = UserOf(t) /\ run[g].token # t
      BY <1>0, <2>1, <3>2 DEF Relations, OldOnesEnd
    <3>4. QED
      BY <1>0, <1>2, <1>6, <3>3
  <2>4. QED
    BY <2>2, <2>3
<1>11. QED
  BY <1>7, <1>8, <1>9, <1>10 DEF Relations

LEMMA PurgeKeeps == ASSUME AccountsInv, NEW h \in Handlers, Purge(h) PROVE Relations'
<1> DEFINE r == run[h]
<1>0. TypeOK /\ Subjects /\ Relations /\ r.at = "purge" /\ r.id \in Ids
      /\ UNCHANGED <<users, lastId, grants, excused>> /\ lastId \in Nat
  BY AccountsAssumption DEF AccountsInv, Purge, Subjects, Sound, TypeOK
<1>1. \A g \in Handlers : run'[g] = IF g = h THEN Idle ELSE run[g]
  BY <1>0, Ending DEF Purge
<1>2. /\ unpurged \subseteq unpurged'
      /\ \A t \in Tokens : UserOf(t)' \in {0, UserOf(t)} /\ (UserOf(t)' # 0 => sessions'[t] = sessions[t])
      /\ r.id \in unpurged' \/ \A t \in Tokens : UserOf(t)' = r.id => t = r.token
  BY <1>0 DEF Purge, Keeps, UserOf, Ids
<1>3. NewIdsAreNew' /\ GrantsGo' /\ AdminRemains'
  <2>1. NewIdsAreNew'
    BY <1>0, <1>1, <1>2, SoundIdle DEF Relations, NewIdsAreNew
  <2>2. QED
    BY <1>0, <1>2, <2>1 DEF Relations, GrantsGo, AdminRemains, Admins, Existing
<1>4. Callers'
  <2>1. \A g \in Handlers : run[g].at \in {"patch", "delete"} => run[g].id # 0
    BY <1>0 DEF Subjects, Sound, Ids
  <2>2. QED
    BY <1>0, <1>1, <1>2, <2>1, SoundIdle DEF Relations, Callers
<1>5. OldOnesEnd'
  <2> SUFFICES ASSUME NEW t \in Tokens, UserOf(t)' \in (Existing \ unpurged)',
                      sessions'[t].password # users'[UserOf(t)'].password
               PROVE  \E g \in Handlers : run'[g].at = "purge" /\ run'[g].id = UserOf(t)' /\ run'[g].token # t
    BY DEF OldOnesEnd
  <2>1. UserOf(t)' # 0 /\ UserOf(t)' = UserOf(t) /\ sessions'[t] = sessions[t] /\ UserOf(t) \in Existing \ unpurged
    BY <1>0, <1>2 DEF Existing, Ids
  <2>2. PICK g \in Handlers : run[g].at = "purge" /\ run[g].id = UserOf(t) /\ run[g].token # t
    BY <1>0, <2>1 DEF Relations, OldOnesEnd
  <2>3. g # h
    BY <1>2, <2>1, <2>2
  <2>4. QED
    BY <1>1, <2>1, <2>2, <2>3
<1>6. QED
  BY <1>3, <1>4, <1>5 DEF Relations

LEMMA PatchKeeps == ASSUME AccountsInv, NEW h \in Handlers, NEW n \in Names, NEW isAdmin \in BOOLEAN,
                           Patch(h, n, isAdmin)
                    PROVE  Relations'
<1> DEFINE r == run[h]
<1>0. TypeOK /\ Subjects /\ Relations /\ r.at = "patch" /\ Sound(r) /\ UNCHANGED <<lastId, grants, sessions>>
  BY DEF AccountsInv, Patch, Subjects
<1>1. /\ users \in [Ids -> Accounts \cup {none}] /\ r.id \in Ids /\ r.copy \in Accounts
      /\ r.token \in Tokens /\ UserOf(r.token) # r.id /\ r.copy # none
  BY <1>0, AccountsAssumption DEF TypeOK, Sound, Relations, Callers
<1>2. \A g \in Handlers : run'[g] = IF g = h THEN Idle ELSE run[g]
  BY <1>0, Ending DEF Patch
<1>3. /\ excused \subseteq excused' /\ (users' # users /\ Late(h) => r.id \in excused')
      /\ unpurged \subseteq unpurged' /\ (users' # users /\ UsesOld(h) => r.id \in unpurged')
  BY <1>0, Marking, MarkingOld DEF Patch
<1>4. \A i \in Ids : /\ users'[i] = none <=> users[i] = none
                     /\ i # r.id => users'[i] = users[i]
                     /\ i = r.id /\ users'[i] # users[i] => users'[i].password = r.copy.password
  <2>1. [r.copy EXCEPT !.name = n, !.admin = isAdmin] \in Accounts
        /\ [r.copy EXCEPT !.name = n, !.admin = isAdmin].password = r.copy.password
    BY <1>1 DEF Accounts
  <2>2. QED
    BY <1>1, <2>1, AccountsAssumption DEF Patch, Existing
<1>5. NewIdsAreNew' /\ GrantsGo' /\ Callers'
  BY <1>0, <1>2, <1>4, SoundIdle DEF Relations, NewIdsAreNew, GrantsGo, Callers, UserOf
<1>6. AdminRemains'
  <2> SUFFICES ASSUME lastId > 0, excused' = {} PROVE Admins' # {}
    BY <1>0 DEF AdminRemains
  <2>1. PICK i \in Admins : users' # users => i # r.id
    <3>1. Admins # {}
      BY <1>0, <1>3 DEF Relations, AdminRemains
    <3>2. CASE users' # users
      BY <1>0, <1>1, <1>3, <3>2 DEF Late
    <3>3. QED
      BY <3>1, <3>2
  <2>2. i \in Admins'
    BY <1>4, <2>1 DEF Admins, Existing
  <2>3. QED
    BY <2>2
<1>7. OldOnesEnd'
  <2> SUFFICES ASSUME NEW t \in Tokens, UserOf(t)' \in (Existing \ unpurged)',
                      sessions'[t].password # users'[UserOf(t)'].password
               PROVE  \E g \in Handlers : run'[g].at = "purge" /\ run'[g].id = UserOf(t)' /\ run'[g].token # t
    BY DEF OldOnesEnd
  <2>1. UserOf(t)' = UserOf(t) /\ UserOf(t) \in Existing \ unpurged /\ UserOf(t) \in Ids /\ sessions'[t] = sessions[t]
    BY <1>0, <1>3, <1>4 DEF UserOf, Existing
  <2>2. sessions[t].password # users[UserOf(t)].password
    BY <1>1, <1>3, <1>4, <2>1 DEF UsesOld
  <2>3. PICK g \in Handlers : run[g].at = "purge" /\ run[g].id = UserOf(t) /\ run[g].token # t
    BY <1>0, <2>1, <2>2 DEF Relations, OldOnesEnd
  <2>4. QED
    BY <1>0, <1>2, <2>1, <2>3
<1>8. QED
  BY <1>5, <1>6, <1>7 DEF Relations

LEMMA DeleteKeeps == ASSUME AccountsInv, NEW h \in Handlers, Delete(h) PROVE Relations'
<1> DEFINE r == run[h]
<1>0. TypeOK /\ Subjects /\ Relations /\ r.at = "delete" /\ Sound(r) /\ UNCHANGED <<lastId, sessions, unpurged>>
  BY DEF AccountsInv, Delete, Subjects
<1>1. r.id \in Ids /\ UserOf(r.token) # r.id
  BY <1>0 DEF Sound, Relations, Callers
<1>2. \A g \in Handlers : run'[g] = IF g = h THEN Idle ELSE run[g]
  BY <1>0, Ending DEF Delete
<1>3. excused \subseteq excused' /\ (Late(h) => r.id \in excused')
  BY <1>0, Marking DEF Delete
<1>4. users'[r.id] = none /\ grants'[r.id] = {}
      /\ \A i \in Ids \ {r.id} : users'[i] = users[i] /\ grants'[i] = grants[i]
  BY <1>0, <1>1 DEF Delete, TypeOK
<1>5. NewIdsAreNew' /\ GrantsGo' /\ Callers'
  BY <1>0, <1>2, <1>4, SoundIdle DEF Relations, NewIdsAreNew, GrantsGo, Callers, UserOf
<1>6. AdminRemains'
  <2> SUFFICES ASSUME excused' = {} PROVE Admins' # {}
    BY DEF AdminRemains
  <2>1. UserOf(r.token) \in Admins
    BY <1>0, <1>3 DEF Late
  <2>2. UserOf(r.token) \in Admins'
    BY <1>1, <1>4, <2>1 DEF Admins, Existing
  <2>3. UserOf(r.token) \in Ids
    BY <2>1 DEF Admins, Existing
  <2>4. \E i \in Ids : users'[i] # none /\ users'[i].admin
    BY <1>1, <1>4, <2>1, <2>3 DEF Admins, Existing
  <2>5. QED
    BY <2>4 DEF Admins, Existing
<1>7. OldOnesEnd'
  <2> SUFFICES ASSUME NEW t \in Tokens, UserOf(t)' \in (Existing \ unpurged)',
                      sessions'[t].password # users'[UserOf(t)'].password
               PROVE  \E g \in Handlers : run'[g].at = "purge" /\ run'[g].id = UserOf(t)' /\ run'[g].token # t
    BY DEF OldOnesEnd
  <2>1. /\ UserOf(t)' = UserOf(t) /\ UserOf(t) \in Existing \ unpurged /\ sessions'[t] = sessions[t]
        /\ users'[UserOf(t)] = users[UserOf(t)]
    BY <1>0, <1>3, <1>4 DEF UserOf, Existing
  <2>2. PICK g \in Handlers : run[g].at = "purge" /\ run[g].id = UserOf(t) /\ run[g].token # t
    BY <1>0, <2>1 DEF Relations, OldOnesEnd
  <2>3. QED
    BY <1>0, <1>2, <2>1, <2>2
<1>8. QED
  BY <1>5, <1>6, <1>7 DEF Relations

LEMMA SaveAccessKeeps == ASSUME AccountsInv, NEW h \in Handlers, NEW l \in Libraries, SaveAccess(h, l) PROVE Relations'
<1>0. TypeOK /\ Subjects /\ Relations /\ run[h].at = "access" /\ UNCHANGED <<users, lastId, sessions, excused, unpurged>>
  BY DEF AccountsInv, SaveAccess
<1>1. \A g \in Handlers : run'[g] = IF g = h THEN Idle ELSE run[g]
  BY <1>0, Ending DEF SaveAccess
<1>2. NewIdsAreNew' /\ Callers' /\ AdminRemains'
  BY <1>0, <1>1, SoundIdle DEF Relations, NewIdsAreNew, Callers, AdminRemains, UserOf, Admins, Existing
<1>3. GrantsGo'
  BY <1>0 DEF SaveAccess, Relations, GrantsGo, TypeOK, Existing
<1>4. OldOnesEnd'
  <2> SUFFICES ASSUME NEW t \in Tokens, UserOf(t) \in Existing \ unpurged,
                      sessions[t].password # users[UserOf(t)].password
               PROVE  \E g \in Handlers : run'[g].at = "purge" /\ run'[g].id = UserOf(t) /\ run'[g].token # t
    BY <1>0 DEF OldOnesEnd, UserOf, Existing
  <2>1. PICK g \in Handlers : run[g].at = "purge" /\ run[g].id = UserOf(t) /\ run[g].token # t
    BY <1>0 DEF Relations, OldOnesEnd
  <2>2. QED
    BY <1>0, <1>1, <2>1
<1>5. QED
  BY <1>2, <1>3, <1>4 DEF Relations

\* An account is created, by the first-run setup or by an admin.
LEMMA InsertKeeps ==
    ASSUME AccountsInv, NEW n \in Names, NEW isAdmin \in BOOLEAN, NEW local \in BOOLEAN, Insert(n, isAdmin, local),
           isAdmin \/ Admins # {},
           UNCHANGED <<grants, sessions, excused, unpurged>>,
           \A g \in Handlers : \/ run'[g] = run[g]
                               \/ run[g].at = "setup" /\ run'[g].at = "session" /\ run'[g].id = lastId + 1
    PROVE  Relations'
<1>0. TypeOK /\ Subjects /\ Relations /\ lastId \in Nat /\ lastId' = lastId + 1 /\ lastId' \in Ids
      /\ users'[lastId'] \in Accounts /\ users'[lastId'].admin = isAdmin
      /\ \A i \in Ids \ {lastId'} : users'[i] = users[i]
  BY Insertion, AccountsAssumption DEF AccountsInv, TypeOK
<1>1. \A t \in Tokens : UserOf(t)' = UserOf(t) /\ UserOf(t) <= lastId /\ UserOf(t) # lastId'
                       /\ UserOf(t) \in Nat
  <2>1. \A t \in Tokens : UserOf(t) \in Nat
    BY <1>0 DEF TypeOK, UserOf, Sessions, Ids
  <2>2. QED
    BY <1>0, <2>1 DEF Relations, NewIdsAreNew, UserOf
<1>2. NewIdsAreNew'
  <2>1. \A i \in Ids : users'[i] # none => i <= lastId'
    BY <1>0 DEF Relations, NewIdsAreNew, Ids
  <2>2. \A t \in Tokens : UserOf(t)' <= lastId'
    BY <1>0, <1>1
  <2>3. \A g \in Handlers : run'[g].at \notin {"idle", "delete"} => run'[g].id <= lastId'
    <3> SUFFICES ASSUME NEW g \in Handlers, run'[g].at \notin {"idle", "delete"} PROVE run'[g].id <= lastId'
      OBVIOUS
    <3>1. run[g].id \in Nat
      BY <1>0 DEF TypeOK, Runs, Ids
    <3>2. CASE run'[g] = run[g]
      BY <1>0, <3>1, <3>2 DEF Relations, NewIdsAreNew
    <3>3. CASE run'[g].id = lastId + 1
      BY <1>0, <3>3
    <3>4. QED
      BY <3>2, <3>3
  <2>4. QED
    BY <2>1, <2>2, <2>3 DEF NewIdsAreNew
<1>3. GrantsGo'
  BY <1>0, AccountsAssumption DEF Relations, GrantsGo
<1>4. Callers'
  BY <1>0, <1>1 DEF Relations, Callers, UserOf
<1>5. AdminRemains'
  <2>1. CASE isAdmin
    BY <1>0, <2>1, AccountsAssumption DEF AdminRemains, Admins, Existing
  <2>2. ASSUME NEW i \in Admins PROVE i \in Admins'
    <3>1. i \in Ids /\ i # lastId'
      BY <1>0, <2>2 DEF Admins, Existing, Relations, NewIdsAreNew, Ids
    <3>2. QED
      BY <1>0, <2>2, <3>1 DEF Admins, Existing
  <2>3. QED
    BY <2>1, <2>2 DEF AdminRemains
<1>6. OldOnesEnd'
  <2> SUFFICES ASSUME NEW t \in Tokens, UserOf(t)' \in (Existing \ unpurged)',
                      sessions'[t].password # users'[UserOf(t)'].password
               PROVE  \E g \in Handlers : run'[g].at = "purge" /\ run'[g].id = UserOf(t)' /\ run'[g].token # t
    BY DEF OldOnesEnd
  <2>1. UserOf(t)' = UserOf(t) /\ UserOf(t) \in Existing \ unpurged /\ users'[UserOf(t)] = users[UserOf(t)]
    BY <1>0, <1>1 DEF Existing
  <2>2. PICK g \in Handlers : run[g].at = "purge" /\ run[g].id = UserOf(t) /\ run[g].token # t
    BY <1>0, <2>1 DEF Relations, OldOnesEnd
  <2>3. QED
    BY <2>1, <2>2
<1>7. QED
  BY <1>2, <1>3, <1>4, <1>5, <1>6 DEF Relations

\* Both ways of creating one.
Creating == \/ \E h \in Handlers, n \in Names : CreateFirst(h, n)
            \/ \E t \in Tokens, n \in Names, isAdmin, local \in BOOLEAN : Create(t, n, isAdmin, local)

LEMMA CreatingKeeps == ASSUME AccountsInv, Creating PROVE Relations'
<1>0. TypeOK /\ Subjects /\ Relations
  BY DEF AccountsInv
<1>1. ASSUME NEW h \in Handlers, NEW n \in Names, CreateFirst(h, n) PROVE Relations'
  <2>1. CASE Named(n) = {}
    <3> DEFINE r == [Idle EXCEPT !.at = "session", !.id = lastId + 1, !.copy = users'[lastId + 1]]
    <3>1. Insert(n, TRUE, TRUE) /\ Becomes(h, r) /\ UNCHANGED <<grants, sessions, excused, unpurged>> /\ run[h].at = "setup"
      BY <1>1, <2>1 DEF CreateFirst, NewId
    <3>2. r.at = "session" /\ r.id = lastId + 1
      BY DEF Idle
    <3> HIDE DEF r
    <3>3. \A g \in Handlers : run'[g] = IF g = h THEN r ELSE run[g]
      BY <1>0, <3>1 DEF TypeOK, Becomes
    <3>4. QED
      BY <3>1, <3>2, <3>3, InsertKeeps
  <2>2. CASE Named(n) # {}
    <3>1. Reads(h, Idle)
      BY <1>1, <2>2, SoundIdle DEF CreateFirst, Reads, Ends
    <3>2. QED
      BY <3>1, Reading
  <2>3. QED
    BY <2>1, <2>2
<1>2. ASSUME NEW t \in Tokens, NEW n \in Names, NEW isAdmin \in BOOLEAN, NEW local \in BOOLEAN,
             Create(t, n, isAdmin, local)
      PROVE  Relations'
  BY <1>2, InsertKeeps DEF Create
<1>3. QED
  BY <1>1, <1>2 DEF Creating

\* The requests that only read.
Read(h) == \/ Setup(h) \/ Fails(h)
           \/ \E n \in Names : Login(h, n)
           \/ \E t \in Tokens : AskChange(h, t)
           \/ \E t \in Tokens, i \in Ids : AskAccess(h, t, i)
           \/ \E t \in Tokens, i \in Ids, does \in {"patch", "delete"} : AskManage(h, t, i, does)

\* What the requests do once they have read.
Written(h) == \/ Change(h) \/ Purge(h) \/ Delete(h)
              \/ \E n \in Names, isAdmin \in BOOLEAN : Patch(h, n, isAdmin)
              \/ \E t \in Tokens : StartSession(h, t)
              \/ \E l \in Libraries : SaveAccess(h, l)

LEMMA AccountsCases ==
    ASSUME Next
    PROVE  \/ \E h \in Handlers : Read(h) \/ Written(h)
           \/ \E t \in Tokens : EndSession(t)
           \/ Creating
<1>1. ASSUME NEW h \in Handlers, NEW n \in Names,
             CreateFirst(h, n) \/ Login(h, n) \/ \E isAdmin \in BOOLEAN : Patch(h, n, isAdmin)
      PROVE  Creating \/ Read(h) \/ Written(h)
  BY <1>1 DEF Creating, Read, Written
<1>2. ASSUME NEW h \in Handlers, NEW t \in Tokens,
             \/ StartSession(h, t) \/ AskChange(h, t)
             \/ \E i \in Ids : AskAccess(h, t, i) \/ \E does \in {"patch", "delete"} : AskManage(h, t, i, does)
      PROVE  Read(h) \/ Written(h)
  BY <1>2 DEF Read, Written
<1>3. ASSUME NEW t \in Tokens, EndSession(t) \/ \E n \in Names, isAdmin, local \in BOOLEAN : Create(t, n, isAdmin, local)
      PROVE  EndSession(t) \/ Creating
  BY <1>3 DEF Creating
<1>4. ASSUME NEW h \in Handlers, \/ Setup(h) \/ Change(h) \/ Purge(h) \/ Delete(h) \/ Fails(h)
                                \/ \E l \in Libraries : SaveAccess(h, l)
      PROVE  Read(h) \/ Written(h)
  BY <1>4 DEF Read, Written
<1>5. QED
  <2>1. CASE \E h \in Handlers :
               \/ Setup(h) \/ Change(h) \/ Purge(h) \/ Delete(h) \/ Fails(h)
               \/ \E n \in Names : CreateFirst(h, n) \/ Login(h, n) \/ \E isAdmin \in BOOLEAN : Patch(h, n, isAdmin)
               \/ \E t \in Tokens :
                      \/ StartSession(h, t) \/ AskChange(h, t)
                      \/ \E i \in Ids : AskAccess(h, t, i) \/ \E does \in {"patch", "delete"} : AskManage(h, t, i, does)
               \/ \E l \in Libraries : SaveAccess(h, l)
    BY <1>1, <1>2, <1>4, <2>1
  <2>2. CASE \E t \in Tokens : EndSession(t) \/ \E n \in Names, isAdmin, local \in BOOLEAN : Create(t, n, isAdmin, local)
    BY <1>3, <2>2
  <2>3. QED
    BY <2>1, <2>2 DEF Next

LEMMA AccountsInvariance == AccountsInv /\ [Next]_vars => AccountsInv'
<1> SUFFICES ASSUME AccountsInv, [Next]_vars PROVE AccountsInv'
  OBVIOUS
<1>1. CASE Next
  <2>1. TypeOK' /\ Subjects'
    BY <1>1, AccountsTyped DEF AccountsInv
  <2>2. ASSUME NEW h \in Handlers, Read(h) PROVE Relations'
    <3>1. PICK r : Reads(h, r)
      BY <2>2, ReadersKeep DEF Read
    <3>2. QED
      BY <3>1, Reading
  <2>3. Relations'
    BY <1>1, <2>2, AccountsCases, ChangeKeeps, PurgeKeeps, DeleteKeeps, PatchKeeps, StartSessionKeeps, SaveAccessKeeps,
       EndSessionKeeps, CreatingKeeps DEF Written
  <2>4. QED
    BY <2>1, <2>3 DEF AccountsInv
<1>2. CASE UNCHANGED vars
  BY <1>2 DEF vars, AccountsInv, TypeOK, Subjects, Relations, NewIdsAreNew, GrantsGo, Callers, OldOnesEnd, AdminRemains,
              UserOf, Admins, Existing
<1>3. QED
  BY <1>1, <1>2

LEMMA AccountsAlways == Spec => []AccountsInv
<1>1. Init => AccountsInv
  BY AccountsInit
<1>2. AccountsInv /\ [Next]_vars => AccountsInv'
  BY AccountsInvariance
<1>3. QED
  BY <1>1, <1>2, PTL DEF Spec

-----------------------------------------------------------------------------

\* Every variable keeps its type.
THEOREM AccountsTyping == Spec => []TypeOK
<1>1. AccountsInv => TypeOK
  BY DEF AccountsInv
<1>2. QED
  BY <1>1, AccountsAlways, PTL

\* An installation that was set up keeps an admin, whatever admins do to one another
\* at once, unless one of their requests was overtaken (dashboard.go:643, 686).
THEOREM AnAdminRemains == Spec => []AdminRemains
<1>1. AccountsInv => AdminRemains
  BY DEF AccountsInv, Relations
<1>2. QED
  BY <1>1, AccountsAlways, PTL

\* Once a password change is through, no session of another password is left, however
\* requests overlap, but for the three causes that `unpurged' records (auth.go:332).
THEOREM SessionsAreOfThePassword == Spec => []SessionsFollowPassword
<1>1. AccountsInv => SessionsFollowPassword
  BY DEF AccountsInv, Relations, OldOnesEnd, SessionsFollowPassword
<1>2. QED
  BY <1>1, AccountsAlways, PTL

\* A new account has no grants, sessions or requests of a removed one (store.go:645).
THEOREM NewAccountsAreNew == Spec => NothingInherited
<1> DEFINE Inherits == \A i \in Ids : users[i] = none /\ users'[i] # none =>
                           /\ grants'[i] = {}
                           /\ \A t \in Tokens : UserOf(t) # i
                           /\ \A h \in Handlers : run[h].at \in {"change", "purge", "patch", "access"} => run[h].id # i
<1>1. AccountsInv /\ [Next]_vars => [Inherits]_vars
  <2> SUFFICES ASSUME AccountsInv, Next, NEW i \in Ids, users[i] = none, users'[i] # none
               PROVE  /\ grants'[i] = {}
                      /\ \A t \in Tokens : UserOf(t) # i
                      /\ \A h \in Handlers : run[h].at \in {"change", "purge", "patch", "access"} => run[h].id # i
    BY DEF vars
  <2>1. Creating
    <3>1. ASSUME NEW h \in Handlers, Read(h) PROVE users' = users
      BY <3>1 DEF Read, Setup, Fails, Login, AskChange, AskAccess, AskManage
    <3>2. ASSUME NEW h \in Handlers, Change(h) PROVE users'[i] = none
      BY <3>2 DEF Change
    <3>3. ASSUME NEW h \in Handlers, NEW n \in Names, NEW isAdmin \in BOOLEAN, Patch(h, n, isAdmin) PROVE users'[i] = none
      BY <3>3 DEF Patch, AccountsInv, TypeOK, Existing
    <3>4. ASSUME NEW h \in Handlers, Delete(h) PROVE users'[i] = none
      BY <3>4 DEF Delete, AccountsInv, TypeOK
    <3>5. QED
      BY <3>1, <3>2, <3>3, <3>4, AccountsCases DEF Written, Purge, StartSession, SaveAccess, EndSession
  <2>2. PICK n \in Names, isAdmin \in BOOLEAN, local \in BOOLEAN : Insert(n, isAdmin, local) /\ grants' = grants
    BY <2>1 DEF Creating, CreateFirst, Create
  <2>3. i = lastId + 1 /\ lastId \in Nat
    BY <2>2, Insertion, AccountsAssumption DEF AccountsInv, TypeOK
  <2>4. \A t \in Tokens : UserOf(t) <= lastId
    BY DEF AccountsInv, Relations, NewIdsAreNew
  <2>5. \A h \in Handlers : run[h].at \in {"change", "purge", "patch", "access"} => run[h].id <= lastId
    BY DEF AccountsInv, Relations, NewIdsAreNew
  <2>6. QED
    BY <2>2, <2>3, <2>4, <2>5 DEF AccountsInv, Relations, GrantsGo
<1>2. QED
  BY <1>1, AccountsAlways, PTL DEF Spec, NothingInherited

-----------------------------------------------------------------------------

\* A non-empty set of naturals has a least one.
LEMMA LeastOfSet ==
  ASSUME NEW S, S \subseteq Nat, S # {}
  PROVE  \E x \in S : \A y \in S : x <= y
<1>1. PICK x \in S : \A y \in S : ~(<<y, x>> \in OpToRel(<, Nat))
  BY NatLessThanWellFounded, WFMin, Zenon
<1>2. \A y \in S : ~(y < x)
  BY <1>1 DEF OpToRel
<1>3. QED
  BY <1>2

-----------------------------------------------------------------------------
(* Updater.  Compare orders the versions as Precedes does.                  *)

IDs == {0, 1} \X Nat

\* The first comparison that tells a difference decides, if one does.
LEMMA FirstDecides ==
  ASSUME NEW cs \in Seq(Int)
  PROVE  \/ U!Decided(cs) = 0 /\ \A i \in 1 .. Len(cs) : cs[i] = 0
         \/ \E i \in 1 .. Len(cs) :
                cs[i] # 0 /\ U!Decided(cs) = cs[i] /\ \A k \in 1 .. (i - 1) : cs[k] = 0
<1> DEFINE I == {i \in 1 .. Len(cs) : cs[i] # 0}
<1>1. U!Decided(cs) = LET i == IF I # {} THEN U!Min(I) ELSE 0 IN IF i = 0 THEN 0 ELSE cs[i]
  BY DEF U!Decided, U!SelectInSeq
<1>2. I \subseteq Nat
  OBVIOUS
<1> HIDE DEF I
<1>3. CASE I = {}
  BY <1>1, <1>3 DEF I
<1>4. CASE I # {}
  <2>1. U!Min(I) \in I /\ \A k \in I : U!Min(I) <= k
    BY <1>2, <1>4, LeastOfSet DEF U!Min
  <2>2. U!Decided(cs) = cs[U!Min(I)]
    BY <1>1, <1>4, <2>1 DEF I
  <2>3. \A k \in 1 .. (U!Min(I) - 1) : cs[k] = 0
    BY <2>1 DEF I
  <2>4. QED
    BY <2>1, <2>2, <2>3 DEF I
<1>5. QED
  BY <1>3, <1>4

\* The same of a list of comparisons and a last one.
LEMMA FirstOrLastDecides ==
  ASSUME NEW n \in Nat, NEW f \in [1 .. n -> Int], NEW c \in Int
  PROVE  \/ U!Decided(f \o <<c>>) = c /\ \A i \in 1 .. n : f[i] = 0
         \/ \E i \in 1 .. n :
                f[i] # 0 /\ U!Decided(f \o <<c>>) = f[i] /\ \A k \in 1 .. (i - 1) : f[k] = 0
<1> DEFINE cs == f \o <<c>>
<1>1. f \in Seq(Int) /\ Len(f) = n
  OBVIOUS
<1>2. /\ cs \in Seq(Int) /\ Len(cs) = n + 1
      /\ cs[n + 1] = c /\ \A i \in 1 .. n : cs[i] = f[i]
  BY <1>1
<1> HIDE DEF cs
<1>3. CASE U!Decided(cs) = 0 /\ \A i \in 1 .. Len(cs) : cs[i] = 0
  BY <1>2, <1>3 DEF cs
<1>4. ASSUME NEW i \in 1 .. Len(cs), cs[i] # 0, U!Decided(cs) = cs[i], \A k \in 1 .. (i - 1) : cs[k] = 0
      PROVE  \/ U!Decided(cs) = c /\ \A k \in 1 .. n : f[k] = 0
             \/ \E k \in 1 .. n : f[k] # 0 /\ U!Decided(cs) = f[k] /\ \A l \in 1 .. (k - 1) : f[l] = 0
  <2>1. CASE i = n + 1
    BY <1>2, <1>4, <2>1
  <2>2. CASE i \in 1 .. n
    BY <1>2, <1>4, <2>2
  <2>3. QED
    BY <1>2, <2>1, <2>2
<1>5. QED
  BY <1>2, <1>3, <1>4, FirstDecides DEF cs

LEMMA IntOrder ==
  ASSUME NEW a \in Int, NEW b \in Int
  PROVE  /\ U!CmpInt(a, b) \in {-1, 0, 1}
         /\ U!CmpInt(a, b) < 0 <=> a < b
         /\ U!CmpInt(a, b) > 0 <=> b < a
         /\ U!CmpInt(a, b) = 0 <=> a = b
BY DEF U!CmpInt

\* cmpPreID.
LEMMA IDOrder ==
  ASSUME NEW a \in IDs, NEW b \in IDs
  PROVE  /\ U!CmpPreID(a, b) \in {-1, 0, 1}
         /\ U!CmpPreID(a, b) < 0 <=> IDPrecedes(a, b)
         /\ U!CmpPreID(a, b) > 0 <=> IDPrecedes(b, a)
         /\ U!CmpPreID(a, b) = 0 <=> a = b
<1> DEFINE c == U!CmpInt(a[1], b[1])  d == U!CmpInt(a[2], b[2])
<1>1. a[1] \in Int /\ a[2] \in Int /\ b[1] \in Int /\ b[2] \in Int /\ (a = b <=> a[1] = b[1] /\ a[2] = b[2])
  BY DEF IDs
<1>2. /\ c \in {-1, 0, 1} /\ (c < 0 <=> a[1] < b[1]) /\ (c > 0 <=> b[1] < a[1]) /\ (c = 0 <=> a[1] = b[1])
      /\ d \in {-1, 0, 1} /\ (d < 0 <=> a[2] < b[2]) /\ (d > 0 <=> b[2] < a[2]) /\ (d = 0 <=> a[2] = b[2])
  BY <1>1, IntOrder
<1> HIDE DEF c, d
<1>3. <<c, d>> \in Seq(Int) /\ Len(<<c, d>>) = 2 /\ <<c, d>>[1] = c /\ <<c, d>>[2] = d
  BY <1>2
<1>4. U!CmpPreID(a, b) = IF c # 0 THEN c ELSE d
  <2>1. U!CmpPreID(a, b) = U!Decided(<<c, d>>)
    BY DEF U!CmpPreID, c, d
  <2>2. \/ U!Decided(<<c, d>>) = 0 /\ c = 0 /\ d = 0
        \/ c # 0 /\ U!Decided(<<c, d>>) = c
        \/ c = 0 /\ U!Decided(<<c, d>>) = d
    <3> DEFINE cs == <<c, d>>
    <3>1. cs \in Seq(Int) /\ Len(cs) = 2 /\ cs[1] = c /\ cs[2] = d
      BY <1>3
    <3> HIDE DEF cs
    <3>2. \/ U!Decided(cs) = 0 /\ \A i \in 1 .. 2 : cs[i] = 0
          \/ \E i \in 1 .. 2 :
                cs[i] # 0 /\ U!Decided(cs) = cs[i] /\ \A k \in 1 .. (i - 1) : cs[k] = 0
      BY <3>1, FirstDecides
    <3>3. \/ U!Decided(cs) = 0 /\ c = 0 /\ d = 0
          \/ c # 0 /\ U!Decided(cs) = c
          \/ c = 0 /\ U!Decided(cs) = d
      BY <3>1, <3>2
    <3>4. QED
      BY <3>3 DEF cs
  <2>3. QED
    BY <2>1, <2>2
<1>5. QED
  BY <1>1, <1>2, <1>4 DEF IDPrecedes

LEMMA IDsAsymmetric ==
  ASSUME NEW a \in IDs, NEW b \in IDs, IDPrecedes(a, b)
  PROVE  ~IDPrecedes(b, a) /\ a # b
BY DEF IDs, IDPrecedes

\* cmpPre: the first identifier that differs, then the number of them.
LEMMA PreOrder ==
  ASSUME NEW a \in Seq(IDs), NEW b \in Seq(IDs)
  PROVE  /\ U!CmpPre(a, b) \in Int
         /\ U!CmpPre(a, b) < 0 => PrePrecedes(a, b)
         /\ U!CmpPre(a, b) > 0 => PrePrecedes(b, a)
         /\ U!CmpPre(a, b) = 0 => a = b
<1>a. Len(a) \in Nat /\ Len(b) \in Nat
  OBVIOUS
<1>b. DOMAIN a = 1 .. Len(a) /\ DOMAIN b = 1 .. Len(b)
  OBVIOUS
<1>c. (\A i \in 1 .. Len(a) : a[i] \in IDs) /\ (\A i \in 1 .. Len(b) : b[i] \in IDs)
  OBVIOUS
<1>1. CASE a = <<>> /\ b = <<>>
  BY <1>1 DEF U!CmpPre
<1>2. CASE a = <<>> /\ b # <<>>
  <2>1. U!CmpPre(a, b) = 1
    BY <1>2 DEF U!CmpPre
  <2>2. QED
    BY <1>2, <2>1 DEF PrePrecedes
<1>3. CASE a # <<>> /\ b = <<>>
  <2>1. U!CmpPre(a, b) = -1
    BY <1>3 DEF U!CmpPre
  <2>2. QED
    BY <1>3, <2>1 DEF PrePrecedes
<1>4. CASE a # <<>> /\ b # <<>>
  <2> DEFINE n == IF Len(a) < Len(b) THEN Len(a) ELSE Len(b)
             f == [i \in 1 .. n |-> U!CmpPreID(a[i], b[i])]
             c == U!CmpInt(Len(a), Len(b))
  <2>1. U!CmpPre(a, b) = U!Decided(f \o <<c>>)
    BY <1>4 DEF U!CmpPre
  <2>2. n \in Nat /\ n <= Len(a) /\ n <= Len(b) /\ (n = Len(a) \/ n = Len(b))
    BY <1>a
  <2>3. /\ c \in {-1, 0, 1}
        /\ (c < 0 <=> Len(a) < Len(b)) /\ (c > 0 <=> Len(b) < Len(a)) /\ (c = 0 <=> Len(a) = Len(b))
    <3>1. Len(a) \in Int /\ Len(b) \in Int
      BY <1>a
    <3>2. QED
      BY <3>1, IntOrder
  <2> HIDE DEF n, c
  <2>4. \A i \in 1 .. n : a[i] \in IDs /\ b[i] \in IDs
    BY <1>a, <1>c, <2>2
  <2>5. /\ \A i \in 1 .. n : f[i] \in Int
        /\ \A i \in 1 .. n : f[i] < 0 <=> IDPrecedes(a[i], b[i])
        /\ \A i \in 1 .. n : f[i] > 0 <=> IDPrecedes(b[i], a[i])
        /\ \A i \in 1 .. n : f[i] = 0 <=> a[i] = b[i]
    BY <2>4, IDOrder
  <2>6. f \in [1 .. n -> Int]
    BY <2>5
  <2> HIDE DEF f
  <2>7. \/ U!CmpPre(a, b) = c /\ \A i \in 1 .. n : f[i] = 0
        \/ \E i \in 1 .. n :
              f[i] # 0 /\ U!CmpPre(a, b) = f[i] /\ \A k \in 1 .. (i - 1) : f[k] = 0
    <3>1. \/ U!Decided(f \o <<c>>) = c /\ \A i \in 1 .. n : f[i] = 0
          \/ \E i \in 1 .. n :
                f[i] # 0 /\ U!Decided(f \o <<c>>) = f[i] /\ \A k \in 1 .. (i - 1) : f[k] = 0
      <4>1. c \in Int
        BY <2>3
      <4>2. QED
        BY <2>2, <2>6, <4>1, FirstOrLastDecides
    <3>2. QED
      BY <2>1, <3>1
  <2>8. CASE U!CmpPre(a, b) = c /\ \A i \in 1 .. n : f[i] = 0
    <3>1. \A i \in 1 .. n : a[i] = b[i]
      BY <2>5, <2>8
    <3>2. Len(a) = Len(b) => a = b
      <4>1. SUFFICES ASSUME Len(a) = Len(b) PROVE a = b
        OBVIOUS
      <4>2. \A i \in 1 .. Len(a) : a[i] = b[i]
        BY <2>2, <3>1, <4>1
      <4>3. QED
        BY <4>1, <4>2
    <3>3. ASSUME Len(a) < Len(b) PROVE PrePrecedes(a, b)
      <4>0. n = Len(a)
        BY <1>a, <2>2, <3>3
      <4>1. \A i \in DOMAIN a : a[i] = b[i]
        BY <1>b, <3>1, <4>0
      <4>2. QED
        BY <1>4, <3>3, <4>1 DEF PrePrecedes
    <3>4. ASSUME Len(b) < Len(a) PROVE PrePrecedes(b, a)
      <4>0. n = Len(b)
        BY <1>a, <2>2, <3>4
      <4>1. \A i \in DOMAIN b : b[i] = a[i]
        BY <1>b, <3>1, <4>0
      <4>2. QED
        BY <1>4, <3>4, <4>1 DEF PrePrecedes
    <3>5. QED
      BY <2>3, <2>8, <3>2, <3>3, <3>4
  <2>9. ASSUME NEW i \in 1 .. n, f[i] # 0, U!CmpPre(a, b) = f[i], \A k \in 1 .. (i - 1) : f[k] = 0
        PROVE  /\ U!CmpPre(a, b) \in Int
               /\ U!CmpPre(a, b) < 0 => PrePrecedes(a, b)
               /\ U!CmpPre(a, b) > 0 => PrePrecedes(b, a)
               /\ U!CmpPre(a, b) = 0 => a = b
    <3>1. i \in DOMAIN a \cap DOMAIN b /\ \A k \in 1 .. (i - 1) : a[k] = b[k] /\ b[k] = a[k]
      BY <1>a, <1>b, <2>2, <2>5, <2>9
    <3>2. f[i] < 0 => PrePrecedes(a, b)
      BY <1>4, <2>5, <3>1 DEF PrePrecedes
    <3>3. f[i] > 0 => PrePrecedes(b, a)
      BY <1>4, <2>5, <3>1 DEF PrePrecedes
    <3>4. QED
      BY <2>5, <2>9, <3>2, <3>3
  <2>10. QED
    BY <2>3, <2>7, <2>8, <2>9
<1>5. QED
  BY <1>1, <1>2, <1>3, <1>4

LEMMA PreAsymmetric ==
  ASSUME NEW a \in Seq(IDs), NEW b \in Seq(IDs), PrePrecedes(a, b)
  PROVE  ~PrePrecedes(b, a) /\ a # b
<1>0. /\ Len(a) \in Nat /\ Len(b) \in Nat /\ DOMAIN a = 1 .. Len(a) /\ DOMAIN b = 1 .. Len(b)
      /\ \A i \in DOMAIN a : a[i] \in IDs
      /\ \A i \in DOMAIN b : b[i] \in IDs
  OBVIOUS
<1>1. a # <<>>
  BY DEF PrePrecedes
<1>2. CASE b = <<>>
  BY <1>1, <1>2 DEF PrePrecedes
<1>3. CASE Len(a) < Len(b) /\ \A i \in DOMAIN a : a[i] = b[i]
  BY <1>0, <1>1, <1>3, IDsAsymmetric DEF PrePrecedes
<1>4. ASSUME NEW k \in DOMAIN a \cap DOMAIN b, IDPrecedes(a[k], b[k]), \A i \in 1 .. (k - 1) : a[i] = b[i]
      PROVE  ~PrePrecedes(b, a) /\ a # b
  <2>1. a[k] # b[k] /\ ~IDPrecedes(b[k], a[k])
    BY <1>0, <1>4, IDsAsymmetric
  <2>2. ~(Len(b) < Len(a) /\ \A i \in DOMAIN b : b[i] = a[i])
    BY <1>0, <1>4, <2>1
  <2>3. ASSUME NEW l \in DOMAIN b \cap DOMAIN a, IDPrecedes(b[l], a[l]), \A i \in 1 .. (l - 1) : b[i] = a[i]
        PROVE  FALSE
    <3>1. b[l] # a[l]
      BY <1>0, <2>3, IDsAsymmetric
    <3>2. CASE l < k
      BY <1>0, <1>4, <3>1, <3>2
    <3>3. CASE k < l
      BY <1>0, <2>1, <2>3, <3>3
    <3>4. CASE k = l
      BY <2>1, <2>3, <3>4
    <3>5. QED
      BY <1>0, <3>2, <3>3, <3>4
  <2>4. QED
    BY <1>1, <2>1, <2>2, <2>3 DEF PrePrecedes
<1>5. QED
  BY <1>2, <1>3, <1>4 DEF PrePrecedes

\* Semver.Compare tells which of two versions precedes the other, and that they are
\* equal only if they differ in their metadata at most (semver.go:98).
THEOREM CompareIsPrecedence ==
  ASSUME NEW a \in SemVer, NEW b \in SemVer
  PROVE  /\ U!Compare(a, b) \in Int
         /\ U!Compare(a, b) < 0 <=> Precedes(a, b)
         /\ U!Compare(a, b) > 0 <=> Precedes(b, a)
         /\ U!Compare(a, b) = 0 <=> a.nums = b.nums /\ a.pre = b.pre
<1> DEFINE f == [i \in 1 .. 3 |-> U!CmpInt(a.nums[i], b.nums[i])]
           c == U!CmpPre(a.pre, b.pre)
<1>1. /\ a.nums \in [1 .. 3 -> Nat] /\ b.nums \in [1 .. 3 -> Nat]
      /\ a.pre \in Seq(IDs) /\ b.pre \in Seq(IDs)
  BY DEF SemVer, IDs
<1>2. /\ c \in Int
      /\ (c < 0 => PrePrecedes(a.pre, b.pre)) /\ (c > 0 => PrePrecedes(b.pre, a.pre))
      /\ (c = 0 => a.pre = b.pre)
  BY <1>1, PreOrder
<1>3. /\ \A i \in 1 .. 3 : f[i] \in Int
      /\ \A i \in 1 .. 3 : f[i] < 0 <=> a.nums[i] < b.nums[i]
      /\ \A i \in 1 .. 3 : f[i] > 0 <=> b.nums[i] < a.nums[i]
      /\ \A i \in 1 .. 3 : f[i] = 0 <=> a.nums[i] = b.nums[i]
  <2> SUFFICES ASSUME NEW i \in 1 .. 3
               PROVE  /\ f[i] \in Int
                      /\ f[i] < 0 <=> a.nums[i] < b.nums[i]
                      /\ f[i] > 0 <=> b.nums[i] < a.nums[i]
                      /\ f[i] = 0 <=> a.nums[i] = b.nums[i]
    OBVIOUS
  <2>1. f[i] = U!CmpInt(a.nums[i], b.nums[i])
    OBVIOUS
  <2>2. a.nums[i] \in Int /\ b.nums[i] \in Int
    BY <1>1
  <2> HIDE DEF f
  <2>3. QED
    BY <2>1, <2>2, IntOrder
<1>4. f \in [1 .. 3 -> Int] /\ U!Compare(a, b) = U!Decided(f \o <<c>>)
  BY <1>3 DEF U!Compare
<1> HIDE DEF f, c
<1>5. \/ U!Compare(a, b) = c /\ \A i \in 1 .. 3 : f[i] = 0
      \/ \E i \in 1 .. 3 :
            f[i] # 0 /\ U!Compare(a, b) = f[i] /\ \A k \in 1 .. (i - 1) : f[k] = 0
  <2>1. \/ U!Decided(f \o <<c>>) = c /\ \A i \in 1 .. 3 : f[i] = 0
        \/ \E i \in 1 .. 3 :
              f[i] # 0 /\ U!Decided(f \o <<c>>) = f[i] /\ \A k \in 1 .. (i - 1) : f[k] = 0
    BY <1>2, <1>4, FirstOrLastDecides
  <2>2. QED
    BY <1>4, <2>1
<1>6. /\ U!Compare(a, b) \in Int
      /\ U!Compare(a, b) < 0 => Precedes(a, b)
      /\ U!Compare(a, b) > 0 => Precedes(b, a)
      /\ U!Compare(a, b) = 0 => a.nums = b.nums /\ a.pre = b.pre
  <2>1. CASE U!Compare(a, b) = c /\ \A i \in 1 .. 3 : f[i] = 0
    <3>1. a.nums = b.nums
      BY <1>1, <1>3, <2>1
    <3>2. QED
      BY <1>2, <2>1, <3>1 DEF Precedes
  <2>2. ASSUME NEW i \in 1 .. 3, f[i] # 0, U!Compare(a, b) = f[i], \A k \in 1 .. (i - 1) : f[k] = 0
        PROVE  /\ U!Compare(a, b) \in Int /\ U!Compare(a, b) # 0
               /\ U!Compare(a, b) < 0 => Precedes(a, b)
               /\ U!Compare(a, b) > 0 => Precedes(b, a)
    <3>1. \A k \in 1 .. (i - 1) : a.nums[k] = b.nums[k] /\ b.nums[k] = a.nums[k]
      BY <1>3, <2>2
    <3>2. QED
      BY <1>3, <2>2, <3>1 DEF Precedes
  <2>3. QED
    BY <1>5, <2>1, <2>2
<1>7. ~(Precedes(a, b) /\ Precedes(b, a))
  <2>1. ASSUME a.nums = b.nums, PrePrecedes(a.pre, b.pre), PrePrecedes(b.pre, a.pre) PROVE FALSE
    BY <1>1, <2>1, PreAsymmetric
  <2>2. \A i \in 1 .. 3 : a.nums[i] \in Nat /\ b.nums[i] \in Nat
    BY <1>1
  <2>3. QED
    BY <2>1, <2>2 DEF Precedes
<1>8. a.nums = b.nums /\ a.pre = b.pre => ~Precedes(a, b) /\ ~Precedes(b, a)
  <2>1. \A i \in 1 .. 3 : a.nums[i] \in Nat
    BY <1>1
  <2>2. QED
    BY <1>1, <2>1, PreAsymmetric DEF Precedes
<1>9. QED
  BY <1>6, <1>7, <1>8

LEMMA ElementsOfSeq == ASSUME NEW S, NEW s \in Seq(S) PROVE \A i \in DOMAIN s : s[i] \in S
OBVIOUS

\* The place of a version: that of its publication, 0 for one that does not parse.
LEMMA Places ==
  /\ DOMAIN Published = 1 .. Len(Published) /\ Len(Published) \in Nat
  /\ \A i \in DOMAIN Published : Published[i].version \in SemVer /\ U!Place(Published[i].version) = i
  /\ \A v \in U!Versions :
         \/ U!Parses(v) /\ U!Place(v) \in DOMAIN Published /\ Published[U!Place(v)].version = v
         \/ v \in Odd /\ ~U!Parses(v) /\ U!Place(v) = 0
<1>0. Published \in Seq([version : SemVer, channel : {"stable", "nightly", "other"}])
  BY UpdaterAssumption
<1>1. /\ DOMAIN Published = 1 .. Len(Published) /\ Len(Published) \in Nat
      /\ \A i \in DOMAIN Published : Published[i].version \in SemVer
  <2>1. DOMAIN Published = 1 .. Len(Published) /\ Len(Published) \in Nat
    BY <1>0
  <2>2. \A i \in DOMAIN Published : Published[i] \in [version : SemVer, channel : {"stable", "nightly", "other"}]
    BY <1>0, ElementsOfSeq
  <2>3. QED
    BY <2>1, <2>2
<1>2. \A i \in DOMAIN Published : U!Parses(Published[i].version)
  BY <1>1 DEF SemVer, U!Parses
<1>3. \A i \in DOMAIN Published : \A k \in 1 .. (i - 1) : Published[k].version # Published[i].version
  <2> SUFFICES ASSUME NEW i \in DOMAIN Published, NEW k \in 1 .. (i - 1),
                      Published[k].version = Published[i].version
               PROVE  FALSE
    OBVIOUS
  <2>1. Published[i].version \in SemVer
    BY <1>1
  <2>2. ~Precedes(Published[i].version, Published[i].version)
    BY <2>1, CompareIsPrecedence
  <2>3. QED
    BY <2>2, UpdaterAssumption
<1>4. ASSUME NEW v
      PROVE  U!Place(v) = LET I == {i \in 1 .. Len(Published) : Published[i].version = v}
                          IN  IF I # {} THEN U!Min(I) ELSE 0
  BY DEF U!Place, U!SelectInSeq
<1>5. ASSUME NEW i \in DOMAIN Published PROVE U!Place(Published[i].version) = i
  <2> DEFINE I == {k \in 1 .. Len(Published) : Published[k].version = Published[i].version}
  <2>1. I = {i}
    BY <1>1, <1>3
  <2>2. U!Min({i}) = i
    BY <1>1 DEF U!Min
  <2>3. QED
    BY <1>4, <2>1, <2>2
<1>6. ASSUME NEW v \in Odd PROVE ~U!Parses(v) /\ U!Place(v) = 0
  <2>1. ~U!Parses(v)
    BY UpdaterAssumption DEF U!Parses
  <2>2. {i \in 1 .. Len(Published) : Published[i].version = v} = {}
    BY <1>1, <1>2, <2>1
  <2>3. QED
    BY <1>4, <2>1, <2>2
<1>7. \A v \in U!Versions : v \in Odd \/ \E i \in DOMAIN Published : v = Published[i].version
  BY DEF U!Versions
<1>8. QED
  BY <1>1, <1>2, <1>5, <1>6, <1>7

\* How Compare judges what was published before.
LEMMA EarlierCompares ==
  ASSUME NEW j \in DOMAIN Published, NEW i \in 1 .. (j - 1),
         NEW v, v = Published[i].version, NEW w, w = Published[j].version
  PROVE  /\ v \in SemVer /\ w \in SemVer /\ v # w
         /\ \/ U!Compare(w, v) > 0 /\ U!Compare(v, w) < 0 /\ ~U!SameRelease(v, w)
            \/ U!Compare(w, v) = 0 /\ U!Compare(v, w) = 0 /\ U!SameRelease(v, w)
<1>1. i \in DOMAIN Published /\ v \in SemVer /\ w \in SemVer /\ v # w
  BY Places
<1>2. Precedes(v, w) \/ U!SameRelease(v, w)
  BY UpdaterAssumption
<1>3. /\ U!Compare(w, v) \in Int /\ U!Compare(v, w) \in Int
      /\ (U!Compare(v, w) < 0 <=> Precedes(v, w)) /\ (U!Compare(w, v) > 0 <=> Precedes(v, w))
      /\ (U!Compare(v, w) = 0 <=> U!SameRelease(v, w)) /\ (U!Compare(w, v) = 0 <=> U!SameRelease(v, w))
  BY <1>1, CompareIsPrecedence DEF U!SameRelease
<1>4. QED
  BY <1>1, <1>2, <1>3

\* What the installer takes for an upgrade was published later, but for a nightly of the
\* number of an installed release; provided that of two nightlies it is the later one.
LEMMA UpgradeIsLater ==
  ASSUME NEW v \in U!Versions, NEW j \in DOMAIN Published, NEW w, w = Published[j].version,
         U!InstallVerdict(v, w) = "upgrade",
         U!NightlyDay(v) > 0 /\ U!NightlyDay(w) > 0 => U!Place(v) <= j
  PROVE  /\ U!Parses(v) /\ U!Place(v) \in DOMAIN Published
         /\ U!Place(v) < j \/ (U!SameRelease(v, w) /\ v.meta = <<>> /\ U!NightlyDay(w) > 0)
<1>1. U!Parses(v) /\ v # w
  BY DEF U!InstallVerdict
<1>2. PICK i \in DOMAIN Published : i = U!Place(v) /\ Published[i].version = v
  BY <1>1, Places
<1>3. i \in Nat /\ j \in Nat /\ i # j
  BY <1>1, <1>2, Places
<1>4. ASSUME j < i PROVE U!SameRelease(v, w) /\ v.meta = <<>> /\ U!NightlyDay(w) > 0
  <2>1. j \in 1 .. (i - 1)
    BY <1>3, <1>4, Places
  <2>2. \/ U!Compare(w, v) < 0
        \/ U!Compare(w, v) = 0 /\ U!SameRelease(w, v)
    BY <1>2, <2>1, EarlierCompares
  <2>3. ~(U!NightlyDay(v) > 0 /\ U!NightlyDay(w) > 0)
    BY <1>2, <1>3, <1>4
  <2>4. U!Compare(w, v) \in Int
    BY <1>2, Places, CompareIsPrecedence
  <2>5. U!Compare(w, v) = 0 /\ U!NightlyDay(w) > 0 /\ (v.meta = <<>> \/ U!NightlyDay(v) > 0)
    BY <2>2, <2>4 DEF U!InstallVerdict
  <2>6. QED
    BY <2>2, <2>3, <2>5 DEF U!SameRelease
<1>5. QED
  BY <1>1, <1>2, <1>3, <1>4

\* A stable release is newer than exactly what was published before it and has another
\* number, and the installer takes it for an upgrade of that.
LEMMA StableIsNewer ==
  ASSUME NEW v \in U!Versions, U!Parses(v), NEW j \in DOMAIN Published, NEW w, w = Published[j].version
  PROVE  /\ U!Place(v) \in DOMAIN Published
         /\ U!Compare(w, v) > 0 <=> U!Place(v) < j /\ ~U!SameRelease(v, w)
         /\ U!Place(v) < j /\ ~U!SameRelease(v, w) => U!InstallVerdict(v, w) = "upgrade"
<1>1. PICK i \in DOMAIN Published : i = U!Place(v) /\ Published[i].version = v
  BY Places
<1>2. i \in Nat /\ j \in Nat /\ w \in SemVer /\ v \in SemVer
  BY <1>1, Places
<1>3. CASE i < j
  <2>1. i \in 1 .. (j - 1)
    BY <1>1, <1>2, <1>3, Places
  <2>2. /\ v # w
        /\ \/ U!Compare(w, v) > 0 /\ ~U!SameRelease(v, w)
           \/ U!Compare(w, v) = 0 /\ U!SameRelease(v, w)
    BY <1>1, <2>1, EarlierCompares
  <2>3. U!Parses(w)
    BY <1>2 DEF SemVer, U!Parses
  <2>4. QED
    BY <1>1, <1>2, <1>3, <2>2, <2>3 DEF U!InstallVerdict
<1>4. CASE i = j
  BY <1>1, <1>2, <1>4, CompareIsPrecedence
<1>5. CASE j < i
  <2>1. j \in 1 .. (i - 1)
    BY <1>2, <1>5, Places
  <2>2. U!Compare(w, v) < 0 \/ U!Compare(w, v) = 0
    BY <1>1, <2>1, EarlierCompares
  <2>3. U!Compare(w, v) \in Int
    BY <1>2, CompareIsPrecedence
  <2>4. QED
    BY <1>1, <1>2, <1>5, <2>2, <2>3
<1>6. QED
  BY <1>2, <1>3, <1>4, <1>5

-----------------------------------------------------------------------------
(* What the script holds, and what the dashboard says, is of the versions   *)
(* that are installed; one that does not parse is the only one ever.        *)

Cleared == recorded = none \/ U!InstallVerdict(recorded, bundle) = "upgrade"

OfferIsOfCurrent ==
    offer.latest # 0 /\ ~offer.error =>
        /\ offer.latest \in DOMAIN Published /\ Published[offer.latest].channel = "stable"
        /\ offer.available <=> U!IsNewer(current, Published[offer.latest].version)
        /\ U!IsDev(current) \/ U!Parses(current)

IsOut(v) == \E i \in 1 .. out : v = Published[i].version

\* The bundle was the newest nightly when it was downloaded, with what is recorded out.
NewestNightly ==
    recorded # none /\ U!NightlyDay(recorded) > 0 /\ U!NightlyDay(bundle) > 0 => U!Place(recorded) <= U!Place(bundle)

UpdateInv ==
    /\ U!TypeOK
    /\ recorded \in Odd \cup {none} \/ IsOut(recorded)
    /\ unit \notin {"none", "download"} => IsOut(bundle) /\ NewestNightly
    /\ unit \in {"binary", "version"} => Cleared
    /\ unit = "version" => binary = bundle
    /\ recorded \in Odd => binary = recorded /\ current = recorded
    /\ OfferIsOfCurrent

\* The newest of a channel is one that is out.
LEMMA NewestIsOut ==
  ASSUME NEW c, out \in 0 .. Len(Published)
  PROVE  /\ U!Newest(c) \in 0 .. Len(Published)
         /\ U!Newest(c) # 0 => /\ U!Newest(c) \in 1 .. out /\ U!Newest(c) \in DOMAIN Published
                               /\ Published[U!Newest(c)].channel = c
                               /\ \A i \in 1 .. out : Published[i].channel = c => i <= U!Newest(c)
<1> DEFINE I == {i \in 1 .. Len(U!Out) : U!Out[i].channel = c}
<1>1. U!Newest(c) = IF I # {} THEN U!Max(I) ELSE 0
  BY DEF U!Newest, U!SelectLastInSeq
<1>2. /\ Len(U!Out) = out /\ \A i \in 1 .. out : U!Out[i] = Published[i]
      /\ out \in Nat /\ out <= Len(Published)
  <2>1. Published \in Seq([version : SemVer, channel : {"stable", "nightly", "other"}])
    BY UpdaterAssumption
  <2>2. QED
    BY <2>1, Places DEF U!Out
<1>3. I \subseteq 1 .. out
  BY <1>2
<1> HIDE DEF I
<1>4. I # {} => U!Max(I) \in I /\ \A i \in I : i <= U!Max(I)
  <2> SUFFICES ASSUME I # {} PROVE U!Max(I) \in I /\ \A i \in I : i <= U!Max(I)
    OBVIOUS
  <2> DEFINE D == {out - i : i \in I}
  <2>0. \A i \in I : i \in Int /\ i <= out
    BY <1>2, <1>3
  <2>1. D \subseteq Nat /\ D # {}
    BY <1>2, <2>0
  <2>2. PICK d \in D : \A e \in D : d <= e
    BY <2>1, LeastOfSet
  <2>3. PICK m \in I : d = out - m
    BY <2>2
  <2>4. \A i \in I : m >= i
    <3> SUFFICES ASSUME NEW i \in I PROVE m >= i
      OBVIOUS
    <3>1. out - i \in D
      OBVIOUS
    <3>2. out - m <= out - i
      BY <2>2, <2>3, <3>1
    <3>3. QED
      BY <1>2, <2>0, <3>2
  <2>5. U!Max(I) \in I /\ \A i \in I : U!Max(I) >= i
    BY <2>4 DEF U!Max
  <2>6. QED
    BY <2>0, <2>5
<1>5. CASE I = {}
  BY <1>1, <1>5, Places
<1>6. CASE I # {}
  <2>1. U!Newest(c) \in I /\ \A i \in I : i <= U!Newest(c)
    BY <1>1, <1>4, <1>6
  <2>2. QED
    BY <1>2, <1>3, <2>1, Places DEF I
<1>7. QED
  BY <1>5, <1>6

LEMMA UpdateInit == U!Init => UpdateInv
<1> SUFFICES ASSUME U!Init PROVE UpdateInv
  OBVIOUS
<1>1. current \in U!Versions /\ out \in 0 .. Len(Published)
  BY Places DEF U!Init, U!Versions
<1>2. U!Nothing \in U!Results /\ U!Nothing.latest = 0
  BY Places DEF U!Nothing, U!Results
<1>3. U!TypeOK
  BY <1>1, <1>2 DEF U!Init, U!TypeOK
<1>4. OfferIsOfCurrent
  BY <1>2 DEF U!Init, OfferIsOfCurrent
<1>5. none \notin Odd
  BY UpdaterAssumption DEF U!Versions
<1>6. recorded \in Odd \cup {none} \/ IsOut(recorded)
  BY DEF U!Init, IsOut
<1>7. QED
  BY <1>3, <1>4, <1>5, <1>6 DEF U!Init, UpdateInv

\* What is out has its place.
LEMMA OutPlaces ==
  ASSUME NEW v, out \in 0 .. Len(Published), IsOut(v)
  PROVE  /\ U!Place(v) \in 1 .. out /\ U!Place(v) \in DOMAIN Published
         /\ v = Published[U!Place(v)].version
<1>1. PICK i \in 1 .. out : v = Published[i].version
  BY DEF IsOut
<1>2. i \in DOMAIN Published
  BY <1>1, Places
<1>3. QED
  BY <1>1, <1>2, Places

\* An installation of what the script cleared: what parses follows what parses.
LEMMA ClearedIsLater ==
  ASSUME UpdateInv, unit \in {"binary", "version"}, recorded # none
  PROVE  U!After(bundle, recorded) /\ recorded \notin Odd
<1> DEFINE j == U!Place(bundle)
<1>1. j \in DOMAIN Published /\ bundle = Published[j].version
  BY OutPlaces DEF UpdateInv, U!TypeOK
<1>2. /\ recorded \in U!Versions /\ U!InstallVerdict(recorded, bundle) = "upgrade"
      /\ U!NightlyDay(recorded) > 0 /\ U!NightlyDay(bundle) > 0 => U!Place(recorded) <= j
  BY DEF UpdateInv, Cleared, U!TypeOK, NewestNightly
<1> HIDE DEF j
<1>3. /\ U!Parses(recorded) /\ U!Place(recorded) \in DOMAIN Published
      /\ U!Place(recorded) < j
            \/ (U!SameRelease(recorded, bundle) /\ recorded.meta = <<>> /\ U!NightlyDay(bundle) > 0)
  BY <1>1, <1>2, UpgradeIsLater
<1>4. recorded \notin Odd
  BY <1>3, UpdaterAssumption DEF U!Parses
<1>5. U!Place(recorded) \in Nat /\ j \in Nat /\ U!Place(recorded) # 0
  BY <1>1, <1>3, Places
<1>6. QED
  BY <1>3, <1>4, <1>5 DEF U!After, j

LEMMA PublishedIsVersion ==
  ASSUME NEW i \in DOMAIN Published
  PROVE  /\ Published[i].version \in U!Versions /\ Published[i].version \notin Odd
         /\ Published[i].version # none
<1>1. Published[i].version \in U!Versions
  BY DEF U!Versions
<1>2. Published[i].version \in SemVer
  BY Places
<1>3. QED
  BY <1>1, <1>2, UpdaterAssumption DEF SemVer

LEMMA CheckStep == ASSUME UpdateInv, U!Check PROVE UpdateInv'
<1>1. PICK fails \in BOOLEAN : offer' = U!Live(fails)
  BY DEF U!Check
<1>2. UNCHANGED <<out, channel, current, binary, recorded, running, lastState, unit, bundle>>
  BY DEF U!Check, U!disk, U!script
<1> DEFINE n == U!Newest("stable")  v == Published[n].version
<1>3. n \in 0 .. Len(Published) /\ (n # 0 => n \in DOMAIN Published /\ Published[n].channel = "stable")
  BY NewestIsOut DEF UpdateInv, U!TypeOK
<1>4. CASE fails \/ n = 0
  <2>1. offer' = [latest |-> 0, available |-> FALSE, error |-> TRUE]
    BY <1>1, <1>4 DEF U!Live
  <2>2. offer' \in U!Results
    BY <2>1, Places DEF U!Results
  <2>3. QED
    BY <1>2, <2>1, <2>2 DEF UpdateInv, U!TypeOK, Cleared, OfferIsOfCurrent, IsOut, NewestNightly
<1>5. CASE ~(fails \/ n = 0)
  <2>1. offer' = [latest |-> n, available |-> U!IsNewer(current, v),
                  error |-> ~U!IsDev(current) /\ ~(U!Parses(current) /\ U!Parses(v))]
    BY <1>1, <1>5 DEF U!Live
  <2>2. U!IsNewer(current, v) \in BOOLEAN
    BY DEF U!IsNewer
  <2>3. offer' \in U!Results
    BY <1>3, <2>1, <2>2, Places DEF U!Results
  <2>4. OfferIsOfCurrent'
    BY <1>2, <1>3, <1>5, <2>1 DEF OfferIsOfCurrent
  <2>5. QED
    BY <1>2, <2>3, <2>4 DEF UpdateInv, U!TypeOK, Cleared, IsOut, NewestNightly
<1>6. QED
  BY <1>4, <1>5

\* A new process offers nothing; it runs what is installed.
LEMMA RestartStep == ASSUME UpdateInv, U!Restart \/ U!RestartService PROVE UpdateInv'
<1>1. /\ current' = binary /\ offer' = U!Nothing /\ running' = FALSE /\ lastState' = "idle"
      /\ UNCHANGED <<out, channel, binary, recorded>>
      /\ \/ unit' = unit /\ bundle' = bundle
         \/ unit' = "none" /\ bundle' = none
  <2>1. CASE U!Restart
    BY <2>1 DEF U!Restart, U!NewProcess, U!disk, U!script
  <2>2. CASE U!RestartService
    BY <2>2 DEF U!RestartService, U!NewProcess, U!NoUnit, U!At
  <2>3. QED
    BY <2>1, <2>2
<1>2. U!Nothing \in U!Results /\ U!Nothing.latest = 0
  BY Places DEF U!Nothing, U!Results
<1>3. U!TypeOK'
  BY <1>1, <1>2 DEF UpdateInv, U!TypeOK
<1>4. OfferIsOfCurrent'
  BY <1>1, <1>2 DEF OfferIsOfCurrent
<1>5. QED
  BY <1>1, <1>3, <1>4 DEF UpdateInv, Cleared, IsOut, NewestNightly

LEMMA ServiceStep ==
  ASSUME UpdateInv, U!Publish \/ U!SwitchChannel \/ U!Apply \/ U!Launched \/ U!Aborted
  PROVE  UpdateInv'
<1>1. U!TypeOK'
  <2> USE DEF UpdateInv, U!TypeOK, U!disk, U!script
  <2>1. CASE U!Publish
    BY <2>1, Places DEF U!Publish
  <2>2. CASE U!SwitchChannel \/ U!Apply \/ U!Launched
    BY <2>2 DEF U!SwitchChannel, U!Apply, U!Launched
  <2>3. CASE U!Aborted
    BY <2>3 DEF U!Aborted, U!NoUnit, U!Process
  <2>4. QED
    BY <2>1, <2>2, <2>3
<1>2. /\ UNCHANGED <<current, binary, recorded, offer>>
      /\ \/ UNCHANGED <<unit, bundle>>
         \/ unit' \in {"none", "download"}
  BY DEF U!Publish, U!SwitchChannel, U!Apply, U!Launched, U!Aborted, U!NoUnit, U!disk, U!script, U!Process
<1>3. out \in Nat /\ (out' = out \/ out' = out + 1)
  BY Places DEF UpdateInv, U!TypeOK, U!Publish, U!SwitchChannel, U!Apply, U!Launched, U!Aborted, U!disk
<1>4. /\ IsOut(recorded) => IsOut(recorded)'
      /\ IsOut(bundle) /\ bundle' = bundle => IsOut(bundle)'
  BY <1>2, <1>3 DEF IsOut
<1>5. QED
  BY <1>1, <1>2, <1>4 DEF UpdateInv, Cleared, OfferIsOfCurrent, NewestNightly

LEMMA DownloadStep == ASSUME UpdateInv, U!Download PROVE UpdateInv'
<1> DEFINE n == U!Newest(channel)
<1>1. /\ n # 0 /\ bundle' = Published[n].version /\ unit' = "judge"
      /\ UNCHANGED <<out, channel, binary, recorded, current, offer, running, lastState>>
  BY DEF U!Download, U!At, U!Process
<1>2. /\ n \in 1 .. out /\ n \in DOMAIN Published /\ Published[n].channel = channel
      /\ \A i \in 1 .. out : Published[i].channel = channel => i <= n
  BY <1>1, NewestIsOut DEF UpdateInv, U!TypeOK
<1> HIDE DEF n
<1>3. bundle' \in U!Versions /\ IsOut(bundle)' /\ U!Place(bundle') = n
  BY <1>1, <1>2, PublishedIsVersion, Places DEF IsOut
<1>4. NewestNightly'
  <2> SUFFICES ASSUME recorded # none, U!NightlyDay(recorded) > 0, U!NightlyDay(bundle') > 0
               PROVE  U!Place(recorded) <= n
    BY <1>1, <1>3 DEF NewestNightly
  <2>1. CASE recorded \in Odd
    <3>1. recorded \in U!Versions /\ ~U!Parses(recorded)
      BY <2>1, UpdaterAssumption DEF U!Versions, U!Parses
    <3>2. U!Place(recorded) = 0
      BY <3>1, Places
    <3>3. QED
      BY <1>2, <3>2, Places
  <2>2. CASE IsOut(recorded)
    <3>1. /\ U!Place(recorded) \in 1 .. out /\ U!Place(recorded) \in DOMAIN Published
          /\ recorded = Published[U!Place(recorded)].version
      BY <2>2, OutPlaces DEF UpdateInv, U!TypeOK
    <3>2. Published[U!Place(recorded)].channel = "nightly"
      BY <3>1, UpdaterAssumption
    <3>3. channel = "nightly"
      BY <1>1, <1>2, UpdaterAssumption
    <3>4. QED
      BY <1>2, <3>1, <3>2, <3>3
  <2>3. QED
    BY <2>1, <2>2 DEF UpdateInv
<1>5. QED
  BY <1>1, <1>3, <1>4 DEF UpdateInv, U!TypeOK, OfferIsOfCurrent, IsOut

LEMMA ScriptStep ==
  ASSUME UpdateInv, U!Judge \/ U!InstallBinary \/ U!InstallVersion \/ U!InstallRest
  PROVE  UpdateInv'
<1> USE DEF UpdateInv, U!TypeOK, U!At, U!Process
<1>1. CASE U!Judge
  <2>1. UNCHANGED <<out, channel, binary, recorded, current, offer, running, lastState>>
    BY <1>1 DEF U!Judge
  <2>2. \/ unit = "judge" /\ unit' = "binary" /\ bundle' = bundle /\ Cleared
        \/ unit' = "none" /\ bundle' = none
    BY <1>1 DEF U!Judge, U!NoUnit, Cleared
  <2>3. QED
    BY <2>1, <2>2 DEF OfferIsOfCurrent, Cleared, IsOut, NewestNightly
<1>2. CASE U!InstallBinary
  <2>1. /\ unit = "binary" /\ unit' = "version" /\ binary' = bundle
        /\ UNCHANGED <<out, channel, recorded, bundle, current, offer, running, lastState>>
    BY <1>2 DEF U!InstallBinary
  <2>2. bundle \in U!Versions
    BY <2>1, OutPlaces, PublishedIsVersion
  <2>3. recorded \notin Odd
    BY <2>1, ClearedIsLater, UpdaterAssumption DEF U!Versions
  <2>4. QED
    BY <2>1, <2>2, <2>3 DEF OfferIsOfCurrent, Cleared, IsOut, NewestNightly
<1>3. CASE U!InstallVersion
  <2>1. /\ unit = "version" /\ unit' = "rest" /\ recorded' = bundle
        /\ UNCHANGED <<out, channel, binary, bundle, current, offer, running, lastState>>
    BY <1>3 DEF U!InstallVersion
  <2>2. bundle \in U!Versions /\ bundle \notin Odd /\ IsOut(bundle) /\ U!Place(bundle) \in Nat
    BY <2>1, OutPlaces, PublishedIsVersion
  <2>3. NewestNightly' /\ IsOut(recorded)' /\ IsOut(bundle)'
    BY <2>1, <2>2 DEF NewestNightly, IsOut
  <2>4. QED
    BY <2>1, <2>2, <2>3 DEF OfferIsOfCurrent
<1>4. CASE U!InstallRest
  BY <1>4 DEF U!InstallRest, OfferIsOfCurrent, IsOut, NewestNightly
<1>5. QED
  BY <1>1, <1>2, <1>3, <1>4

LEMMA UpdateNext == UpdateInv /\ [U!Next]_U!vars => UpdateInv'
<1> SUFFICES ASSUME UpdateInv, [U!Next]_U!vars PROVE UpdateInv'
  OBVIOUS
<1>1. CASE UNCHANGED U!vars
  BY <1>1 DEF U!vars, UpdateInv, U!TypeOK, Cleared, OfferIsOfCurrent, IsOut, NewestNightly
<1>2. QED
  BY <1>1, CheckStep, RestartStep, ServiceStep, DownloadStep, ScriptStep DEF U!Next, U!Script

\* The invariant of updating, for whatever is published without going back.
THEOREM UpdateInvariance == U!Spec => []UpdateInv
BY UpdateInit, UpdateNext, PTL DEF U!Spec

\* No update goes back behind VERSION, however updates are cut off, repeated and
\* overlapped, and though nightlies of a day compare alike (release/jellyfreedom:26,
\* verdict.go:65).
THEOREM UpdatesGoForward == U!Spec => OnlyForward
<1> DEFINE Forward ==
      recorded # none =>
          /\ recorded' # recorded => U!After(recorded', recorded) /\ recorded' = binary'
          /\ binary' # binary => U!After(binary', recorded)
<1>1. ASSUME UpdateInv, U!Next PROVE Forward
  <2>1. CASE U!InstallBinary
    <3>1. unit = "binary" /\ binary' = bundle /\ recorded' = recorded
      BY <2>1 DEF U!InstallBinary, U!At
    <3>2. QED
      BY <1>1, <3>1, ClearedIsLater
  <2>2. CASE U!InstallVersion
    <3>1. unit = "version" /\ recorded' = bundle /\ binary' = binary /\ binary = bundle
      BY <1>1, <2>2 DEF U!InstallVersion, U!At, UpdateInv
    <3>2. QED
      BY <1>1, <3>1, ClearedIsLater
  <2>3. CASE ~U!InstallBinary /\ ~U!InstallVersion
    <3>1. UNCHANGED <<recorded, binary>>
      BY <1>1, <2>3 DEF U!Next, U!Script, U!Publish, U!SwitchChannel, U!Check, U!Apply, U!Launched, U!Restart,
         U!Aborted, U!Download, U!Judge, U!InstallRest, U!RestartService, U!disk, U!Process
    <3>2. QED
      BY <3>1
  <2>4. QED
    BY <2>1, <2>2, <2>3
<1>2. UpdateInv /\ [U!Next]_U!vars => [Forward]_U!vars
  BY <1>1
<1>3. QED
  BY <1>2, UpdateInvariance, PTL DEF U!Spec, OnlyForward, U!OnlyForward

\* The dashboard offers what the installer takes, and nothing of the number that runs
\* (check.go:135, verdict.go:21).
THEOREM OfferedIsInstalled == U!Spec => []OfferIsUpgrade
<1>1. ASSUME UpdateInv PROVE OfferIsUpgrade
  <2> DEFINE j == offer.latest  w == Published[j].version
  <2> SUFFICES ASSUME j # 0, ~offer.error
               PROVE  /\ offer.available <=> /\ ~U!IsDev(current)
                                            /\ j > U!Place(current) /\ ~U!SameRelease(current, w)
                      /\ offer.available /\ recorded # none =>
                             \/ U!InstallVerdict(recorded, w) = "upgrade"
                             \/ U!Place(recorded) >= j \/ U!SameRelease(recorded, w)
    BY DEF OfferIsUpgrade, U!OfferIsUpgrade
  <2>1. /\ j \in DOMAIN Published
        /\ offer.available <=> U!IsNewer(current, w)
        /\ U!IsDev(current) \/ U!Parses(current)
    BY <1>1 DEF UpdateInv, OfferIsOfCurrent
  <2>2. current \in U!Versions /\ (recorded # none => recorded \in U!Versions)
    BY <1>1 DEF UpdateInv, U!TypeOK
  <2>3. U!Parses(w)
    BY <2>1, Places DEF SemVer, U!Parses
  <2> HIDE DEF j
  <2>4. offer.available <=> ~U!IsDev(current) /\ j > U!Place(current) /\ ~U!SameRelease(current, w)
    <3>1. CASE U!IsDev(current)
      BY <2>1, <3>1 DEF U!IsNewer
    <3>2. CASE ~U!IsDev(current)
      <4>1. U!Parses(current)
        BY <2>1, <3>2
      <4>2. U!Compare(w, current) > 0 <=> U!Place(current) < j /\ ~U!SameRelease(current, w)
        BY <2>1, <2>2, <4>1, StableIsNewer
      <4>3. U!Place(current) \in Nat /\ j \in Nat
        BY <2>1, <2>2, <4>1, Places
      <4>4. QED
        BY <2>1, <2>3, <3>2, <4>1, <4>2, <4>3 DEF U!IsNewer
    <3>3. QED
      BY <3>1, <3>2
  <2>5. ASSUME offer.available, recorded # none
        PROVE  \/ U!InstallVerdict(recorded, w) = "upgrade"
               \/ U!Place(recorded) >= j \/ U!SameRelease(recorded, w)
    <3>1. U!Parses(current)
      BY <2>1, <2>5 DEF U!IsNewer
    <3>2. recorded \in U!Versions /\ recorded \notin Odd
      BY <1>1, <2>2, <2>5, <3>1, UpdaterAssumption DEF UpdateInv, U!Parses
    <3>3. U!Parses(recorded) /\ U!Place(recorded) \in Nat /\ j \in Nat
      BY <2>1, <3>2, Places
    <3>4. U!Place(recorded) < j /\ ~U!SameRelease(recorded, w) => U!InstallVerdict(recorded, w) = "upgrade"
      BY <2>1, <3>2, <3>3, StableIsNewer
    <3>5. QED
      BY <3>3, <3>4
  <2>6. QED
    BY <2>4, <2>5
<1>2. QED
  BY <1>1, UpdateInvariance, PTL

-----------------------------------------------------------------------------
(* UpdateCheck.  Between two requests that nobody forced the entry of the   *)
(* cache has expired; so the time it was made at bounds how many there were *)
(* before (Spaced), and the clock does while one is under way.              *)

OneAsks == \A p, q \in Pages :
    page[p] \in {"recheck", "fetch"} /\ page[q] \in {"recheck", "fetch"} => p = q

Fetching == \E p \in Pages : page[p] = "fetch"

Spaced ==
    IF cachedAt = none THEN asked = 0
    ELSE /\ cachedAt <= now
         /\ asked <= 1 + (cachedAt \div FailureTTL)
         /\ asked <= (IF cachedOK THEN 1 ELSE 0) + failed + (cachedAt \div CacheTTL)

CheckInv ==
    /\ C!TypeOK
    /\ OneAsks
    /\ cachedAt # none => cachedAt <= now
    /\ IF Fetching THEN OneRequest ELSE Spaced

\* Division rounds down.
LEMMA DivBounds ==
  ASSUME NEW n \in Nat, NEW t \in Nat \ {0}
  PROVE  n \div t \in Nat /\ (n \div t) * t <= n /\ n < ((n \div t) + 1) * t
OBVIOUS

LEMMA DivGrows ==
  ASSUME NEW m \in Nat, NEW n \in Nat, NEW t \in Nat \ {0}
  PROVE  /\ m <= n => m \div t <= n \div t
         /\ m + t <= n => (m \div t) + 1 <= n \div t
<1> DEFINE a == m \div t  b == n \div t
<1>1. /\ a \in Nat /\ a * t <= m /\ m < (a + 1) * t
      /\ b \in Nat /\ b * t <= n /\ n < (b + 1) * t
  BY DivBounds
<1>2. (a + 1) * t = a * t + t /\ (b + 1) * t = b * t + t
  BY <1>1
<1> HIDE DEF a, b
<1>3. ASSUME a >= b + 1 PROVE a * t >= (b + 1) * t
  BY <1>1, <1>3
<1>4. m <= n => a <= b
  BY <1>1, <1>3
<1>5. ASSUME a + 1 >= b + 1 PROVE (a + 1) * t >= (b + 1) * t
  BY <1>1, <1>5
<1>6. m + t <= n => a + 1 <= b
  BY <1>1, <1>2, <1>5
<1>7. QED
  BY <1>4, <1>6 DEF a, b

\* Two looks at the clock, by both divisors.
LEMMA TimesGrow ==
  ASSUME NEW m \in Nat, NEW n \in Nat, m <= n
  PROVE  /\ m \div FailureTTL \in Nat /\ m \div CacheTTL \in Nat
         /\ n \div FailureTTL \in Nat /\ n \div CacheTTL \in Nat
         /\ m \div FailureTTL <= n \div FailureTTL /\ m \div CacheTTL <= n \div CacheTTL
         /\ m + FailureTTL <= n => (m \div FailureTTL) + 1 <= n \div FailureTTL
         /\ m + CacheTTL <= n => (m \div CacheTTL) + 1 <= n \div CacheTTL
<1>1. FailureTTL \in Nat \ {0} /\ CacheTTL \in Nat \ {0}
  BY UpdateCheckAssumption
<1>2. QED
  BY <1>1, DivGrows, DivBounds

\* What is so between two requests is so at any time.
LEMMA SpacedIsFew ==
  ASSUME C!TypeOK, Spaced
  PROVE  OneRequest
<1>1. now \in Nat /\ asked \in Nat /\ failed \in Nat /\ (cachedAt # none => cachedAt \in Nat)
  BY UpdateCheckAssumption DEF C!TypeOK
<1>2. CASE cachedAt = none
  BY <1>1, <1>2, TimesGrow DEF Spaced, OneRequest, C!OneRequest
<1>3. CASE cachedAt # none
  BY <1>1, <1>3, TimesGrow DEF Spaced, OneRequest, C!OneRequest
<1>4. QED
  BY <1>2, <1>3

LEMMA CheckInit == C!Init => CheckInv
<1> SUFFICES ASSUME C!Init PROVE CheckInv
  OBVIOUS
<1>1. C!TypeOK
  <2>1. 0 \in 0 .. MaxTime /\ 0 \in 0 .. MaxForced
    BY UpdateCheckAssumption
  <2>2. QED
    BY <2>1 DEF C!Init, C!TypeOK
<1>2. OneAsks /\ ~Fetching /\ Spaced /\ cachedAt = none
  BY DEF C!Init, OneAsks, Fetching, Spaced
<1>3. QED
  BY <1>1, <1>2 DEF CheckInv

LEMMA ClockStep == ASSUME CheckInv, C!Tick PROVE CheckInv'
<1>1. /\ now \in Nat /\ asked \in Nat /\ failed \in Nat /\ (cachedAt # none => cachedAt \in Nat)
      /\ now' = now + 1 /\ now' \in Nat
      /\ UNCHANGED <<cachedAt, cachedOK, page, forced, asked, failed, refreshes>>
  BY UpdateCheckAssumption DEF CheckInv, C!TypeOK, C!Tick
<1>2. C!TypeOK'
  BY UpdateCheckAssumption DEF CheckInv, C!TypeOK, C!Tick
<1>3. CASE Fetching
  <2>1. now \div FailureTTL <= now' \div FailureTTL /\ now \div CacheTTL <= now' \div CacheTTL
        /\ now \div FailureTTL \in Nat /\ now' \div FailureTTL \in Nat
        /\ now \div CacheTTL \in Nat /\ now' \div CacheTTL \in Nat
    BY <1>1, TimesGrow
  <2>2. asked <= 1 + (now \div FailureTTL) /\ asked <= 1 + failed + (now \div CacheTTL)
    BY <1>3 DEF CheckInv, OneRequest, C!OneRequest
  <2>3. OneRequest'
    BY <1>1, <2>1, <2>2 DEF OneRequest, C!OneRequest
  <2>4. QED
    BY <1>1, <1>2, <1>3, <2>3 DEF CheckInv, OneAsks, Fetching
<1>4. CASE ~Fetching
  BY <1>1, <1>2, <1>4 DEF CheckInv, OneAsks, Fetching, Spaced
<1>5. QED
  BY <1>3, <1>4

LEMMA WaitStep ==
  ASSUME CheckInv, NEW p \in Pages, C!Ask(p) \/ C!Refresh(p) \/ C!Lock(p)
  PROVE  CheckInv'
<1>1. C!TypeOK'
  <2> USE DEF CheckInv, C!TypeOK, C!To
  <2>1. CASE C!Ask(p)
    BY <2>1 DEF C!Ask
  <2>2. CASE C!Refresh(p)
    <3>1. refreshes' \in 0 .. MaxForced
      BY <2>2, UpdateCheckAssumption DEF C!Refresh
    <3>2. QED
      BY <2>2, <3>1 DEF C!Refresh
  <2>3. CASE C!Lock(p)
    BY <2>3 DEF C!Lock
  <2>4. QED
    BY <2>1, <2>2, <2>3
<1>2. /\ UNCHANGED <<now, cachedAt, cachedOK, asked, failed>>
      /\ \E s \in {"wait", "recheck"} : page' = [page EXCEPT ![p] = s]
      /\ page[p] \in {"rest", "wait"} /\ page \in [Pages -> {"rest", "wait", "recheck", "fetch"}]
  BY DEF CheckInv, C!TypeOK, C!Ask, C!Refresh, C!Lock, C!To
<1>3. OneAsks'
  BY DEF CheckInv, C!TypeOK, OneAsks, C!Ask, C!Refresh, C!Lock, C!To
<1>4. Fetching' <=> Fetching
  BY <1>2 DEF Fetching
<1>5. QED
  BY <1>1, <1>2, <1>3, <1>4 DEF CheckInv, Spaced, OneRequest, C!OneRequest

\* Whoever finds the cache as old as that may ask once more.
LEMMA RecheckStep == ASSUME CheckInv, NEW p \in Pages, C!Recheck(p) PROVE CheckInv'
<1>1. /\ now \in Nat /\ asked \in Nat /\ failed \in Nat /\ (cachedAt # none => cachedAt \in Nat)
      /\ page \in [Pages -> {"rest", "wait", "recheck", "fetch"}] /\ page[p] = "recheck"
      /\ UNCHANGED <<now, cachedAt, cachedOK, forced, failed, refreshes>>
  BY UpdateCheckAssumption DEF CheckInv, C!TypeOK, C!Recheck
<1>2. ~Fetching /\ Spaced /\ OneRequest
  <2>1. ~Fetching
    BY <1>1 DEF CheckInv, OneAsks, Fetching
  <2>2. QED
    BY <2>1, SpacedIsFew DEF CheckInv
<1>3. CASE C!Served(p)
  <2>1. page' = [page EXCEPT ![p] = "rest"] /\ asked' = asked
    BY <1>3 DEF C!Recheck, C!To
  <2>2. C!TypeOK' /\ OneAsks' /\ ~Fetching'
    BY <1>1, <1>2, <2>1 DEF CheckInv, C!TypeOK, OneAsks, Fetching
  <2>3. QED
    BY <1>1, <1>2, <2>1, <2>2 DEF CheckInv, Spaced
<1>4. CASE ~C!Served(p)
  <2>1. page' = [page EXCEPT ![p] = "fetch"] /\ asked' = asked + (IF forced[p] THEN 0 ELSE 1)
    BY <1>4 DEF C!Recheck, C!To
  <2>2. C!TypeOK' /\ OneAsks' /\ Fetching'
    BY <1>1, <2>1 DEF CheckInv, C!TypeOK, OneAsks, Fetching
  <2>3. OneRequest'
    <3>1. CASE forced[p]
      BY <1>1, <1>2, <2>1, <3>1 DEF OneRequest, C!OneRequest
    <3>2. CASE ~forced[p] /\ cachedAt = none
      BY <1>1, <1>2, <2>1, <3>2, TimesGrow DEF Spaced, OneRequest, C!OneRequest
    <3>3. CASE ~forced[p] /\ cachedAt # none
      <4>1. now - cachedAt >= (IF cachedOK THEN CacheTTL ELSE FailureTTL)
        BY <1>1, <1>4, <3>3, UpdateCheckAssumption DEF C!Served, C!Fresh
      <4>2. cachedAt + FailureTTL <= now /\ (cachedOK => cachedAt + CacheTTL <= now)
        BY <1>1, <3>3, <4>1, UpdateCheckAssumption
      <4>3. asked' = asked + 1 /\ cachedAt <= now
        BY <1>2, <2>1, <3>3 DEF Spaced
      <4>4. QED
        BY <1>1, <1>2, <3>3, <4>2, <4>3, TimesGrow DEF Spaced, OneRequest, C!OneRequest
    <3>4. QED
      BY <3>1, <3>2, <3>3
  <2>4. QED
    BY <1>1, <2>2, <2>3 DEF CheckInv
<1>5. QED
  BY <1>3, <1>4

LEMMA FetchedStep ==
  ASSUME CheckInv, NEW p \in Pages, NEW ok \in BOOLEAN, C!Fetched(p, ok)
  PROVE  CheckInv'
<1>1. /\ now \in Nat /\ asked \in Nat /\ failed \in Nat /\ now # none
      /\ page \in [Pages -> {"rest", "wait", "recheck", "fetch"}] /\ page[p] = "fetch"
      /\ cachedAt' = now /\ cachedOK' = ok
      /\ failed' = failed + (IF ok THEN 0 ELSE 1)
      /\ page' = [page EXCEPT ![p] = "rest"]
      /\ UNCHANGED <<now, forced, asked, refreshes>>
  BY UpdateCheckAssumption DEF CheckInv, C!TypeOK, C!Fetched, C!To
<1>2. C!TypeOK'
  BY <1>1 DEF CheckInv, C!TypeOK
<1>3. OneAsks' /\ ~Fetching'
  BY <1>1 DEF CheckInv, OneAsks, Fetching
<1>4. OneRequest
  BY <1>1 DEF CheckInv, Fetching
<1>5. Spaced'
  BY <1>1, <1>4, TimesGrow DEF Spaced, OneRequest, C!OneRequest
<1>6. QED
  BY <1>1, <1>2, <1>3, <1>5 DEF CheckInv

LEMMA CheckNext == CheckInv /\ [C!Next]_C!vars => CheckInv'
<1> SUFFICES ASSUME CheckInv, [C!Next]_C!vars PROVE CheckInv'
  OBVIOUS
<1>1. CASE UNCHANGED C!vars
  BY <1>1 DEF C!vars, CheckInv, C!TypeOK, OneAsks, Fetching, Spaced, OneRequest, C!OneRequest
<1>2. QED
  BY <1>1, ClockStep, WaitStep, RecheckStep, FetchedStep DEF C!Next

\* The invariant of the cached check, for any number of pages and any times to live.
THEOREM CheckInvariance == C!Spec => []CheckInv
BY CheckInit, CheckNext, PTL DEF C!Spec

\* One request to GitHub per time to live, however many pages are loaded (check.go:66).
THEOREM GitHubIsSpared == C!Spec => []OneRequest
<1>1. CheckInv => OneRequest
  BY SpacedIsFew DEF CheckInv
<1>2. QED
  BY <1>1, CheckInvariance, PTL

-----------------------------------------------------------------------------

\* The accounts, the updater and the update check keep their types.
THEOREM AdministrationTyping == Spec /\ U!Spec /\ C!Spec => []AllTypeOK
<1>1. UpdateInv => U!TypeOK
  BY DEF UpdateInv
<1>2. CheckInv => C!TypeOK
  BY DEF CheckInv
<1>3. TypeOK /\ U!TypeOK /\ C!TypeOK => AllTypeOK
  BY DEF AllTypeOK
<1>4. QED
  BY <1>1, <1>2, <1>3, AccountsTyping, UpdateInvariance, CheckInvariance, PTL

=============================================================================
