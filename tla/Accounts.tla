------------------------------ MODULE Accounts ------------------------------
(***************************************************************************)
(* Accounts, sessions and the libraries an account may see                 *)
(* (internal/api/auth.go, the user handlers of internal/api/dashboard.go,  *)
(* /api/users/{id}/libraries in cmd/orchestrator/main.go, and the tables   *)
(* users, sessions and user_library_access of internal/store/store.go).    *)
(*                                                                         *)
(* A request is let in by its session, reads a row, spends time (bcrypt,   *)
(* or waiting for its body) and then writes the whole row it read.  So     *)
(* requests about the same account can undo one another, and an admin's    *)
(* request may end after its admin was demoted.                            *)
(*                                                                         *)
(* Abstractions.  A password is a number, 0 for an account that logs in    *)
(* through Jellyfin; logins are those with a right password (the wrong     *)
(* ones are the subject of module Limits).  A token is never guessed.  A   *)
(* session also carries the password it was opened with, or under which it *)
(* was kept, which the code does not store.  What an admin sends to        *)
(* /libraries is what the browser was shown with one box changed; the PUT  *)
(* is one step, as is a request that only inserts.                         *)
(***************************************************************************)
EXTENDS Naturals

CONSTANTS
    Names, Libraries,
    Tokens,         \* cookies in use at a time
    Handlers,       \* requests served at a time
    MaxAccounts,    \* bound: ids handed out by AUTOINCREMENT
    MaxPasswords,   \* bound: passwords ever set
    none

VARIABLES
    users,      \* table users, by id
    lastId,     \* the highest id that was ever handed out
    grants,     \* table user_library_access: libraries by user id
    sessions,   \* table sessions, by token
    run,        \* requests under way
    passwords,  \* the last password that was set
    excused,    \* ghost: accounts something out of date was done to (see Late)
    unpurged    \* ghost: accounts where a former password lives on (see SessionsFollowPassword)

vars == <<users, lastId, grants, sessions, run, passwords, excused, unpurged>>

Ids == 1 .. MaxAccounts
Passwords == 0 .. MaxPasswords
Accounts == [name : Names, password : Passwords, admin : BOOLEAN]
Sessions == [user : Ids, password : Passwords]

\* The bounds are numbers, and `none' is nothing else.
ASSUME AccountsAssumption ==
    /\ MaxAccounts \in Nat /\ MaxPasswords \in Nat
    /\ none \notin Accounts /\ none \notin Sessions /\ none \notin Tokens

\* A request: what it does next, its cookie, the account it is about, and the row
\* and grants of that account as read.
Idle == [at |-> "idle", token |-> none, id |-> 0, copy |-> none, seen |-> {}]
Runs == [at    : {"idle", "setup", "session", "change", "purge", "patch", "delete", "access"},
         token : Tokens \cup {none},
         id    : Ids \cup {0},
         copy  : Accounts \cup {none},
         seen  : SUBSET Libraries]

TypeOK ==
    /\ users \in [Ids -> Accounts \cup {none}]
    /\ lastId \in 0 .. MaxAccounts
    /\ grants \in [Ids -> SUBSET Libraries]
    /\ sessions \in [Tokens -> Sessions \cup {none}]
    /\ run \in [Handlers -> Runs]
    /\ passwords \in Passwords
    /\ excused \subseteq Ids /\ unpurged \subseteq Ids

Init ==
    /\ users = [i \in Ids |-> none]
    /\ lastId = 0
    /\ grants = [i \in Ids |-> {}]
    /\ sessions = [t \in Tokens |-> none]
    /\ run = [h \in Handlers |-> Idle]
    /\ passwords = 0
    /\ excused = {} /\ unpurged = {}

Existing == {i \in Ids : users[i] # none}
Admins == {i \in Existing : users[i].admin}
Named(n) == {i \in Existing : users[i].name = n}

\* GetSessionUser: whose request it is.
UserOf(t) == IF sessions[t] = none THEN 0 ELSE sessions[t].user

NeedsSetup == Existing = {}

Becomes(h, r) == run' = [run EXCEPT ![h] = r]
Ends(h) == Becomes(h, Idle)

\* h does something to its account that it would not do now: the row is not what it
\* read, or its caller is no admin any more.
Late(h) ==
    LET r == run[h] IN
    \/ r.copy # none /\ users[r.id] # r.copy
    \/ r.at \in {"patch", "delete"} /\ UserOf(r.token) \notin Admins

MarkIfLate(h) == excused' = excused \cup {i \in {run[h].id} : Late(h)}

\* The password h has read, and is about to use, is not the account's any more.
UsesOld(h) == run[h].id \in Existing /\ users[run[h].id].password # run[h].copy.password

MarkIfOld(h) == unpurged' = unpurged \cup {i \in {run[h].id} : UsesOld(h)}

\* (mutant: an INTEGER PRIMARY KEY without AUTOINCREMENT)
FreeId == IF \E i \in Ids \ Existing : TRUE THEN CHOOSE i \in Ids \ Existing : \A j \in Ids \ Existing : i <= j
          ELSE lastId + 1

\* AUTOINCREMENT: an id is never handed out again.
NewId == lastId + 1

\* CreateUser, with a new password or as an account of Jellyfin's; names are unique.
Insert(n, isAdmin, local) ==
    /\ NewId \in Ids
    /\ Named(n) = {}
    /\ local => passwords < MaxPasswords
    /\ passwords' = IF local THEN passwords + 1 ELSE passwords
    /\ users' = [users EXCEPT ![NewId] = [name |-> n, password |-> IF local THEN passwords' ELSE 0,
                                          admin |-> isAdmin]]
    /\ lastId' = IF NewId > lastId THEN NewId ELSE lastId

-----------------------------------------------------------------------------
\* First run.

\* SetupHandler: nobody is there yet; bcrypt takes a while.
Setup(h) ==
    /\ run[h] = Idle
    /\ NeedsSetup
    /\ Becomes(h, [Idle EXCEPT !.at = "setup"])
    /\ UNCHANGED <<users, lastId, grants, sessions, passwords, excused, unpurged>>

\* The first admin is created, and is read back to be logged in; a name that was
\* taken meanwhile is an error.
CreateFirst(h, n) ==
    /\ run[h].at = "setup"
    /\ IF Named(n) = {}
       THEN Insert(n, TRUE, TRUE) /\ Becomes(h, [Idle EXCEPT !.at = "session", !.id = NewId, !.copy = users'[NewId]])
       ELSE Ends(h) /\ UNCHANGED <<users, lastId, passwords>>
    /\ UNCHANGED <<grants, sessions, excused, unpurged>>

-----------------------------------------------------------------------------
\* Sessions.

\* checkCredentials: the password is right for the row as it is now.
Login(h, n) ==
    /\ run[h] = Idle
    /\ \E i \in Named(n) : Becomes(h, [Idle EXCEPT !.at = "session", !.id = i, !.copy = users[i]])
    /\ UNCHANGED <<users, lastId, grants, sessions, passwords, excused, unpurged>>

\* startSession, with a token nobody has or had; the password may have been changed since.
StartSession(h, t) ==
    LET r == run[h] IN
    /\ r.at = "session"
    /\ sessions[t] = none /\ \A g \in Handlers : run[g].token # t
    /\ sessions' = [sessions EXCEPT ![t] = [user |-> r.id, password |-> r.copy.password]]
    /\ MarkIfOld(h)
    /\ Ends(h)
    /\ UNCHANGED <<users, lastId, grants, passwords, excused>>

\* Logout, expiry, PurgeSessions.
EndSession(t) ==
    /\ sessions[t] # none
    /\ sessions' = [sessions EXCEPT ![t] = none]
    /\ UNCHANGED <<users, lastId, grants, run, passwords, excused, unpurged>>

-----------------------------------------------------------------------------
\* One's own password.

\* RequireAuth reads the row; the current password was given right, which it can
\* only be where there is one.
AskChange(h, t) ==
    /\ run[h] = Idle
    /\ UserOf(t) \in Existing
    /\ LET i == UserOf(t) IN
           /\ users[i].password # 0
           /\ Becomes(h, [Idle EXCEPT !.at = "change", !.token = t, !.id = i, !.copy = users[i]])
    /\ UNCHANGED <<users, lastId, grants, sessions, passwords, excused, unpurged>>

\* UpdateUser writes the row as it was read, with the new password.  The session
\* of this request is to stay.
Change(h) ==
    LET r == run[h] IN
    /\ r.at = "change"
    /\ passwords < MaxPasswords
    /\ passwords' = passwords + 1
    /\ users' = [i \in Ids |-> IF i = r.id /\ users[i] # none THEN [r.copy EXCEPT !.password = passwords'] ELSE users[i]]
    /\ sessions' = [t \in Tokens |-> IF t = r.token /\ sessions[t] # none
                                     THEN [sessions[t] EXCEPT !.password = passwords'] ELSE sessions[t]]
    /\ MarkIfLate(h)
    /\ Becomes(h, [r EXCEPT !.at = "purge"])
    /\ UNCHANGED <<lastId, grants, unpurged>>

\* (mutant: an expired or missing cookie is not told from the one to keep)
KeepsAll(r, t) == UserOf(t) # r.id \/ t = r.token \/ sessions[r.token] = none

\* Which sessions are not the account's, or the one to keep.
Keeps(r, t) == UserOf(t) # r.id \/ t = r.token

\* DeleteSessionsForUser; when it fails the user is told to log out everywhere.
Purge(h) ==
    LET r == run[h] IN
    /\ r.at = "purge"
    /\ \/ sessions' = [t \in Tokens |-> IF Keeps(r, t) THEN sessions[t] ELSE none] /\ UNCHANGED unpurged
       \/ unpurged' = unpurged \cup {r.id} /\ UNCHANGED sessions
    /\ Ends(h)
    /\ UNCHANGED <<users, lastId, grants, passwords, excused>>

-----------------------------------------------------------------------------
\* An admin's requests about accounts.

\* CreateUserHandler, ImportUserHandler.
Create(t, n, isAdmin, local) ==
    /\ UserOf(t) \in Admins
    /\ Insert(n, isAdmin, local)
    /\ UNCHANGED <<grants, sessions, run, excused, unpurged>>

\* (mutant: one's own account as well)
AnyAccount(t, i) == TRUE

\* Which accounts PATCH and DELETE are for.
MayManage(t, i) == UserOf(t) # i

\* RequireAdmin lets the request in; PATCH reads the row.
AskManage(h, t, i, does) ==
    /\ run[h] = Idle
    /\ UserOf(t) \in Admins
    /\ MayManage(t, i)
    /\ does = "patch" => i \in Existing
    /\ Becomes(h, [Idle EXCEPT !.at = does, !.token = t, !.id = i,
                               !.copy = IF does = "patch" THEN users[i] ELSE none])
    /\ UNCHANGED <<users, lastId, grants, sessions, passwords, excused, unpurged>>

\* UpdateUserHandler writes the row as it was read, with another name or rank; a
\* name that is taken is an error, a row that is gone none.
Patch(h, n, isAdmin) ==
    LET r == run[h] IN
    /\ r.at = "patch"
    /\ IF r.id \in Existing /\ Named(n) \subseteq {r.id}
       THEN /\ users' = [users EXCEPT ![r.id] = [r.copy EXCEPT !.name = n, !.admin = isAdmin]]
            /\ MarkIfLate(h) /\ MarkIfOld(h)
       ELSE UNCHANGED <<users, excused, unpurged>>
    /\ Ends(h)
    /\ UNCHANGED <<lastId, grants, sessions, passwords>>

\* DeleteUser: grants go with the row, sessions stay behind.
Delete(h) ==
    LET r == run[h] IN
    /\ r.at = "delete"
    /\ users' = [users EXCEPT ![r.id] = none]
    /\ grants' = [grants EXCEPT ![r.id] = {}]
    /\ MarkIfLate(h)
    /\ Ends(h)
    /\ UNCHANGED <<lastId, sessions, passwords, unpurged>>

\* GET /api/users/{id}/libraries: the check boxes.
AskAccess(h, t, i) ==
    /\ run[h] = Idle
    /\ UserOf(t) \in Admins /\ i \in Existing
    /\ Becomes(h, [Idle EXCEPT !.at = "access", !.token = t, !.id = i, !.seen = grants[i]])
    /\ UNCHANGED <<users, lastId, grants, sessions, passwords, excused, unpurged>>

\* PUT: the whole list, with one box changed; the foreign key wants the account.
SaveAccess(h, l) ==
    LET r == run[h] IN
    /\ r.at = "access"
    /\ IF UserOf(r.token) \in Admins /\ r.id \in Existing
       THEN grants' = [grants EXCEPT ![r.id] = IF l \in r.seen THEN r.seen \ {l} ELSE r.seen \cup {l}]
       ELSE UNCHANGED grants
    /\ Ends(h)
    /\ UNCHANGED <<users, lastId, sessions, passwords, excused, unpurged>>

\* The request's body is no good, or its write fails; a purge has its own failure.
Fails(h) ==
    /\ run[h].at \notin {"idle", "purge"}
    /\ Ends(h)
    /\ UNCHANGED <<users, lastId, grants, sessions, passwords, excused, unpurged>>

-----------------------------------------------------------------------------

Next ==
    \/ \E h \in Handlers :
           \/ Setup(h) \/ Change(h) \/ Purge(h) \/ Delete(h) \/ Fails(h)
           \/ \E n \in Names : CreateFirst(h, n) \/ Login(h, n) \/ \E isAdmin \in BOOLEAN : Patch(h, n, isAdmin)
           \/ \E t \in Tokens :
                  \/ StartSession(h, t) \/ AskChange(h, t)
                  \/ \E i \in Ids : AskAccess(h, t, i) \/ \E does \in {"patch", "delete"} : AskManage(h, t, i, does)
           \/ \E l \in Libraries : SaveAccess(h, l)
    \/ \E t \in Tokens :
           \/ EndSession(t)
           \/ \E n \in Names, isAdmin, local \in BOOLEAN : Create(t, n, isAdmin, local)

Spec == Init /\ [][Next]_vars

-----------------------------------------------------------------------------

\* The installation is never left without an admin, and so never without accounts,
\* which would open the setup to whoever comes first: admins can demote and remove
\* one another but not themselves, and only requests that overtake one another, or
\* outlive their admin's rank, could remove the last.
AdminRemains == lastId > 0 /\ excused = {} => Admins # {}

\* When a password change is through, the account's sessions are those of the new
\* password: the one that made the change and later logins, also when two changes
\* overlap (auth.go:332: "must invalidate every OTHER session").  Three things leave a
\* session of another password behind, and an account they happened to is in `unpurged':
\* a login that was checked before the change and recorded after it (auth.go:434, 464);
\* a PATCH that read the row before the change and writes it back, former password
\* included (dashboard.go:661); and a purge that failed or was cut off (auth.go:360).
SessionsFollowPassword ==
    \A t \in Tokens :
        LET i == UserOf(t) IN
        i \in Existing \ unpurged /\ (\A h \in Handlers : ~(run[h].at = "purge" /\ run[h].id = i))
        => sessions[t].password = users[i].password

\* A new account inherits nothing: no grants, no session and no request under way of
\* an account that was removed (store.go:645).
NothingInherited ==
    [][\A i \in Ids : users[i] = none /\ users'[i] # none =>
           /\ grants'[i] = {}
           /\ \A t \in Tokens : UserOf(t) # i
           /\ \A h \in Handlers : run[h].at \in {"change", "purge", "patch", "access"} => run[h].id # i]_vars
=============================================================================
