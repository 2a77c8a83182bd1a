------------------------------ MODULE Background ------------------------------
(***************************************************************************)
(* What goes on behind the requests: pre-warming (extended here), the      *)
(* library health check, the task registry and the restart, play tokens,   *)
(* the login limiter, the tunnel, the picker, and the choice of a file.    *)
(* They share no state: each has its INSTANCE over variables of its own,   *)
(* and what the modules promise has one name here.                         *)
(***************************************************************************)
EXTENDS PreWarm, Integers, FiniteSets

CONSTANTS
    none,
    MaxId, PerRun,                                           \* HealthCheck
    Tasks, Scheduled, Requests,                              \* TaskRegistry
    Titles, Others, MaxKeys,                                 \* PlayTokens
    Addresses, Names, Handlers, Burst, Window, MaxWait, SweepAt, MaxTime, MaxFailures, \* Limits
    Slugs, Activations,                                      \* Tunnel
    Releases, Configs, Overrides, Preferences, Queries, MaxFound, \* Picker
    Contents, Folders, Asked, MaxFiles                       \* PackFiles

VARIABLES
    rowStatus, lastId, alive, cursor, phase, left, copies, at, checked,         \* HealthCheck
    status, doing, job, process, pending, armed, requested, exit, stopped, policy, \* TaskRegistry
    key, marker, keys, rows, file, step, memKey, enforced, before, todo, lost,  \* PlayTokens
    now, buckets, trying, streak,                                               \* Limits
    stored, live, active, tunnel, answering, leak, torr, latch, watch, run,     \* Tunnel
    cfg, over, timed, known, episode, found, packs, scored, candidates, diagnosed, \* Picker
    folder, files, first, chosen                                                \* PackFiles

H == INSTANCE HealthCheck WITH status <- rowStatus
T == INSTANCE TaskRegistry WITH at <- doing
K == INSTANCE PlayTokens WITH phase <- step
L == INSTANCE Limits
N == INSTANCE Tunnel WITH Handlers <- Activations, status <- latch
R == INSTANCE Picker WITH Titles <- Queries, Most <- MaxFound
F == INSTANCE PackFiles WITH Files <- Contents, Most <- MaxFiles

\* The bounds are numbers.
ASSUME HealthAssumption == MaxId \in Nat /\ PerRun \in Nat

\* A schedule goroutine is none of RunNow's.
ASSUME TaskAssumption ==
    /\ Tasks # {} /\ Scheduled \subseteq Tasks
    /\ Scheduled \cap Requests = {}

\* "ip:" and "user:" keep the keys apart (ratelimit.go:112).
ASSUME LimitsAssumption ==
    /\ Addresses \cap Names = {}
    /\ none \notin L!Buckets /\ none \notin Addresses \X Names
    /\ {Burst, Window, MaxWait, MaxTime} \subseteq Nat /\ MaxFailures \in Nat \ {0}

ASSUME TokensAssumption ==
    /\ MaxKeys \in Nat \ {0}
    /\ none \notin K!Files
    /\ Titles \cap Others = {}

\* Counts and points are numbers; what the code keeps in a bool is one.
ASSUME PickerAssumption ==
    /\ \A r \in Releases :
           /\ {r.seeders, r.leechers, r.rung, r.mbps} \subseteq Int
           /\ r.direct \in BOOLEAN
           /\ \A p \in Preferences : r.prefs[p] \in Int
    /\ Configs \subseteq
           [minSeeders : Int, maxSize : Int, target : Int, maxMbps : Int, prefer : Preferences,
            rejectCAM : BOOLEAN, requireDirect : BOOLEAN]
    /\ \A o \in Overrides :
           /\ {o.minSeeders, o.maxSize, o.target, o.maxMbps} \subseteq Int
           /\ o.prefer \subseteq Preferences
           /\ o.rejectCAM \subseteq BOOLEAN /\ o.requireDirect \subseteq BOOLEAN

ASSUME FilesAssumption ==
    /\ MaxFiles \in Nat
    /\ \A f \in Contents :
           /\ f.told \in {"name", "dir", "no"}
           /\ f.video \in BOOLEAN /\ f.sample \in BOOLEAN
           /\ f.size \in Nat

-----------------------------------------------------------------------------
\* The properties of the modules, under one name each.

\* The type invariants of all.
AllTypeOK ==
    TypeOK /\ H!TypeOK /\ T!TypeOK /\ K!TypeOK /\ L!TypeOK /\ N!TypeOK /\ R!TypeOK /\ F!TypeOK

\* HealthCheck: every row is looked at again and again for as long as it is there.
EveryRowIsLookedAt == H!EveryRowIsLookedAt

\* TaskRegistry: one goroutine at a time runs a task, and only then it is 'running'.
OneRunner == T!OneRunner

\* TaskRegistry: an accepted restart ends in a new process.
RestartComesBack == T!RestartComesBack

\* PlayTokens: once the service is up, the file of every row plays.
LibraryKeepsPlaying == K!LibraryKeepsPlaying

\* Limits: who has not failed is let through, who fails too often is not.
OnlyOffendersWait == L!OnlyOffendersWait

\* Tunnel: a live config that works ends in a tunnel that works, a leak in no TorrServer.
WatchdogHeals == N!WatchdogHeals

\* Picker: the worker tries what its rules allow, the best first; so does the dialog
\* choose, and where the two read the same they agree.
OnePick == R!OnePick

\* PackFiles: the file that is streamed is the episode.
RightFile == F!RightFile

\* Tunnel: stopped for a leak, TorrServer is started once all is well.
ComesBackAfterLeak == N!ComesBackAfterLeak
=============================================================================
