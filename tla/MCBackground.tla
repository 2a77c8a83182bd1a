----------------------------- MODULE MCBackground -----------------------------
(***************************************************************************)
(* Model values for the components of Background, checked one by one:      *)
(* `part' says which of them a behaviour is of, and the others keep their  *)
(* initial state, in which nothing is asked of them.                       *)
(***************************************************************************)
EXTENDS Background

CONSTANTS e2, e3, w1, w2, w3, health, scan, r1, r2, film, other, ip1, ip2, alice, h1, h2, s1, s2

VARIABLE part

MCTwoEpisodes == {e2, e3}
MCThreeLoops == {w1, w2, w3}
MCTasks == {health, scan}
MCScheduled == {health}
MCRequests == {r1, r2}
MCTitles == {film}
MCOthers == {other}
MCAddresses == {ip1, ip2}
MCNames == {alice}
MCHandlers == {h1, h2}
MCActivations == {h1, h2}
MCSlugs == {s1, s2}

MCPreferences == {alice}

\* Releases that are told apart by one rule each, and two that no rule prefers.
Release(title, seeders, leechers, size, direct, rung) ==
    [title |-> title, seeders |-> seeders, leechers |-> leechers, size |-> size, direct |-> direct,
     rung |-> rung, mbps |-> 2 * size, prefs |-> [p \in MCPreferences |-> 0]]

MCReleases ==
    {Release(<<"cam", "2018", "1080p", "bluray">>, 60, 0, 4, TRUE, 4),
     Release(<<"cam", "2018", "cam">>, 600, 10, 2, TRUE, 6),
     Release(<<"ghost", "2018", "1080p", "webrip">>, 60, 0, 4, TRUE, 4),
     Release(<<"the", "ghost", "1080p">>, 60, 0, 4, TRUE, 4),
     Release(<<"ghost", "s01e02", "x264">>, 3, 0, 8, FALSE, 2),
     Release(<<"ghost", "sample">>, 60, 0, 1, TRUE, 6)}

Setting(seeders, size, noCam, direct) ==
    [minSeeders |-> seeders, maxSize |-> size, rejectCAM |-> noCam, requireDirect |-> direct,
     target |-> 4, maxMbps |-> 5, prefer |-> alice]

Library(seeders, size, noCam, direct) ==
    [minSeeders |-> seeders, maxSize |-> size, rejectCAM |-> noCam, requireDirect |-> direct,
     target |-> 0, maxMbps |-> 0, prefer |-> {}]

Defaults == Setting(5, 0, TRUE, FALSE)

MCConfigs == {Defaults, Setting(0, 0, FALSE, FALSE), Setting(5, 3, TRUE, TRUE)}
NothingSet == Library(0, 0, {}, {})
MCOverrides == {NothingSet, Library(0, 3, {FALSE}, {TRUE})}
MCQueries == {<<"cam">>, <<"the", "ghost">>}

\* Files that the folder's name, their own names or directories tell apart, and two
\* that only accompany others.
PackFile(holds, told, video, sample, size) ==
    [holds |-> holds, told |-> told, video |-> video, sample |-> sample, size |-> size]

MCFolders == {{}, {1}, {2}}
MCFiles ==
    {PackFile({1}, "name", TRUE, FALSE, 2), PackFile({1}, "name", TRUE, TRUE, 1),
     PackFile({1}, "dir", TRUE, FALSE, 2), PackFile({1}, "dir", FALSE, FALSE, 0),
     PackFile({1}, "no", TRUE, FALSE, 2), PackFile({1, 2}, "name", TRUE, FALSE, 3),
     PackFile({2}, "name", TRUE, FALSE, 3), PackFile({2}, "name", FALSE, FALSE, 0),
     PackFile({2}, "dir", TRUE, FALSE, 3), PackFile({2}, "no", TRUE, FALSE, 3)}

checking == <<rowStatus, lastId, alive, cursor, phase, left, copies, at, checked>>
tasking == <<status, doing, job, process, pending, armed, requested, exit, stopped, policy>>
signing == <<key, marker, keys, rows, file, step, memKey, enforced, before, todo, lost>>
limiting == <<now, buckets, trying, streak>>
tunnelling == <<stored, live, active, tunnel, answering, leak, torr, latch, watch, run>>
picking == <<cfg, over, timed, known, episode, found, packs, scored, candidates, diagnosed>>
choosing == <<folder, files, first, chosen>>
allVars == <<part, vars, checking, tasking, signing, limiting, tunnelling, picking, choosing>>

InitOfAll ==
    /\ part \in {"prewarm", "health", "tasks", "tokens", "limits", "tunnel", "activations", "picker", "files"}
    /\ Init /\ H!Init /\ L!Init
    /\ T!Init /\ (part # "tasks" => policy = "always")
    /\ N!Init /\ (part \notin {"tunnel", "activations"} => answering = {})
    /\ F!Init /\ (part # "files" => folder = {} /\ first = 1)
    /\ R!Init /\ (over # NothingSet \/ timed => cfg = Defaults) /\ (episode => known = <<"the", "ghost">>)
    /\ (part # "picker" => cfg = Defaults /\ over = NothingSet /\ ~timed /\ known = <<"cam">> /\ ~episode)
    /\ K!Init /\ (part # "tokens" => key = 0 /\ ~marker /\ rows = {} /\ \A e \in {film, other} : file[e] = none)

\* Of the tunnel: one activation at a time, with leaks; or two that overlap, without,
\* while servers may stop to answer.
OneActivation == run'[h2] = run[h2]
TwoActivations ==
    /\ \A h \in MCActivations : run'[h] = N!Idle \/ run'[h].slug = (IF h = h1 THEN s1 ELSE s2)
    /\ ~leak' /\ stored \subseteq stored' /\ answering' \subseteq answering

NextOfAll ==
    /\ UNCHANGED part
    /\ \/ /\ part = "prewarm" /\ Next
          /\ UNCHANGED <<checking, tasking, signing, limiting, tunnelling, picking, choosing>>
       \/ /\ part = "health" /\ H!Next
          /\ UNCHANGED <<vars, tasking, signing, limiting, tunnelling, picking, choosing>>
       \/ /\ part = "tasks" /\ T!Next
          /\ UNCHANGED <<vars, checking, signing, limiting, tunnelling, picking, choosing>>
       \/ /\ part = "tokens" /\ K!Next
          /\ UNCHANGED <<vars, checking, tasking, limiting, tunnelling, picking, choosing>>
       \/ /\ part = "limits" /\ (L!Next \/ UNCHANGED limiting)   \* time ends at its bound
          /\ UNCHANGED <<vars, checking, tasking, signing, tunnelling, picking, choosing>>
       \/ /\ \/ part = "tunnel" /\ N!Next /\ OneActivation
             \/ part = "activations" /\ N!Next /\ TwoActivations
          /\ UNCHANGED <<vars, checking, tasking, signing, limiting, picking, choosing>>
       \/ /\ part = "picker" /\ (R!Next \/ UNCHANGED picking)    \* so do the indexer's answers
          /\ UNCHANGED <<vars, checking, tasking, signing, limiting, tunnelling, choosing>>
       \/ /\ part = "files" /\ (F!Next \/ UNCHANGED choosing)    \* and a torrent's files
          /\ UNCHANGED <<vars, checking, tasking, signing, limiting, tunnelling, picking>>

\* Each module's Fairness, for the part that runs.
FairnessOfAll ==
    /\ WF_checking(part = "health" /\ H!Run) /\ SF_checking(part = "health" /\ H!Look(TRUE))
    /\ WF_tasking(part = "tasks" /\ T!Tick(health))
    /\ \A g \in {health, r1, r2} : WF_tasking(part = "tasks" /\ T!Work(g))
    /\ WF_tasking(part = "tasks" /\ T!Trigger) /\ WF_tasking(part = "tasks" /\ T!Exit)
    /\ WF_tasking(part = "tasks" /\ T!Revive)
    /\ WF_tunnelling(part \in {"tunnel", "activations"} /\ N!Watch)
    /\ \A h \in MCActivations : WF_tunnelling(part \in {"tunnel", "activations"} /\ N!Handle(h))

SpecOfAll == InitOfAll /\ [][NextOfAll]_allVars /\ FairnessOfAll
=============================================================================
