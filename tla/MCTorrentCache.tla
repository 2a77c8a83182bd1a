---------------------------- MODULE MCTorrentCache ----------------------------
(* Model values for the runs of TorrentCache. *)
EXTENDS TorrentCache, TLC

CONSTANTS e1, e2, pack, single, worker, player, request, call, task

MCTitles == {e1, e2}
MCHashes == {pack, single}
\* The two torrents differ in nothing but their names.
MCSymmetry == Permutations(MCHashes)
MCPack == {pack}
MCNone == {}
MCWorker == {worker}
MCViewer == {player}
MCRemover == {request}
MCHook == {call}
MCCleaner == {task}
=============================================================================
