------------------------------ MODULE PackFiles ------------------------------
(***************************************************************************)
(* Which file of a torrent is the episode (internal/torrserver,            *)
(* EpisodeFileIndex), and whether /play may stream it (resolveFileIndex).  *)
(*                                                                         *)
(* A torrent is a folder of files.  The name of a file may tell its        *)
(* episodes, a directory of its own may ("S01/E05.mkv"), or nothing does;  *)
(* the folder's name may hold an episode's token, too, and then it is in   *)
(* the path of every file ("Show.S01E01-E10/").  The regular expression    *)
(* of MatchesEpisode is taken for what it is meant to tell: the episodes   *)
(* that a name names.                                                      *)
(***************************************************************************)
EXTENDS Integers, Sequences, SequencesExt, FiniteSets

CONSTANTS
    Files,    \* records: holds (set of episodes), told ("name", "dir", "no"), video, sample, size
    Folders,  \* sets of episodes that a folder's name may name
    Asked,    \* the episode asked for
    Most      \* bound: files of a torrent

VARIABLES
    folder, files,  \* the torrent
    first,          \* the id of its first file
    chosen          \* EpisodeFileIndex's answer

vars == <<folder, files, first, chosen>>

-----------------------------------------------------------------------------

Named(f) == IF f.told = "name" THEN f.holds ELSE {}
InPath(f) == folder \cup (IF f.told = "no" THEN {} ELSE f.holds)

\* MatchesEpisode, of the base name or the path.
MatchesName(f) == Asked \in Named(f)
MatchesPath(f) == Asked \in InPath(f)

Id(i) == first + i - 1

\* (mutant: the first pass looks at the whole path)
LargestInPath(fs) ==
    {i \in DOMAIN fs : MatchesPath(fs[i]) /\ \A k \in DOMAIN fs : MatchesPath(fs[k]) =>
        fs[k].size < fs[i].size \/ (fs[k].size = fs[i].size /\ k >= i)}

\* largestMatching: the first of the biggest.
LargestNamed(fs) ==
    {i \in DOMAIN fs : MatchesName(fs[i]) /\ \A k \in DOMAIN fs : MatchesName(fs[k]) =>
        fs[k].size < fs[i].size \/ (fs[k].size = fs[i].size /\ k >= i)}

\* uniqueMatching.
UniqueInPath(fs) ==
    LET matching == {i \in DOMAIN fs : MatchesPath(fs[i])}
    IN  IF Cardinality(matching) = 1 THEN matching ELSE {}

Videos(fs) == {i \in DOMAIN fs : fs[i].video}

\* BestFileIndex: the first of the biggest; 0 if all are empty.
BestFileIndex(fs) ==
    LET i == SelectInSeq(fs, LAMBDA f : f.size > 0 /\ \A k \in DOMAIN fs : fs[k].size <= f.size)
    IN  IF i = 0 THEN 0 ELSE Id(i)

Sure(indices) == [index |-> Id(CHOOSE i \in indices : TRUE), matched |-> TRUE]

EpisodeFileIndex(fs) ==
    CASE LargestNamed(fs) # {} -> Sure(LargestNamed(fs))
      [] LargestNamed(fs) = {} /\ UniqueInPath(fs) # {} -> Sure(UniqueInPath(fs))
      [] LargestNamed(fs) = {} /\ UniqueInPath(fs) = {} /\ Cardinality(Videos(fs)) = 1 -> Sure(Videos(fs))
      [] OTHER -> [index |-> BestFileIndex(fs), matched |-> FALSE]

\* resolveFileIndex, for an episode.
Playable == chosen.matched /\ chosen.index > 0

-----------------------------------------------------------------------------

TypeOK ==
    /\ folder \in Folders
    /\ files \in Seq(Files)
    /\ first \in {0, 1}
    /\ chosen \in [index : 0 .. Most, matched : BOOLEAN]

Init ==
    /\ folder \in Folders
    /\ first \in {0, 1}
    /\ files = <<>>
    /\ chosen = [index |-> 0, matched |-> FALSE]

\* TorrServer lists one more file.
List(f) ==
    /\ Len(files) < Most
    /\ files' = Append(files, f)
    /\ chosen' = EpisodeFileIndex(files')
    /\ UNCHANGED <<folder, first>>

Next == \E f \in Files : List(f)

Spec == Init /\ [][Next]_vars

-----------------------------------------------------------------------------

\* Samples and subtitles are beside a bigger video of the same name.
WellMade ==
    \A i \in DOMAIN files : files[i].sample \/ ~files[i].video =>
        \E k \in DOMAIN files :
            /\ files[k].video /\ ~files[k].sample /\ files[k].size > files[i].size
            /\ files[k].holds = files[i].holds /\ files[k].told = files[i].told

\* Of a torrent with several videos, /play streams the episode itself and nothing else,
\* whatever its folder is called and however its files are ordered and numbered; and an
\* episode whose file is named after it is found (client.go:365, "The viewer got a random
\* episode with no indication anything had gone wrong").
RightFile ==
    WellMade /\ Cardinality(Videos(files)) > 1 =>
        /\ Playable =>
            LET f == files[chosen.index - first + 1]
            IN  Asked \in f.holds /\ f.video /\ ~f.sample
        /\ (\E i \in DOMAIN files : MatchesName(files[i])) => chosen.matched
=============================================================================
