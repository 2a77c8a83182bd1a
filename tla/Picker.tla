-------------------------------- MODULE Picker --------------------------------
(***************************************************************************)
(* What becomes of the indexer's answer: internal/picker (Score and        *)
(* RejectedBy) and its three readers in cmd/orchestrator -- the list of    *)
(* /api/releases, whose IsBest the dialog preselects; resolvePlayable,     *)
(* which tries its candidates in order; and diagnosis.go, which tells why  *)
(* there were none.  Score and RejectedBy state the rules twice.           *)
(*                                                                         *)
(* The dialog and the worker send the same query, but they read the answer *)
(* differently: the dialog scores all of it with the global settings and   *)
(* without the running time; the worker has the settings of the library,   *)
(* the running time if it is known, only the releases that name the        *)
(* episode if there are any, and a second query if there is no answer.     *)
(* (For what has no season or no episode the dialog asks for the title     *)
(* alone, but that cannot be requested, main.go:1073.)                     *)
(*                                                                         *)
(* A release title is a sequence of tokens, split as tokenise does; the    *)
(* classes below have a few members of each vocabulary.  Codecs and        *)
(* container are `direct' and the points `prefs' that a choice of          *)
(* preference lists gives; sizes are in GB, and the bitrate, where the     *)
(* running time is known, is an attribute of the release.                  *)
(***************************************************************************)
EXTENDS Integers, Sequences, SequencesExt

CONSTANTS
    Releases,   \* what the indexer may know
    Configs,    \* global settings of the picker
    Overrides,  \* settings of a library: 0 and {} are what it leaves unset
    Preferences, \* choices of preference lists
    Titles,     \* titles asked for, as sequences of tokens
    Most        \* releases in an answer

VARIABLES
    cfg, over,            \* the global settings, and those of the request's library
    timed,                \* the running time is known
    known, episode,       \* the request: title, and whether it is for an episode
    found,                \* the answer of the indexer, so far
    packs,                \* its answer to the worker's second query
    scored,               \* the dialog's list
    candidates,           \* what resolvePlayable will try, in this order
    diagnosed             \* the diagnosis: one reason per release of the answer

vars == <<cfg, over, timed, known, episode, found, packs, scored, candidates, diagnosed>>

-----------------------------------------------------------------------------
\* Titles.

Years == {"2018"}
TagStart == Years \cup {"1080p", "x264", "s01e02"}
ShortCam == {"cam", "ts"}
StrongCam == {"hdcam", "screener"}
CleanSource == {"bluray", "webrip"}
Junk == {"sample", "extras"}
Noise == {"1080p", "x264", "cam", "ts", "bluray", "webrip"}
Stop == {"the"}
Label == "s01e02"

From(s, P(_)) ==
    LET i == SelectInSeq(s, P)
    IN  IF i = 0 THEN <<>> ELSE SubSeq(s, i, Len(s))

\* The part of the title in which tags are: behind the known title, else from the
\* first token that looks like a tag, else all of it.
TagRegion(title, name) ==
    LET rest == From(title, LAMBDA t : t \notin ToSet(name))
        tags == From(title, LAMBDA t : t \in TagStart)
    IN  IF title # <<>> /\ title[1] \in ToSet(name) THEN rest
        ELSE IF tags # <<>> THEN tags
        ELSE title

Has(tokens, class) == ToSet(tokens) \cap class # {}

IsJunkFor(title, name) == Has(TagRegion(title, name), Junk)

IsCAMFor(title, name) ==
    \/ Has(title, StrongCam)
    \/ ~Has(title, CleanSource) /\ Has(TagRegion(title, name), ShortCam)

\* Without the noise; nine of ten significant words, seven of ten if the year is there.
\* (The code takes a word for found inside a longer one, too.)
TitleMatch(title, name) ==
    LET words == SelectSeq(name, LAMBDA w : w \notin Noise \cup Stop)
        hits == SelectSeq(words, LAMBDA w : w \in ToSet(title) \ Noise)
    IN  10 * Len(hits) >= Len(words) * (IF Has(title, Years) THEN 7 ELSE 9)

-----------------------------------------------------------------------------
\* Points.

SeederPoints(n) ==
    LET steps == {<<5, 25>>, <<10, 50>>, <<20, 100>>, <<50, 180>>, <<100, 280>>, <<200, 380>>, <<500, 500>>}
        reached == {step \in steps : n >= step[1]}
    IN  IF reached = {} THEN n ELSE Max({step[2] : step \in reached})

\* Rungs below the target; 6, above every target, stands for a resolution that is not known.
ResolutionPoints(rung, target) ==
    CASE rung > target -> 100 [] rung = target -> 300
      [] rung = target - 1 -> 150 [] rung = target - 2 -> 0 [] rung < target - 2 -> -150

BitratePoints(mbps, most) ==
    IF most <= 0 \/ mbps <= most THEN 0
    ELSE -Min({((mbps - most) * 400) \div most, 800})

SeedRatioBonus(seeders, leechers) ==
    IF seeders <= 0 THEN 0
    ELSE IF leechers <= 0 \/ seeders >= 5 * leechers THEN 40
    ELSE IF seeders >= 2 * leechers THEN 25
    ELSE IF seeders >= leechers THEN 10
    ELSE 0

ScoreRelease(c, r) ==
    SeederPoints(r.seeders) + (IF r.direct THEN 400 ELSE 0) + ResolutionPoints(r.rung, c.target)
        + BitratePoints(r.mbps, c.maxMbps) + SeedRatioBonus(r.seeders, r.leechers) + r.prefs[c.prefer]

-----------------------------------------------------------------------------
\* The settings: what a library sets replaces the global value.  Without the running
\* time there is no bitrate, and so no cap.

SetOr(o, c) == IF o # {} THEN CHOOSE p \in o : TRUE ELSE c

PickerFor(c, o) ==
    [minSeeders |-> IF o.minSeeders > 0 THEN o.minSeeders ELSE c.minSeeders,
     maxSize |-> IF o.maxSize > 0 THEN o.maxSize ELSE c.maxSize,
     target |-> IF o.target > 0 THEN o.target ELSE c.target,
     maxMbps |-> IF o.maxMbps > 0 THEN o.maxMbps ELSE c.maxMbps,
     prefer |-> SetOr(o.prefer, c.prefer),
     rejectCAM |-> SetOr(o.rejectCAM, c.rejectCAM),
     requireDirect |-> SetOr(o.requireDirect, c.requireDirect)]

Untimed(c) == [c EXCEPT !.maxMbps = 0]

DialogsConfig == Untimed(cfg)
WorkersConfig == IF timed THEN PickerFor(cfg, over) ELSE Untimed(PickerFor(cfg, over))

-----------------------------------------------------------------------------
\* Score, and RejectedBy with requireTitleMatch = FALSE.

TooLarge(c, r) == c.maxSize > 0 /\ r.size > c.maxSize

Listed(c, r) ==
    /\ r.seeders >= c.minSeeders
    /\ ~TooLarge(c, r)
    /\ ~IsJunkFor(r.title, known)
    /\ c.requireDirect => r.direct

Judged(c, r) ==
    LET cam == IsCAMFor(r.title, known)
    IN  [release |-> r, cam |-> cam, best |-> FALSE,
         score |-> ScoreRelease(c, r) + (IF TitleMatch(r.title, known) THEN 500 ELSE 0)
                                   - (IF cam THEN 10000 ELSE 0)]

Eligible(c, j) == ~(c.rejectCAM /\ j.cam)

\* (mutant: of equals the last one is the best)
BestLast(c, js) ==
    {i \in DOMAIN js : Eligible(c, js[i]) /\ \A k \in DOMAIN js : Eligible(c, js[k]) =>
        js[k].score < js[i].score \/ (js[k].score = js[i].score /\ k <= i)}

\* bestIdx: the first eligible one that no eligible one exceeds.
Best(c, js) ==
    {i \in DOMAIN js : Eligible(c, js[i]) /\ \A k \in DOMAIN js : Eligible(c, js[k]) =>
        js[k].score < js[i].score \/ (js[k].score = js[i].score /\ k >= i)}

\* One step of the insertion sort: behind the last one that has as many points.
Insert(sorted, j) ==
    InsertAt(sorted, Max({0} \cup {k \in DOMAIN sorted : sorted[k].score >= j.score}) + 1, j)

\* The loops of the code are recursive functions here, which can be reasoned about.
\* The insertion sort:
Sorted(js) ==
    LET upTo[n \in 0 .. Len(js)] == IF n = 0 THEN <<>> ELSE Insert(upTo[n - 1], js[n])
    IN  upTo[Len(js)]

\* The elements with an index in `at', in their order:
Keep(s, at) ==
    LET upTo[n \in 0 .. Len(s)] ==
            IF n = 0 THEN <<>> ELSE IF n \in at THEN Append(upTo[n - 1], s[n]) ELSE upTo[n - 1]
    IN  upTo[Len(s)]

\* The sequence itself; TLC computes its elements once and not whenever they are read.
Evaluated(s) == SubSeq(s, 1, Len(s))

Score(c, rs) ==
    LET listed == Keep(rs, {i \in DOMAIN rs : Listed(c, rs[i])})
        judged == Evaluated([i \in DOMAIN listed |-> Judged(c, listed[i])])
    IN  Sorted(Evaluated([i \in DOMAIN listed |-> [judged[i] EXCEPT !.best = i \in Best(c, judged)]]))

RejectedBy(c, r) ==
    IF r.seeders < c.minSeeders THEN "min_seeders"
    ELSE IF TooLarge(c, r) THEN "max_size_gb"
    ELSE IF IsJunkFor(r.title, known) THEN "junk_release"
    ELSE IF c.requireDirect /\ ~r.direct THEN "require_direct_play"
    ELSE IF c.rejectCAM /\ IsCAMFor(r.title, known) THEN "reject_cam"
    ELSE ""

-----------------------------------------------------------------------------
\* The dialog, and resolvePlayable up to its candidates.

Init ==
    /\ cfg \in Configs /\ over \in Overrides /\ timed \in BOOLEAN
    /\ known \in Titles /\ episode \in BOOLEAN
    /\ found = <<>> /\ packs = <<>> /\ scored = <<>> /\ candidates = <<>> /\ diagnosed = <<>>

\* The worker's answer: of a season, if there is none of the episode.
Answer == IF episode /\ found = <<>> THEN packs ELSE found

\* For an episode, only the releases that name it count for the worker, if there are any.
Narrowed(rs) ==
    LET labelled == {i \in DOMAIN rs : Has(rs[i].title, {Label})}
    IN  IF episode /\ labelled # {} THEN Keep(rs, labelled) ELSE rs

\* What the two make of the answers that are there now.
Read ==
    LET listed == Score(WorkersConfig, Narrowed(Answer'))
        left == Keep(listed, {i \in DOMAIN listed : Eligible(WorkersConfig, listed[i])})
    IN  /\ UNCHANGED <<cfg, over, timed, known, episode>>
        /\ scored' = Score(DialogsConfig, found')
        /\ candidates' = [i \in DOMAIN left |-> left[i].release]
        /\ diagnosed' = IF candidates' # <<>> THEN <<>>
                         ELSE [i \in DOMAIN Answer' |-> RejectedBy(WorkersConfig, Answer'[i])]

\* One more release in the answer to the query that both send...
Find(r) ==
    /\ Len(found) < Most /\ packs = <<>>
    /\ found' = Append(found, r) /\ UNCHANGED packs
    /\ Read

\* ... or in that to the worker's second one.
FindPack(r) ==
    /\ episode /\ found = <<>>
    /\ Len(packs) < Most
    /\ packs' = Append(packs, r) /\ UNCHANGED found
    /\ Read

Next == \E r \in Releases : Find(r) \/ FindPack(r)

Spec == Init /\ [][Next]_vars

-----------------------------------------------------------------------------

Verdicts == {"", "min_seeders", "max_size_gb", "junk_release", "require_direct_play", "reject_cam"}

TypeOK ==
    /\ cfg \in Configs /\ over \in Overrides /\ timed \in BOOLEAN
    /\ known \in Titles /\ episode \in BOOLEAN
    /\ found \in Seq(Releases) /\ packs \in Seq(Releases) /\ candidates \in Seq(Releases)
    /\ \A i \in DOMAIN scored : scored[i].release \in Releases /\ scored[i].score \in Int
    /\ \A i \in DOMAIN diagnosed : diagnosed[i] \in Verdicts

Allowed(c, rs) == {r \in ToSet(rs) : RejectedBy(c, r) = ""}

\* The worker tries exactly what its rules allow, what has more points first, and if
\* there is nothing the diagnosis has a reason against every release that counts.  The
\* dialog preselects one iff its rules allow one, and none that is allowed has more
\* points.  Where the library has no settings of its own, no cap takes effect and the
\* answer was neither narrowed nor replaced, the two agree: what is preselected is what
\* the worker would try first.
OnePick ==
    LET mine == WorkersConfig
        theirs == DialogsConfig
        counted == Narrowed(Answer)
    IN  /\ ToSet(candidates) = Allowed(mine, counted)
        /\ \A i \in 2 .. Len(candidates) :
              Judged(mine, candidates[i - 1]).score >= Judged(mine, candidates[i]).score
        /\ candidates = <<>> =>
              \A i \in DOMAIN Answer : Answer[i] \in ToSet(counted) => diagnosed[i] # ""
        /\ Allowed(theirs, found) # {} => \E i \in DOMAIN scored : scored[i].best
        /\ \A i \in DOMAIN scored : scored[i].best =>
              /\ scored[i].release \in Allowed(theirs, found)
              /\ \A r \in Allowed(theirs, found) : Judged(theirs, r).score <= scored[i].score
              /\ mine = theirs /\ counted = found =>
                    candidates # <<>> /\ candidates[1] = scored[i].release
=============================================================================
