------------------------------- MODULE Updater -------------------------------
(***************************************************************************)
(* Updating the installation: what the dashboard offers                    *)
(* (internal/update/check.go, semver.go), how it starts the root helper    *)
(* (apply.go, release/jf-update), and what the helper's script installs    *)
(* (release/jellyfreedom --update, install.sh, with verdict.go deciding).  *)
(*                                                                         *)
(* The script runs in a systemd unit of a fixed name, outlives the service *)
(* it restarts, and may be cut short at any point; another update may be   *)
(* asked for while it runs, and versions are published meanwhile.          *)
(*                                                                         *)
(* Abstractions.  An identifier of a pre-release is a pair: 0 and its      *)
(* value, or 1 and its place in the alphabet.  Build metadata is <<>>, or  *)
(* the day of a nightly and its commit, or 0 and whatever for anything     *)
(* else.  A downloaded bundle is one whose checksum fits.                  *)
(***************************************************************************)
EXTENDS Integers, Sequences, SequencesExt

CONSTANTS
    Published,  \* what is built from main, in this order: records of version and channel
    Odd,        \* versions that do not parse
    Lost        \* there is no VERSION file

VARIABLES
    out,        \* how many of Published are out
    channel,    \* the CHANNEL file
    current,    \* the version of the running process
    binary,     \* the version of the installed binary
    recorded,   \* the VERSION file
    offer,      \* the last result of the update check in this process
    running,    \* Applier.running
    lastState,  \* Applier.lastState
    unit,       \* the script's stage, "none" if there is no unit
    bundle      \* the version the script has downloaded

vars == <<out, channel, current, binary, recorded, offer, running, lastState, unit, bundle>>
disk == <<channel, binary, recorded>>
script == <<unit, bundle>>

Versions == {Published[i].version : i \in DOMAIN Published} \cup Odd

-----------------------------------------------------------------------------
\* The order of versions.

CmpInt(a, b) == IF a < b THEN -1 ELSE IF a > b THEN 1 ELSE 0

\* The first comparison that tells a difference decides.
Decided(cs) ==
    LET i == SelectInSeq(cs, LAMBDA c : c # 0)
    IN  IF i = 0 THEN 0 ELSE cs[i]

CmpPreID(a, b) == Decided(<<CmpInt(a[1], b[1]), CmpInt(a[2], b[2])>>)

\* (mutant: a version without identifiers is a prefix of every other)
PrefixIsLess(a, b) ==
    Decided([i \in 1 .. (IF Len(a) < Len(b) THEN Len(a) ELSE Len(b)) |-> CmpPreID(a[i], b[i])]
                \o <<CmpInt(Len(a), Len(b))>>)

CmpPre(a, b) ==
    CASE a = <<>> /\ b = <<>> -> 0
      [] a = <<>> /\ b # <<>> -> 1
      [] a # <<>> /\ b = <<>> -> -1
      [] OTHER -> Decided([i \in 1 .. (IF Len(a) < Len(b) THEN Len(a) ELSE Len(b)) |-> CmpPreID(a[i], b[i])]
                              \o <<CmpInt(Len(a), Len(b))>>)

Compare(a, b) == Decided([i \in 1 .. 3 |-> CmpInt(a.nums[i], b.nums[i])] \o <<CmpPre(a.pre, b.pre)>>)

Parses(v) == v.word = ""
IsDev(v) == v.word = "dev"

IsNewer(cur, latest) == ~IsDev(cur) /\ Parses(cur) /\ Parses(latest) /\ Compare(latest, cur) > 0

\* The day of a nightly, 0 for other metadata.
NightlyDay(v) == IF v.meta = <<>> THEN 0 ELSE v.meta[1]

\* (mutant: whatever is not the installed version is installed)
VerdictByEquality(cur, cand) == IF cur = cand THEN "same" ELSE "upgrade"

InstallVerdict(cur, cand) ==
    LET curNight == NightlyDay(cur)
        candNight == NightlyDay(cand)
        sign == Compare(cand, cur)
        later == candNight > 0 /\ (cur.meta = <<>> \/ (curNight > 0 /\ candNight >= curNight))
        earlier == curNight > 0 /\ (cand.meta = <<>> \/ (candNight > 0 /\ candNight < curNight))
    IN  IF cur = cand THEN "same"
        ELSE IF ~(Parses(cur) /\ Parses(cand)) THEN "unknown"
        ELSE IF sign > 0 \/ (sign = 0 /\ later) THEN "upgrade"
        ELSE IF sign < 0 \/ (sign = 0 /\ earlier) THEN "downgrade"
        ELSE "unknown"

-----------------------------------------------------------------------------
\* What is out.

Out == SubSeq(Published, 1, out)

\* The latest of a channel: GitHub's latest release, or the newest nightly.
Newest(c) == SelectLastInSeq(Out, LAMBDA p : p.channel = c)

\* Result: `latest' is 0 if there was none to compare with.
Results == [latest : 0 .. Len(Published), available : BOOLEAN, error : BOOLEAN]

Nothing == [latest |-> 0, available |-> FALSE, error |-> FALSE]

TypeOK ==
    /\ out \in 0 .. Len(Published)
    /\ channel \in {"stable", "nightly"}
    /\ current \in Versions /\ binary \in Versions
    /\ recorded \in Versions \cup {Lost}
    /\ offer \in Results
    /\ running \in BOOLEAN
    /\ lastState \in {"idle", "running", "done", "failed"}
    /\ unit \in {"none", "download", "judge", "binary", "version", "rest", "restart"}
    /\ bundle \in Versions \cup {Lost}

\* Something that is out, or built by hand, is installed.
Init ==
    /\ out \in 1 .. Len(Published)
    /\ channel \in {"stable", "nightly"}
    /\ current \in {Published[i].version : i \in 1 .. out} \cup Odd
    /\ binary = current
    /\ recorded \in {current, Lost}
    /\ offer = Nothing
    /\ running = FALSE /\ lastState = "idle"
    /\ unit = "none" /\ bundle = Lost

Publish ==
    /\ out < Len(Published)
    /\ out' = out + 1
    /\ UNCHANGED <<current, offer, running, lastState, disk, script>>

\* `jellyfreedom channel'.
SwitchChannel ==
    /\ channel' \in {"stable", "nightly"} \ {channel}
    /\ UNCHANGED <<out, current, binary, recorded, offer, running, lastState, script>>

-----------------------------------------------------------------------------
\* The service.

\* live: GitHub fails, or names its latest release, whatever the channel is.
Live(fails) ==
    LET latest == Newest("stable")
        bad == fails \/ latest = 0
    IN  IF bad THEN [latest |-> 0, available |-> FALSE, error |-> TRUE]
        ELSE LET v == Published[latest].version
             IN  [latest |-> latest,
                  available |-> IsNewer(current, v),
                  error |-> ~IsDev(current) /\ ~(Parses(current) /\ Parses(v))]

Check ==
    /\ \E fails \in BOOLEAN : offer' = Live(fails)
    /\ UNCHANGED <<out, current, running, lastState, disk, script>>

\* Refused while a launch is under way; the helper is there.
Apply ==
    /\ ~running
    /\ running' = TRUE /\ lastState' = "running"
    /\ UNCHANGED <<out, current, offer, disk, script>>

\* The helper starts the unit, unless there is one; or fails, or is given up when it
\* has done so.
Launched ==
    /\ running
    /\ running' = FALSE
    /\ \/ unit = "none" /\ unit' = "download" /\ lastState' \in {"done", "failed"}
       \/ UNCHANGED unit /\ lastState' = "failed"
    /\ UNCHANGED <<out, current, offer, disk, bundle>>

\* The process ends, for whatever reason, and systemd starts the installed binary.
NewProcess ==
    /\ current' = binary
    /\ offer' = Nothing
    /\ running' = FALSE /\ lastState' = "idle"

Restart == NewProcess /\ UNCHANGED <<out, disk, script>>

-----------------------------------------------------------------------------
\* The script.

At(stage) == unit = stage /\ UNCHANGED <<out, channel>>
Process == <<current, offer, running, lastState>>

\* (mutant: a unit that has ended stays loaded)
UnitStays == unit' = "done" /\ bundle' = Lost

\* The script ends, and its directory and unit with it.
NoUnit == unit' = "none" /\ bundle' = Lost

\* The bundle of the channel.
Download ==
    /\ At("download")
    /\ Newest(channel) # 0
    /\ bundle' = Published[Newest(channel)].version
    /\ unit' = "judge"
    /\ UNCHANGED <<binary, recorded, Process>>

\* The installed binary is asked; without a recorded version there is nothing to ask.
Judge ==
    /\ At("judge")
    /\ IF recorded = Lost \/ InstallVerdict(recorded, bundle) = "upgrade"
       THEN unit' = "binary" /\ UNCHANGED bundle
       ELSE NoUnit
    /\ UNCHANGED <<binary, recorded, Process>>

\* install.sh: the binary, the VERSION file, and everything else.
InstallBinary ==
    /\ At("binary")
    /\ binary' = bundle
    /\ unit' = "version"
    /\ UNCHANGED <<recorded, bundle, Process>>

InstallVersion ==
    /\ At("version")
    /\ recorded' = bundle
    /\ unit' = "rest"
    /\ UNCHANGED <<binary, bundle, Process>>

InstallRest ==
    /\ At("rest")
    /\ unit' = "restart"
    /\ UNCHANGED <<binary, recorded, bundle, Process>>

RestartService ==
    /\ At("restart")
    /\ NewProcess /\ NoUnit
    /\ UNCHANGED <<binary, recorded>>

\* A step fails, or the machine does.
Aborted ==
    /\ unit # "none"
    /\ NoUnit
    /\ UNCHANGED <<out, disk, Process>>

Script == Download \/ Judge \/ InstallBinary \/ InstallVersion \/ InstallRest \/ RestartService

Next == Publish \/ SwitchChannel \/ Check \/ Apply \/ Launched \/ Restart \/ Script \/ Aborted

Spec == Init /\ [][Next]_vars

-----------------------------------------------------------------------------
\* Properties.

\* The reference order: that of publication.
Place(v) == SelectInSeq(Published, LAMBDA p : p.version = v)

\* Builds of one number: releases, and nightlies of main while VERSION said so, before
\* the tag as well as after it (nightly.yml:62, release.yml:106).
SameRelease(v, w) == v.nums = w.nums /\ v.pre = w.pre

\* w was built after v, or is taken for it: a nightly of the number of an installed
\* release (verdict.go:57), which may be from before its tag.
After(w, v) ==
    /\ Place(v) # 0
    /\ \/ Place(w) > Place(v)
       \/ SameRelease(v, w) /\ v.meta = <<>> /\ NightlyDay(w) > 0

\* However updates, interruptions, restarts, switches of the channel and new versions
\* interleave: what is installed over a recorded version was built after it, also when
\* both are nightlies of one day, which the comparison cannot tell (verdict.go:65: "The
\* CLI only ever fetches the newest nightly"); nothing is installed over a version that
\* does not parse (release/jellyfreedom:26, "--update never installs an older release than
\* the one installed").  VERSION names a bundle only once its binary is in place, so that
\* an interrupted update is taken up by the next.  It is VERSION that the next one is
\* judged by: over the binary an interrupted update left, an older one may be installed.
OnlyForward ==
    [][recorded # Lost =>
          /\ recorded' # recorded => After(recorded', recorded) /\ recorded' = binary'
          /\ binary' # binary => After(binary', recorded)]_vars

\* The dashboard offers the latest release exactly if it was published after the
\* version that runs and has another number: a nightly of the number that waits for its
\* tag is never offered the release (verdict.go:61).  And what is offered the script
\* would not refuse on the stable channel, unless that or a nightly of its number is
\* installed by now.
OfferIsUpgrade ==
    (offer.latest # 0 /\ ~offer.error) =>
        LET release == Published[offer.latest].version IN
        /\ offer.available <=> /\ ~IsDev(current)
                              /\ offer.latest > Place(current) /\ ~SameRelease(current, release)
        /\ offer.available /\ recorded # Lost =>
               \/ InstallVerdict(recorded, release) = "upgrade"
               \/ Place(recorded) >= offer.latest \/ SameRelease(recorded, release)
=============================================================================
