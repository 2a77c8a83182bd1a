---------------------------- MODULE Administration ----------------------------
(***************************************************************************)
(* Handlers of the dashboard that overlap: those of the accounts (extended *)
(* here), those of updating with the script they start, and the cached     *)
(* update check.  They share no state: each has its INSTANCE over          *)
(* variables of its own, and what the modules promise has one name here.   *)
(***************************************************************************)
EXTENDS Accounts, Integers, Sequences

CONSTANTS
    Published, Odd,                                 \* Updater
    Pages, CacheTTL, FailureTTL, MaxTime, MaxForced \* UpdateCheck

VARIABLES
    out, channel, current, binary, recorded, offer, running, lastState, unit, bundle, \* Updater
    now, cachedAt, cachedOK, page, forced, asked, failed, refreshes                   \* UpdateCheck

U == INSTANCE Updater WITH Lost <- none
C == INSTANCE UpdateCheck

-----------------------------------------------------------------------------
\* What semver.go compares by, as Semantic Versioning has it: the numbers in their order,
\* then the identifiers of the pre-release, which comes before the release itself and
\* before every continuation of it (semver.go:11, 136, 153, 157).

IDPrecedes(a, b) == a[1] < b[1] \/ (a[1] = b[1] /\ a[2] < b[2])

PrePrecedes(a, b) ==
    /\ a # <<>>
    /\ \/ b = <<>>
       \/ Len(a) < Len(b) /\ \A i \in DOMAIN a : a[i] = b[i]
       \/ \E k \in DOMAIN a \cap DOMAIN b : IDPrecedes(a[k], b[k]) /\ \A i \in 1 .. (k - 1) : a[i] = b[i]

Precedes(a, b) ==
    \/ \E k \in 1 .. 3 : a.nums[k] < b.nums[k] /\ \A i \in 1 .. (k - 1) : a.nums[i] = b.nums[i]
    \/ a.nums = b.nums /\ PrePrecedes(a.pre, b.pre)

\* A version that parses: its numbers, the identifiers of its pre-release and the metadata.
SemVer ==
    [word : {""}, nums : [1 .. 3 -> Nat], pre : Seq({0, 1} \X Nat), meta : {<<>>} \cup (Nat \X Nat)]

\* VERSION only grows on main, and it is what releases and nightlies are built from: what
\* is published precedes nothing that was published before, and is a build of its own.
\* Releases have no metadata, and only what the nightly workflow builds has a day.
ASSUME UpdaterAssumption ==
    /\ Published \in Seq([version : SemVer, channel : {"stable", "nightly", "other"}])
    /\ \A v \in Odd : v.word # ""
    /\ none \notin U!Versions
    /\ \A j \in DOMAIN Published :
           LET w == Published[j].version IN
           /\ Published[j].channel = "stable" => w.meta = <<>>
           /\ U!NightlyDay(w) > 0 => Published[j].channel = "nightly"
           /\ \A i \in 1 .. (j - 1) :
                  LET v == Published[i].version IN
                  \/ Precedes(v, w)
                  \/ U!SameRelease(v, w) /\ v.meta # w.meta

\* A failure is not kept longer than a success (check.go:26).
ASSUME UpdateCheckAssumption ==
    /\ {CacheTTL, FailureTTL} \subseteq Nat \ {0} /\ FailureTTL <= CacheTTL
    /\ MaxTime \in Nat /\ MaxForced \in Nat
    /\ none \notin Nat

-----------------------------------------------------------------------------
\* The properties of the modules, under one name each.

\* The type invariants of all.
AllTypeOK == TypeOK /\ U!TypeOK /\ C!TypeOK

\* Updater: no update goes back.
OnlyForward == U!OnlyForward

\* Updater: what the dashboard offers is what the script installs.
OfferIsUpgrade == U!OfferIsUpgrade

\* UpdateCheck: GitHub is asked once, however many pages ask.
OneRequest == C!OneRequest
=============================================================================
