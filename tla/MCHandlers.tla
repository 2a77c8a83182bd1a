----------------------------- MODULE MCHandlers -----------------------------
(***************************************************************************)
(* Handlers of the API that overlap: those of the accounts, and those of   *)
(* updating, with the script they start.  They share no state; `part' says *)
(* which of them a behaviour is of, and the others keep an initial state.  *)
(***************************************************************************)
EXTENDS Administration, TLC

CONSTANTS n1, n2, films, k1, k2, h1, h2, p1, p2

VARIABLE part

MCNames == {n1, n2}
MCLibraries == {films}
MCTokens == {k1, k2}
MCTwoHandlers == {h1, h2}
MCPages == {p1, p2}

\* 0.9.0, a local build of it, two nightlies of one day after it, 0.10.0-rc.2 and -rc.10, a
\* nightly of 0.10.0 before its tag, 0.10.0 and a nightly after that.
Version(nums, pre, meta) == [word |-> "", nums |-> nums, pre |-> pre, meta |-> meta]
Word(word) == [word |-> word, nums |-> <<0, 0, 0>>, pre |-> <<>>, meta |-> <<>>]
Built(version, from) == [version |-> version, channel |-> from]

MCPublished == <<Built(Version(<<0, 9, 0>>, <<>>, <<>>), "stable"),
                 Built(Version(<<0, 9, 0>>, <<>>, <<0, 0>>), "other"),
                 Built(Version(<<0, 9, 0>>, <<>>, <<1, 1>>), "nightly"),
                 Built(Version(<<0, 9, 0>>, <<>>, <<1, 2>>), "nightly"),
                 Built(Version(<<0, 10, 0>>, <<<<1, 1>>, <<0, 2>>>>, <<>>), "other"),
                 Built(Version(<<0, 10, 0>>, <<<<1, 1>>, <<0, 10>>>>, <<>>), "other"),
                 Built(Version(<<0, 10, 0>>, <<>>, <<2, 1>>), "nightly"),
                 Built(Version(<<0, 10, 0>>, <<>>, <<>>), "stable"),
                 Built(Version(<<0, 10, 0>>, <<>>, <<3, 1>>), "nightly")>>
MCOdd == {Word("dev"), Word("?")}

updating == <<out, channel, current, binary, recorded, offer, running, lastState, unit, bundle>>
polling == <<now, cachedAt, cachedOK, page, forced, asked, failed, refreshes>>
allVars == <<part, vars, updating, polling>>

\* Names, cookies, account handlers and pages are interchangeable.
MCSymmetry == Permutations({n1, n2}) \cup Permutations({k1, k2}) \cup Permutations({h1, h2})
                \cup Permutations({p1, p2})

InitOfAll ==
    /\ part \in {"accounts", "update", "check"}
    /\ Init /\ U!Init /\ C!Init
    /\ part # "update" => out = 1 /\ channel = "stable" /\ recorded = Version(<<0, 9, 0>>, <<>>, <<>>)

NextOfAll ==
    /\ UNCHANGED part
    /\ \/ part = "accounts" /\ Next /\ UNCHANGED <<updating, polling>>
       \/ part = "update" /\ U!Next /\ UNCHANGED <<vars, polling>>
       \/ part = "check" /\ (C!Next \/ UNCHANGED polling)  \* time ends at its bound
          /\ UNCHANGED <<vars, updating>>

SpecOfAll == InitOfAll /\ [][NextOfAll]_allVars
=============================================================================
