----------------------------- MODULE MCLibrary -----------------------------
(* Model values for the runs of Library, and the identities of a behaviour. *)
EXTENDS Library, FiniteSets, TLC

CONSTANTS q1, q2, t, i, w, h1, h2

VARIABLE part  \* the two identities that dispute the paths

MCPaths == {q1, q2}
MCTitle == {t}
MCItem == {i}
MCTwoItems == {i, w}
MCLink == {w}
MCNobody == {}
MCOneHandler == {h1}
MCTwoHandlers == {h1, h2}
MCSymmetry == Permutations(MCPaths) \cup Permutations(MCTwoHandlers)

InitOfAll == Init /\ part \in {two \in SUBSET Ids : Cardinality(two) = 2}

NextOfAll ==
    /\ Next /\ UNCHANGED part
    /\ \A h \in Handlers : run'[h].id \in part \cup {none}

SpecOfAll == InitOfAll /\ [][NextOfAll]_<<part, vars>>
=============================================================================
