---------------------------- MODULE SingleFlight ----------------------------
(***************************************************************************)
(* What resolveGroup promises to the handlers that use it (serve.go:118):  *)
(* for each key at most one caller is inside, a caller that waits may      *)
(* leave at any time without disturbing the others, and a key is taken     *)
(* only by a caller that still waits for it.                               *)
(***************************************************************************)
CONSTANTS Calls, Keys, Nobody, NoKey

VARIABLES
    holder,   \* for each key the call that is inside, or Nobody
    asking    \* for each call the key it waits for, or NoKey

vars == <<holder, asking>>

Init ==
    /\ holder = [k \in Keys |-> Nobody]
    /\ asking = [c \in Calls |-> NoKey]

Ask(c, k) ==
    /\ asking[c] = NoKey
    /\ \A l \in Keys : holder[l] # c
    /\ asking' = [asking EXCEPT ![c] = k]
    /\ UNCHANGED holder

Take(c) ==
    /\ asking[c] # NoKey
    /\ holder[asking[c]] = Nobody
    /\ holder' = [holder EXCEPT ![asking[c]] = c]
    /\ asking' = [asking EXCEPT ![c] = NoKey]

Leave(c) ==
    /\ asking[c] # NoKey
    /\ asking' = [asking EXCEPT ![c] = NoKey]
    /\ UNCHANGED holder

Done(c, k) ==
    /\ holder[k] = c
    /\ holder' = [holder EXCEPT ![k] = Nobody]
    /\ UNCHANGED asking

Next ==
    \E c \in Calls :
        \/ Take(c) \/ Leave(c)
        \/ \E k \in Keys : Ask(c, k) \/ Done(c, k)

Spec == Init /\ [][Next]_vars
=============================================================================
