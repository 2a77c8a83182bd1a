------------------------- MODULE ResolveGroup_proofs -------------------------
(***************************************************************************)
(* Lemmas about resolveGroup for whoever uses it: GroupInv, that whoever   *)
(* has come past mu.Lock() is the one the mutex belongs to, is inductive,  *)
(* and from it every step of the group is one of SingleFlight or a stutter *)
(* the handlers do not see.                                                *)
(***************************************************************************)
EXTENDS ResolveGroup, TLAPS

Has(c) == call[c].at \in {"granted", "inside", "orphaned"}

GroupInv ==
    /\ GroupTypeOK
    /\ \A c \in Calls : ~At(c, "out") => call[c].key \in Keys
    /\ \A c \in Calls : Has(c) => mutex[call[c].key] = c

\* All mutexes start free and nobody has called lock().
LEMMA GroupStart == GroupInit => GroupInv
BY ResolveGroupAssumption DEF GroupInit, GroupInv, GroupTypeOK, Out, Stages, At, Has

\* A step of resolveGroup keeps its invariant: the mutex of a key changes
\* hands only when it is free, or when its owner lets go of it.
LEMMA GroupStep == GroupInv /\ [GroupNext]_groupVars => GroupInv'
<1> SUFFICES ASSUME GroupInv, [GroupNext]_groupVars PROVE GroupInv'
  OBVIOUS
<1> USE ResolveGroupAssumption DEF GroupInv, GroupTypeOK, Stages, At, Has, GoTo
<1>1. CASE UNCHANGED groupVars
  BY <1>1 DEF groupVars
<1>2. ASSUME NEW c \in Calls, NEW k \in Keys, Lock(c, k) PROVE GroupInv'
  BY <1>2 DEF Lock
<1>3. ASSUME NEW c \in Calls, Grant(c) PROVE GroupInv'
  BY <1>3 DEF Grant
<1>4. ASSUME NEW c \in Calls, Enter(c) PROVE GroupInv'
  BY <1>4 DEF Enter
<1>5. ASSUME NEW c \in Calls, GiveUp(c) PROVE GroupInv'
  BY <1>5 DEF GiveUp
<1>6. ASSUME NEW c \in Calls, HandBack(c) PROVE GroupInv'
  BY <1>6 DEF HandBack, Out
<1>7. ASSUME NEW c \in Calls, Release(c) PROVE GroupInv'
  BY <1>7 DEF Release, Out
<1>8. QED
  BY <1>1, <1>2, <1>3, <1>4, <1>5, <1>6, <1>7 DEF GroupNext

\* The call the handlers see holding a key is the one that is inside for it.
LEMMA HolderIsInside ==
    GroupInv => /\ Holder \in [Keys -> Calls \cup {Nobody}]
                /\ \A k \in Keys, c \in Calls :
                       Holder[k] = c <=> At(c, "inside") /\ call[c].key = k
<1> SUFFICES ASSUME GroupInv, NEW k \in Keys
             PROVE /\ Holder[k] \in Calls \cup {Nobody}
                   /\ \A c \in Calls : Holder[k] = c <=> At(c, "inside") /\ call[c].key = k
  BY DEF Holder
<1>1. \A c, d \in Inside(k) : c = d
  BY DEF Inside, GroupInv, Has, At
<1>2. CASE Inside(k) = {}
  BY <1>2, ResolveGroupAssumption DEF Holder, Inside
<1>3. CASE Inside(k) # {}
  <2>1. Holder[k] \in Inside(k)
    BY <1>3 DEF Holder
  <2>2. QED
    BY <2>1, <1>1 DEF Inside
<1>4. QED
  BY <1>2, <1>3

\* Every step of resolveGroup is a step of SingleFlight or none that the
\* handlers see: grants and hand-backs stutter.
LEMMA GroupRefines ==
    GroupInv /\ GroupInv' /\ [GroupNext]_groupVars => [Promise!Next]_(Promise!vars)
<1> SUFFICES ASSUME GroupInv, GroupInv', [GroupNext]_groupVars
             PROVE  Promise!Next \/ (Holder' = Holder /\ Asking' = Asking)
  BY DEF Promise!vars
<1>1. /\ Holder \in [Keys -> Calls \cup {Nobody}]
      /\ \A k \in Keys, c \in Calls :
             Holder[k] = c <=> At(c, "inside") /\ call[c].key = k
  BY HolderIsInside
<1>2. /\ Holder' \in [Keys -> Calls \cup {Nobody}]
      /\ \A k \in Keys, c \in Calls :
             Holder'[k] = c <=> At(c, "inside")' /\ call'[c].key = k
  <2>1. GroupInv' => (/\ Holder \in [Keys -> Calls \cup {Nobody}]
                      /\ \A k \in Keys, c \in Calls :
                             Holder[k] = c <=> At(c, "inside") /\ call[c].key = k)'
    BY HolderIsInside, PTL
  <2>2. QED
    BY <2>1 DEF At
<1> DEFINE Unseen == \A d \in Calls : At(d, "inside")' = At(d, "inside") /\
                        (At(d, "inside") => call'[d].key = call[d].key)
<1>3. ASSUME Unseen PROVE Holder' = Holder
  <2>1. ASSUME NEW k \in Keys PROVE Holder'[k] = Holder[k]
    <3>1. \A c \in Calls : Holder'[k] = c <=> Holder[k] = c
      BY <1>1, <1>2, <1>3 DEF At
    <3>2. QED
      BY <1>1, <1>2, <3>1
  <2>2. QED
    BY <2>1, <1>1, <1>2
<1> USE ResolveGroupAssumption DEF GroupInv, GroupTypeOK, Stages, At, Has, GoTo
<1>4. CASE UNCHANGED groupVars
  BY <1>4 DEF groupVars, Holder, Inside, Asking
<1>5. ASSUME NEW c \in Calls, NEW k \in Keys, Lock(c, k) PROVE Promise!Ask(c, k)
  <2>1. Holder' = Holder
    BY <1>3, <1>5 DEF Lock
  <2>2. Asking' = [Asking EXCEPT ![c] = k] /\ Asking[c] = NoKey
    <3>1. \A d \in Calls : Asking'[d] = IF d = c THEN k ELSE Asking[d]
      BY <1>5 DEF Lock, Asking
    <3>2. Asking[c] = NoKey
      BY <1>5 DEF Lock, Asking
    <3>3. QED
      BY <3>1, <3>2 DEF Asking
  <2>3. \A l \in Keys : Holder[l] # c
    BY <1>1, <1>5 DEF Lock
  <2>4. QED
    BY <2>1, <2>2, <2>3 DEF Promise!Ask
<1>6. ASSUME NEW c \in Calls, Grant(c) PROVE Holder' = Holder /\ Asking' = Asking
  BY <1>3, <1>6 DEF Grant, Asking
<1>7. ASSUME NEW c \in Calls, Enter(c) PROVE Promise!Take(c)
  <2> DEFINE k == call[c].key
  <2>1. k \in Keys /\ mutex[k] = c /\ Asking[c] = k
    BY <1>7 DEF Enter, Asking
  <2>2. Holder[k] = Nobody
    BY <1>1, <1>7, <2>1 DEF Enter
  <2>3. Asking' = [Asking EXCEPT ![c] = NoKey]
    <3>1. \A d \in Calls : Asking'[d] = IF d = c THEN NoKey ELSE Asking[d]
      BY <1>7 DEF Enter, Asking
    <3>2. QED
      BY <3>1 DEF Asking
  <2>4. \A l \in Keys : Holder'[l] = IF l = k THEN c ELSE Holder[l]
    <3> SUFFICES ASSUME NEW l \in Keys PROVE Holder'[l] = IF l = k THEN c ELSE Holder[l]
      OBVIOUS
    <3>1. \A d \in Calls : At(d, "inside")' /\ call'[d].key = l <=>
              (d = c /\ l = k) \/ (At(d, "inside") /\ call[d].key = l)
      BY <1>7 DEF Enter
    <3>2. CASE l = k
      BY <3>1, <3>2, <1>2, <2>1
    <3>3. CASE l # k
      BY <3>1, <3>3, <1>1, <1>2
    <3>4. QED
      BY <3>2, <3>3
  <2>5. Holder' = [Holder EXCEPT ![k] = c]
    BY <2>4, <1>1, <1>2
  <2>6. QED
    BY <2>1, <2>2, <2>3, <2>5 DEF Promise!Take
<1>8. ASSUME NEW c \in Calls, GiveUp(c) PROVE Promise!Leave(c)
  <2>1. Holder' = Holder
    BY <1>3, <1>8 DEF GiveUp
  <2>2. Asking' = [Asking EXCEPT ![c] = NoKey] /\ Asking[c] # NoKey
    <3>1. \A d \in Calls : Asking'[d] = IF d = c THEN NoKey ELSE Asking[d]
      BY <1>8 DEF GiveUp, Asking
    <3>2. Asking[c] # NoKey
      BY <1>8 DEF GiveUp, Asking
    <3>3. QED
      BY <3>1, <3>2 DEF Asking
  <2>3. QED
    BY <2>1, <2>2 DEF Promise!Leave
<1>9. ASSUME NEW c \in Calls, HandBack(c) PROVE Holder' = Holder /\ Asking' = Asking
  BY <1>3, <1>9 DEF HandBack, Asking, Out
<1>10. ASSUME NEW c \in Calls, Release(c)
       PROVE  \E k \in Keys : Promise!Done(c, k)
  <2> DEFINE k == call[c].key
  <2>1. k \in Keys /\ Holder[k] = c
    BY <1>1, <1>10 DEF Release
  <2>2. Asking' = Asking
    BY <1>10 DEF Release, Asking, Out
  <2>3. \A l \in Keys : Holder'[l] = IF l = k THEN Nobody ELSE Holder[l]
    <3> SUFFICES ASSUME NEW l \in Keys PROVE Holder'[l] = IF l = k THEN Nobody ELSE Holder[l]
      OBVIOUS
    <3>1. \A d \in Calls : At(d, "inside")' /\ call'[d].key = l <=>
              d # c /\ At(d, "inside") /\ call[d].key = l
      BY <1>10 DEF Release, Out
    <3>2. CASE l = k
      <4>1. \A d \in Calls : Holder'[k] # d
        BY <3>1, <3>2, <1>2, <1>10 DEF Release
      <4>2. QED
        BY <4>1, <3>2, <1>2
    <3>3. CASE l # k
      <4>1. \A d \in Calls : Holder'[l] = d <=> Holder[l] = d
        BY <3>1, <3>3, <1>1, <1>2, <1>10 DEF Release
      <4>2. QED
        BY <4>1, <3>3, <1>1, <1>2
    <3>4. QED
      BY <3>2, <3>3
  <2>4. Holder' = [Holder EXCEPT ![k] = Nobody]
    BY <2>3, <1>1, <1>2
  <2>5. QED
    BY <2>1, <2>2, <2>4 DEF Promise!Done
<1>11. QED
  BY <1>4, <1>5, <1>6, <1>7, <1>8, <1>9, <1>10 DEF GroupNext, Promise!Next
=============================================================================
