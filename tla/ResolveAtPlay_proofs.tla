------------------------ MODULE ResolveAtPlay_proofs ------------------------
(***************************************************************************)
(* Proofs about resolveGroup and its use by /play: the abandoned waiters   *)
(* of lock() are invisible to the handlers (KeepsPromise), and at most one *)
(* request runs the slow path of a title (SingleResolve).                  *)
(*                                                                         *)
(* PlayInv ties each stage of a handler to the stage its call of lock() is *)
(* in, so that a handler in the slow path is inside; ResolveGroup_proofs   *)
(* has what holds of lock() by itself.                                     *)
(***************************************************************************)
EXTENDS ResolveAtPlay, ResolveGroup_proofs

Agrees(c) ==
    /\ ~Playing(c, "idle") => play[c].key \in Keys
    /\ play[c].at \in {"fast", "missed"} => At(c, "out")
    /\ Playing(c, "slow") => call[c].at \in {"waiting", "granted"}
    /\ play[c].at \in {"retry", "resolve"} => At(c, "inside")
    /\ Playing(c, "stream") => call[c].at \in {"out", "inside"}
    /\ Playing(c, "idle") => call[c].at \in {"out", "deserted", "orphaned"}
    /\ play[c].at \in {"slow", "retry", "resolve"} => call[c].key = play[c].key

PlayInv == \A c \in Calls : Agrees(c)

IInv == TypeOK /\ GroupInv /\ PlayInv

-----------------------------------------------------------------------------
(* /play, which uses it *)

\* What /play does to resolveGroup, resolveGroup allows.
LEMMA PlayUsesGroup == IInv /\ [Next]_vars => [GroupNext]_groupVars
<1> SUFFICES ASSUME IInv, [Next]_vars PROVE GroupNext \/ UNCHANGED groupVars
  OBVIOUS
<1> USE DEF GroupNext, groupVars
<1>1. CASE UNCHANGED vars
  BY <1>1 DEF vars
<1>2. ASSUME NEW c \in Calls, Handle(c) PROVE GroupNext \/ UNCHANGED groupVars
  <2>1. CASE \E k \in Keys : Request(c, k)
    BY <2>1 DEF Request
  <2>2. CASE FastHit(c) \/ FastMiss(c) \/ TurnedAway(c) \/ RetryHit(c) \/ RetryMiss(c) \/ Resolved(c)
    BY <2>2 DEF FastHit, FastMiss, TurnedAway, RetryHit, RetryMiss, Resolved
  <2>3. CASE Queue(c)
    <3>1. play[c].key \in Keys
      BY <2>3 DEF Queue, Playing, IInv, PlayInv, Agrees
    <3>2. QED
      BY <2>3, <3>1 DEF Queue
  <2>4. CASE WaitOver(c) \/ Admitted(c)
    BY <2>4 DEF WaitOver, Admitted
  <2>5. CASE ResolveFailed(c) \/ StreamEnds(c)
    BY <2>5 DEF ResolveFailed, StreamEnds
  <2>6. QED
    BY <1>2, <2>1, <2>2, <2>3, <2>4, <2>5 DEF Handle
<1>3. ASSUME NEW c \in Calls, Goroutine(c) PROVE GroupNext \/ UNCHANGED groupVars
  BY <1>3 DEF Goroutine
<1>4. ASSUME NEW k \in Keys, CooldownExpires(k) \/ \E r \in Cached : LibraryChanges(k, r)
      PROVE  GroupNext \/ UNCHANGED groupVars
  BY <1>4 DEF CooldownExpires, LibraryChanges
<1>5. QED
  BY <1>1, <1>2, <1>3, <1>4 DEF Next

LEMMA Start == Init => IInv
<1> SUFFICES ASSUME Init PROVE IInv
  OBVIOUS
<1>1. GroupInv
  BY GroupStart DEF Init
<1>2. QED
  BY <1>1, ResolveGroupAssumption
     DEF Init, GroupInit, IInv, TypeOK, GroupInv, PlayInv, Agrees, Idle, Out, Playing, At, Steps, Cached

\* A handler's step changes only its own slot, and moves it and its call of
\* lock() together.
LEMMA HandleStep ==
    ASSUME IInv, NEW c \in Calls, Handle(c) PROVE TypeOK' /\ PlayInv'
<1> DEFINE Slot == [at: Steps, key: Keys \cup {NoKey}, copy: Cached, fresh: Cached]
           Typed == item' \in [Keys -> Cached] /\ cooldown' \subseteq Keys /\ play' \in [Calls -> Slot]
           Others == \A d \in Calls \ {c} : play'[d] = play[d] /\ call'[d] = call[d]
           Kept == Typed /\ Others /\ Agrees(c)'
<1>1. GroupTypeOK'
  <2>1. Next
    BY DEF Next
  <2>2. QED
    BY <2>1, PlayUsesGroup, GroupStep DEF IInv, GroupInv
<1>2. /\ item \in [Keys -> Cached] /\ cooldown \subseteq Keys /\ play \in [Calls -> Slot]
      /\ GroupTypeOK
      /\ Agrees(c)
  BY DEF IInv, TypeOK, PlayInv
<1>3. play[c] \in Slot /\ call[c] \in [at: Stages, key: Keys \cup {NoKey}]
  BY <1>2 DEF GroupTypeOK
<1> USE DEF Cached, Playing, At, Move, Stream, End, Idle, GoTo, Out
<1>4. ASSUME FastHit(c) PROVE Kept
  <2>1. Typed
    BY <1>2, <1>3, <1>4 DEF FastHit, TryCached, Steps
  <2>2. Others
    BY <1>2, <1>4 DEF FastHit, TryCached, GroupTypeOK
  <2>3. Agrees(c)'
    BY <1>1, <1>2, <1>3, <1>4, <2>1, ResolveGroupAssumption DEF FastHit, TryCached, GroupTypeOK, Agrees, Steps, Stages
  <2>4. QED
    BY <2>1, <2>2, <2>3
<1>5. ASSUME FastMiss(c) PROVE Kept
  <2>1. Typed
    BY <1>2, <1>3, <1>5 DEF FastMiss, Steps
  <2>2. Others
    BY <1>2, <1>5 DEF FastMiss, GroupTypeOK
  <2>3. Agrees(c)'
    BY <1>1, <1>2, <1>3, <1>5, <2>1, ResolveGroupAssumption DEF FastMiss, GroupTypeOK, Agrees, Steps, Stages
  <2>4. QED
    BY <2>1, <2>2, <2>3
<1>6. ASSUME TurnedAway(c) PROVE Kept
  <2>1. Typed
    BY <1>2, <1>3, <1>6 DEF TurnedAway, Steps
  <2>2. Others
    BY <1>2, <1>6 DEF TurnedAway, GroupTypeOK
  <2>3. Agrees(c)'
    BY <1>1, <1>2, <1>3, <1>6, <2>1, ResolveGroupAssumption DEF TurnedAway, GroupTypeOK, Agrees, Steps, Stages
  <2>4. QED
    BY <2>1, <2>2, <2>3
<1>7. ASSUME Queue(c) PROVE Kept
  <2>1. Typed
    BY <1>2, <1>3, <1>7 DEF Queue, Lock, Steps
  <2>2. Others
    BY <1>2, <1>7 DEF Queue, Lock, GroupTypeOK
  <2>3. Agrees(c)'
    BY <1>1, <1>2, <1>3, <1>7, <2>1, ResolveGroupAssumption DEF Queue, Lock, GroupTypeOK, Agrees, Steps, Stages
  <2>4. QED
    BY <2>1, <2>2, <2>3
<1>8. ASSUME WaitOver(c) PROVE Kept
  <2>1. Typed
    BY <1>2, <1>3, <1>8 DEF WaitOver, GiveUp, Steps
  <2>2. Others
    BY <1>2, <1>8 DEF WaitOver, GiveUp, GroupTypeOK
  <2>3. Agrees(c)'
    BY <1>1, <1>2, <1>3, <1>8, <2>1, ResolveGroupAssumption DEF WaitOver, GiveUp, GroupTypeOK, Agrees, Steps, Stages
  <2>4. QED
    BY <2>1, <2>2, <2>3
<1>9. ASSUME Admitted(c) PROVE Kept
  <2> DEFINE Again == [play[c] EXCEPT !.at = "retry", !.fresh = item[play[c].key]]
             On == [play[c] EXCEPT !.at = "resolve"]
  <2>1. /\ play' = [play EXCEPT ![c] = Again] \/ play' = [play EXCEPT ![c] = On]
        /\ UNCHANGED <<item, cooldown>>
    BY <1>9 DEF Admitted
  <2>2. Again \in Slot /\ On \in Slot /\ Again.key = play[c].key /\ On.key = play[c].key
    BY <1>2, <1>3, <1>9 DEF Admitted, Agrees, Steps
  <2>3. Typed
    BY <1>2, <2>1, <2>2
  <2>4. Others
    BY <1>2, <1>9, <2>1 DEF Admitted, Enter, GroupTypeOK
  <2>5. call'[c].at = "inside" /\ call'[c].key = call[c].key
    BY <1>2, <1>3, <1>9 DEF Admitted, Enter, GroupTypeOK
  <2>6. play'[c].at \in {"retry", "resolve"} /\ play'[c].key = play[c].key
    BY <1>2, <1>3, <2>1
  <2>7. play[c].key \in Keys /\ call[c].key = play[c].key
    BY <1>2, <1>9 DEF Admitted, Agrees
  <2>8. Agrees(c)'
    BY <2>5, <2>6, <2>7 DEF Agrees
  <2>9. QED
    BY <2>3, <2>4, <2>8
<1>10. ASSUME RetryHit(c) PROVE Kept
  <2>1. Typed
    BY <1>2, <1>3, <1>10 DEF RetryHit, TryCached, Steps
  <2>2. Others
    BY <1>2, <1>10 DEF RetryHit, TryCached, GroupTypeOK
  <2>3. Agrees(c)'
    BY <1>1, <1>2, <1>3, <1>10, <2>1, ResolveGroupAssumption DEF RetryHit, TryCached, GroupTypeOK, Agrees, Steps, Stages
  <2>4. QED
    BY <2>1, <2>2, <2>3
<1>11. ASSUME RetryMiss(c) PROVE Kept
  <2>1. Typed
    BY <1>2, <1>3, <1>11 DEF RetryMiss, Steps
  <2>2. Others
    BY <1>2, <1>11 DEF RetryMiss, GroupTypeOK
  <2>3. Agrees(c)'
    BY <1>1, <1>2, <1>3, <1>11, <2>1, ResolveGroupAssumption DEF RetryMiss, GroupTypeOK, Agrees, Steps, Stages
  <2>4. QED
    BY <2>1, <2>2, <2>3
<1>12. ASSUME Resolved(c) PROVE Kept
  <2>1. Typed
    BY <1>2, <1>3, <1>12 DEF Resolved, Steps
  <2>2. Others
    BY <1>2, <1>12 DEF Resolved, GroupTypeOK
  <2>3. Agrees(c)'
    BY <1>1, <1>2, <1>3, <1>12, <2>1, ResolveGroupAssumption DEF Resolved, GroupTypeOK, Agrees, Steps, Stages
  <2>4. QED
    BY <2>1, <2>2, <2>3
<1>13. ASSUME ResolveFailed(c) PROVE Kept
  <2>1. Typed
    BY <1>2, <1>3, <1>13 DEF ResolveFailed, Release, Steps, Agrees
  <2>2. Others
    BY <1>2, <1>13 DEF ResolveFailed, Release, GroupTypeOK
  <2>3. Agrees(c)'
    BY <1>1, <1>2, <1>3, <1>13, <2>1, ResolveGroupAssumption DEF ResolveFailed, Release, GroupTypeOK, Agrees, Steps, Stages
  <2>4. QED
    BY <2>1, <2>2, <2>3
<1>14. ASSUME StreamEnds(c) PROVE Kept
  <2>1. Typed
    BY <1>2, <1>3, <1>14 DEF StreamEnds, Release, Steps
  <2>2. Others
    BY <1>2, <1>14 DEF StreamEnds, Release, GroupTypeOK
  <2>3. Agrees(c)'
    BY <1>1, <1>2, <1>3, <1>14, <2>1, ResolveGroupAssumption DEF StreamEnds, Release, GroupTypeOK, Agrees, Steps, Stages
  <2>4. QED
    BY <2>1, <2>2, <2>3
<1>15. ASSUME NEW k \in Keys, Request(c, k) PROVE Kept
  BY <1>2, <1>3, <1>15 DEF Request, GroupTypeOK, Agrees, Steps, Stages
<1>16. Kept
  BY <1>4, <1>5, <1>6, <1>7, <1>8, <1>9, <1>10, <1>11, <1>12, <1>13, <1>14, <1>15 DEF Handle
<1>17. ASSUME NEW d \in Calls \ {c} PROVE Agrees(d)'
  BY <1>16, <1>17 DEF IInv, PlayInv, Agrees
<1>18. QED
  BY <1>1, <1>16, <1>17 DEF TypeOK, PlayInv

LEMMA Step == IInv /\ [Next]_vars => IInv'
<1> SUFFICES ASSUME IInv, [Next]_vars PROVE IInv'
  OBVIOUS
<1>1. GroupInv'
  BY PlayUsesGroup, GroupStep DEF IInv
<1>2. TypeOK' /\ PlayInv'
  <2>1. CASE UNCHANGED vars
    BY <2>1 DEF vars, IInv, TypeOK, GroupTypeOK, PlayInv, Agrees, Playing, At, Cached
  <2>2. ASSUME NEW c \in Calls, Handle(c) PROVE TypeOK' /\ PlayInv'
    BY <2>2, HandleStep
  <2>3. ASSUME NEW c \in Calls, Goroutine(c) PROVE TypeOK' /\ PlayInv'
    BY <2>3, <1>1, ResolveGroupAssumption
       DEF Goroutine, Grant, HandBack, GoTo, At, Out, Playing, Stages, IInv, TypeOK, PlayInv, Agrees,
           GroupInv, GroupTypeOK, Cached
  <2>4. ASSUME NEW k \in Keys, CooldownExpires(k) \/ \E r \in Cached : LibraryChanges(k, r)
        PROVE  TypeOK' /\ PlayInv'
    BY <2>4 DEF CooldownExpires, LibraryChanges, IInv, TypeOK, PlayInv, Agrees, GroupTypeOK, Playing, At,
                Cached
  <2>5. QED
    BY <2>1, <2>2, <2>3, <2>4 DEF Next
<1>3. QED
  BY <1>1, <1>2 DEF IInv

\* Every stage of a handler agrees with the stage of its call of lock(), and
\* whoever came past mu.Lock() owns the mutex: the inductive invariant.
THEOREM Invariance == Spec => []IInv
BY Start, Step, PTL DEF Spec

\* Each variable keeps its type (ResolveAtPlay!TypeOK).
THEOREM Typing == Spec => []TypeOK
<1>1. IInv => TypeOK
  BY DEF IInv
<1>2. QED
  BY Invariance, <1>1, PTL

\* At most one request at a time runs the slow path of a title, however many
\* requests wait, give up or are served meanwhile (serve.go:118-127).
THEOREM OneAttempt == Spec => []SingleResolve
<1>1. IInv => SingleResolve
  BY DEF IInv, PlayInv, Agrees, GroupInv, SingleResolve, Has, At
<1>2. QED
  BY Invariance, <1>1, PTL

\* To the handlers, lock() with its goroutines and abandoned waiters is a
\* single-flight group: every step is one of SingleFlight or a stutter.
THEOREM Refinement == Spec => KeepsPromise
<1>1. Init => Promise!Init
  BY ResolveGroupAssumption
     DEF Init, GroupInit, Promise!Init, Holder, Inside, Asking, At, Out
<1>2. IInv /\ IInv' /\ [Next]_vars => [Promise!Next]_(Promise!vars)
  BY PlayUsesGroup, GroupRefines DEF IInv
<1>3. QED
  BY <1>1, <1>2, Invariance, PTL DEF Spec, KeepsPromise, Promise!Spec
=============================================================================
