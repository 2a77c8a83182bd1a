--------------------------- MODULE WebPlay_proofs ---------------------------
(***************************************************************************)
(* Proofs about web sources at play time: at most one request resolves a   *)
(* link (OneResolve); none that is not forced extracts a link in cooldown  *)
(* (FailureIsServedBack); the budget is kept and loses no slot; a removed  *)
(* link is not brought back by a resolve.                                  *)
(*                                                                         *)
(* PlayInv ties each stage of a request to the stage its call of lock() is *)
(* in.  A request in a resolve is inside, GroupInv makes it the only one   *)
(* for its link, and only such a request starts a cooldown: so what it has *)
(* read of the cooldown stays true until it writes it itself.              *)
(***************************************************************************)
EXTENDS WebPlay, ResolveGroup_proofs, FiniteSetTheorems

Agrees(c) ==
    /\ ~Playing(c, "idle") => play[c].key \in Keys
    /\ play[c].at \in {"look", "fetch", "stream"} => At(c, "out")
    /\ Playing(c, "queue") => call[c].at \in {"waiting", "granted"}
    /\ Resolving(c) => At(c, "inside")
    /\ Playing(c, "idle") => call[c].at \in {"out", "deserted", "orphaned"}
    /\ Playing(c, "queue") \/ Resolving(c) => call[c].key = play[c].key

PlayInv == \A c \in Calls : Agrees(c)
AdminInv == \A a \in Admins : ~Acting(a, "idle") /\ ~Acting(a, "version") => admin[a].key \in Keys

\* The slots in use are those of the extractions that run.
SlotsHeld ==
    /\ Cardinality(extracting) <= Slots
    /\ extracting = {c \in Calls : Playing(c, "extract")} \cup {a \in Admins : Acting(a, "extract")}

IInv ==
    /\ TypeOK /\ GroupInv /\ PlayInv /\ AdminInv
    /\ FailureIsServedBack
    /\ IsFiniteSet(extracting) /\ SlotsHeld

\* Two requests that resolve one link are one: both are inside for its key.
LEMMA OneInsideALink == TypeOK /\ GroupInv /\ PlayInv => OneResolve
BY DEF GroupInv, PlayInv, Agrees, OneResolve, Has, At

\* What web sources do to resolveGroup, resolveGroup allows.
LEMMA WebUsesGroup == IInv /\ [Next]_vars => [GroupNext]_groupVars
<1> SUFFICES ASSUME IInv, [Next]_vars PROVE GroupNext \/ UNCHANGED groupVars
  OBVIOUS
<1> USE DEF GroupNext, groupVars
<1>1. CASE UNCHANGED vars
  BY <1>1 DEF vars
<1>2. ASSUME NEW c \in Calls, Handle(c) PROVE GroupNext \/ UNCHANGED groupVars
  <2>1. CASE \E k \in Keys : Request(c, k)
    BY <2>1 DEF Request
  <2>2. CASE CacheHit(c) \/ CacheMissAgain(c) \/ NotBlocked(c) \/ TakeSlot(c) \/ SlotCanceled(c)
    BY <2>2 DEF CacheHit, CacheMissAgain, NotBlocked, TakeSlot, SlotCanceled
  <2>3. CASE ExtractEnds(c) \/ MarkOK(c) \/ Fetched(c) \/ Refused(c) \/ PlayEnds(c)
    BY <2>3 DEF ExtractEnds, MarkOK, Fetched, Refused, PlayEnds
  <2>4. CASE Queue(c)
    <3>1. play[c].key \in Keys
      BY <2>4 DEF Queue, Playing, IInv, PlayInv, Agrees
    <3>2. QED
      BY <2>4, <3>1 DEF Queue
  <2>5. CASE WaitOver(c) \/ Admitted(c)
    BY <2>5 DEF WaitOver, Admitted
  <2>6. CASE CacheHitAgain(c) \/ Blocked(c) \/ Keep(c) \/ ResolveFailed(c)
    BY <2>6 DEF CacheHitAgain, Blocked, Keep, ResolveFailed
  <2>7. QED
    BY <1>2, <2>1, <2>2, <2>3, <2>4, <2>5, <2>6 DEF Handle
<1>3. ASSUME NEW c \in Calls, Goroutine(c) PROVE GroupNext \/ UNCHANGED groupVars
  BY <1>3 DEF Goroutine
<1>4. ASSUME NEW a \in Admins, Administer(a) PROVE GroupNext \/ UNCHANGED groupVars
  BY <1>4 DEF Administer, Paste, Remove, Status, Version, AdminTakesSlot, AdminGivesUp, AdminExtracts, AddLink,
              DeleteLink, Invalidate
<1>5. ASSUME NEW k \in Keys, Expire(k) PROVE GroupNext \/ UNCHANGED groupVars
  BY <1>5 DEF Expire
<1>6. QED
  BY <1>1, <1>2, <1>3, <1>4, <1>5 DEF Next

\* Nothing is under way at the start.
LEMMA Start == Init => IInv
<1> SUFFICES ASSUME Init PROVE IInv
  OBVIOUS
<1>1. GroupInv
  BY GroupStart DEF Init
<1>2. TypeOK /\ PlayInv /\ AdminInv /\ FailureIsServedBack
  BY <1>1, ResolveGroupAssumption
     DEF Init, GroupInit, TypeOK, GroupInv, PlayInv, Agrees, AdminInv, FailureIsServedBack, Idle,
         Resting, Out, Playing, Acting, Resolving, At, Steps, AdminSteps
<1>3. IsFiniteSet(extracting) /\ Cardinality(extracting) = 0
  BY FS_EmptySet DEF Init
<1>4. SlotsHeld
  BY <1>3, WebPlayAssumption DEF Init, SlotsHeld, Idle, Resting, Playing, Acting
<1>5. QED
  BY <1>1, <1>2, <1>3, <1>4 DEF IInv

-----------------------------------------------------------------------------
(* The stages of requests *)

Slot == [at: Steps, key: Keys \cup {NoKey}, force: BOOLEAN]
Links == [Keys -> {"none", "ok", "failed"}]

\* What a request's own step leaves of everything but the budget.
Kept(c) ==
    /\ source' \in Links /\ cached' \subseteq Keys /\ cooldown' \subseteq Keys
    /\ play' \in [Calls -> Slot] /\ admin' = admin
    /\ \A d \in Calls \ {c} : play'[d] = play[d] /\ call'[d] = call[d]
    /\ Agrees(c)'

\* Each step of a request moves it and its call of lock() together.
LEMMA HandleKeeps == ASSUME IInv, NEW c \in Calls, Handle(c) PROVE Kept(c)
<1>1. GroupTypeOK'
  <2>1. Next
    BY DEF Next
  <2>2. QED
    BY <2>1, WebUsesGroup, GroupStep DEF IInv, GroupInv
<1>2. /\ source \in Links /\ cached \subseteq Keys /\ cooldown \subseteq Keys
      /\ play \in [Calls -> Slot] /\ call \in [Calls -> [at: Stages, key: Keys \cup {NoKey}]]
      /\ Agrees(c)
  BY DEF IInv, TypeOK, GroupTypeOK, PlayInv, Slot, Links
<1>3. play[c] \in Slot /\ call[c] \in [at: Stages, key: Keys \cup {NoKey}]
  BY <1>2
<1> USE DEF Playing, At, Move, End, GoTo
<1>5. ASSUME NEW k \in Keys, Request(c, k) PROVE Kept(c)
  BY <1>2, <1>3, <1>5 DEF Request, Kept, Agrees, Resolving, Slot, Steps
<1>6. ASSUME CacheHit(c) \/ CacheMissAgain(c) \/ NotBlocked(c) \/ TakeSlot(c) \/ SlotCanceled(c)
             \/ Fetched(c) PROVE Kept(c)
  <2>1. PICK at \in Steps : /\ play' = [play EXCEPT ![c] = [@ EXCEPT !.at = at]]
                            /\ UNCHANGED <<call, source, cached, cooldown, admin>>
                            /\ \/ Playing(c, "look") /\ at = "fetch"
                               \/ Playing(c, "fetch") /\ at = "stream"
                               \/ play[c].at \in {"again", "cool", "slot"}
                                  /\ at \in {"cool", "slot", "extract", "canceled"}
    BY <1>6 DEF CacheHit, CacheMissAgain, NotBlocked, TakeSlot, SlotCanceled, Fetched, Steps
  <2>2. play'[c] = [play[c] EXCEPT !.at = at] /\ play'[c] \in Slot
    BY <1>2, <1>3, <2>1 DEF Slot
  <2>3. QED
    BY <1>2, <1>3, <2>1, <2>2 DEF Kept, Agrees, Resolving
<1>7. CASE Queue(c)
  BY <1>2, <1>3, <1>7 DEF Queue, Lock, Kept, Agrees, Resolving, Slot, Steps
<1>8. CASE WaitOver(c)
  BY <1>2, <1>3, <1>8 DEF WaitOver, GiveUp, Idle, Kept, Agrees, Resolving, Slot, Steps
<1>9. CASE Admitted(c)
  BY <1>2, <1>3, <1>9 DEF Admitted, Enter, Kept, Agrees, Resolving, Slot, Steps
<1>10. CASE CacheHitAgain(c)
  BY <1>2, <1>3, <1>10 DEF CacheHitAgain, Release, Out, Kept, Agrees, Resolving, Slot, Steps
<1>11. CASE Blocked(c)
  BY <1>2, <1>3, <1>11 DEF Blocked, Release, Out, Idle, Kept, Agrees, Resolving, Slot, Steps
<1>12. CASE ExtractEnds(c)
  <2>1. PICK at \in {"worked", "failed", "hungup"} : play' = [play EXCEPT ![c] = [@ EXCEPT !.at = at]]
    BY <1>12 DEF ExtractEnds
  <2>2. Playing(c, "extract") /\ cooldown' \subseteq Keys /\ UNCHANGED <<call, source, cached, admin>>
    BY <1>2, <1>12 DEF ExtractEnds
  <2>3. play'[c] = [play[c] EXCEPT !.at = at] /\ play'[c] \in Slot
    BY <1>2, <1>3, <2>1 DEF Slot, Steps
  <2>4. QED
    BY <1>2, <1>3, <2>1, <2>2, <2>3 DEF Kept, Agrees, Resolving
<1>13. CASE MarkOK(c)
  <2>1. source' \in Links
    BY <1>2, <1>13 DEF MarkOK, Marked, Links
  <2>2. QED
    BY <1>2, <1>3, <1>13, <2>1 DEF MarkOK, Kept, Agrees, Resolving, Slot, Steps
<1>14. CASE Keep(c)
  BY <1>2, <1>3, <1>14 DEF Keep, Release, Out, Kept, Agrees, Resolving, Slot, Steps
<1>15. CASE ResolveFailed(c)
  <2>1. source' \in Links /\ cooldown' \subseteq Keys
    BY <1>2, <1>15 DEF ResolveFailed, Marked, Links, Agrees, Resolving
  <2>2. QED
    BY <1>2, <1>3, <1>15, <2>1
       DEF ResolveFailed, Release, Out, Idle, Kept, Agrees, Resolving, Slot, Steps
<1>16. CASE Refused(c)
  BY <1>2, <1>3, <1>16 DEF Refused, Kept, Agrees, Resolving, Slot, Steps
<1>17. CASE PlayEnds(c)
  BY <1>2, <1>3, <1>17 DEF PlayEnds, Idle, Kept, Agrees, Resolving, Slot, Steps
<1>18. QED
  BY <1>5, <1>6, <1>7, <1>8, <1>9, <1>10, <1>11, <1>12, <1>13, <1>14, <1>15, <1>16, <1>17 DEF Handle

\* Of the other calls of lock(), a step of a request changes nothing; of the
\* other requests neither: TypeOK and PlayInv hold after it.
LEMMA HandleTypes ==
    ASSUME IInv, NEW c \in Calls, Handle(c) PROVE (TypeOK /\ GroupInv /\ PlayInv /\ AdminInv)'
<1>1. Kept(c)
  BY HandleKeeps
<1>2. GroupInv'
  <2>1. Next
    BY DEF Next
  <2>2. QED
    BY <2>1, WebUsesGroup, GroupStep DEF IInv
<1>3. extracting' \subseteq Calls \cup Admins
  <2>1. extracting' \subseteq extracting \cup {c}
    BY DEF Handle, Request, CacheHit, Queue, WaitOver, Admitted, CacheHitAgain, CacheMissAgain, NotBlocked,
           Blocked, TakeSlot, SlotCanceled, ExtractEnds, MarkOK, Keep, ResolveFailed, Fetched, Refused,
           PlayEnds
  <2>2. QED
    BY <2>1 DEF IInv, TypeOK
<1>4. TypeOK'
  BY <1>1, <1>2, <1>3 DEF IInv, TypeOK, GroupInv, Kept, Slot, Links
<1>5. PlayInv'
  BY <1>1 DEF IInv, PlayInv, Kept, Agrees, Resolving, Playing, At
<1>6. AdminInv'
  BY <1>1 DEF IInv, AdminInv, Kept, Acting
<1>7. QED
  BY <1>2, <1>4, <1>5, <1>6

\* A request that is to extract its link has found it out of cooldown, and the
\* only one that could have put it there since is itself.
LEMMA HandleCools == ASSUME IInv, NEW c \in Calls, Handle(c) PROVE FailureIsServedBack'
<1> SUFFICES ASSUME NEW d \in Calls, play'[d].at \in {"slot", "extract"}, ~play'[d].force
             PROVE  play'[d].key \notin cooldown'
  BY DEF FailureIsServedBack
<1>1. Kept(c) /\ play \in [Calls -> Slot]
  BY HandleKeeps DEF IInv, TypeOK, Slot
<1>2. cooldown' \subseteq cooldown \/ (ResolveFailed(c) /\ cooldown' \subseteq cooldown \cup {play[c].key})
  BY DEF Handle, Request, CacheHit, Queue, WaitOver, Admitted, CacheHitAgain, CacheMissAgain, NotBlocked,
         Blocked, TakeSlot, SlotCanceled, ExtractEnds, MarkOK, Keep, ResolveFailed, Fetched, Refused,
         PlayEnds
<1>3. CASE d # c
  <2>1. play'[d] = play[d] /\ play[d].key \notin cooldown
    BY <1>1, <1>3 DEF Kept, IInv, FailureIsServedBack
  <2>2. ASSUME ResolveFailed(c) PROVE play[d].key # play[c].key
    <3>1. Resolving(c) /\ Resolving(d)
      BY <2>1, <2>2 DEF ResolveFailed, Resolving
    <3>2. QED
      BY <3>1, <1>3, OneInsideALink DEF IInv, OneResolve
  <2>3. QED
    BY <1>2, <2>1, <2>2
<1>4. CASE d = c
  <2> USE <1>4 DEF Playing, Move, End, Idle
  <2>1. CASE NotBlocked(c)
    BY <2>1, <1>1 DEF NotBlocked, Slot
  <2>2. CASE TakeSlot(c)
    BY <2>2, <1>1 DEF TakeSlot, Slot, IInv, FailureIsServedBack
  <2>3. CASE CacheMissAgain(c)
    BY <2>3, <1>1 DEF CacheMissAgain, Slot
  <2>4. CASE (\E k \in Keys : Request(c, k)) \/ Refused(c)
    <3>1. ASSUME NEW k \in Keys, Request(c, k) PROVE play'[c].at = "look"
      BY <3>1, <1>1 DEF Request, Slot
    <3>2. ASSUME Refused(c) PROVE play'[c].at = "look"
      <4>1. play[c] \in Slot
        BY <1>1
      <4>2. QED
        BY <3>2, <4>1, <1>1 DEF Refused, Slot
    <3>3. QED
      BY <2>4, <3>1, <3>2
  <2>5. CASE CacheHit(c) \/ Queue(c) \/ WaitOver(c) \/ Admitted(c) \/ CacheHitAgain(c) \/ Blocked(c)
    BY <2>5, <1>1 DEF CacheHit, Queue, WaitOver, Admitted, CacheHitAgain, Blocked, Slot
  <2>6. CASE SlotCanceled(c) \/ ExtractEnds(c) \/ MarkOK(c) \/ Keep(c) \/ ResolveFailed(c)
             \/ Fetched(c) \/ PlayEnds(c)
    BY <2>6, <1>1 DEF SlotCanceled, ExtractEnds, MarkOK, Keep, ResolveFailed, Fetched, PlayEnds, Slot
  <2>7. QED
    BY <2>1, <2>2, <2>3, <2>4, <2>5, <2>6 DEF Handle
<1>5. QED
  BY <1>3, <1>4

-----------------------------------------------------------------------------
(* The budget *)

Budget == IsFiniteSet(extracting) /\ SlotsHeld

\* A handler that gets a slot had none, and there was one to have.
LEMMA SlotTaken ==
    ASSUME IInv, NEW x \in Calls \cup Admins, x \notin extracting, HasRoom, extracting' = extracting \cup {x},
           {c \in Calls : Playing(c, "extract")}' \cup {a \in Admins : Acting(a, "extract")}'
               = {c \in Calls : Playing(c, "extract")} \cup {a \in Admins : Acting(a, "extract")} \cup {x}
    PROVE  Budget'
<1>1. IsFiniteSet(extracting') /\ Cardinality(extracting') = Cardinality(extracting) + 1
  BY FS_AddElement DEF IInv
<1>2. Cardinality(extracting) \in Nat /\ Slots \in Nat
  BY FS_CardinalityType, WebPlayAssumption DEF IInv
<1>3. Cardinality(extracting') <= Slots
  BY <1>1, <1>2 DEF HasRoom
<1>4. QED
  BY <1>1, <1>3 DEF IInv, Budget, SlotsHeld

\* A handler that gives its slot back had one.
LEMMA SlotReturned ==
    ASSUME IInv, NEW x, extracting' = extracting \ {x},
           {c \in Calls : Playing(c, "extract")}' \cup {a \in Admins : Acting(a, "extract")}'
               = ({c \in Calls : Playing(c, "extract")} \cup {a \in Admins : Acting(a, "extract")}) \ {x}
    PROVE  Budget'
<1>1. IsFiniteSet(extracting') /\ Cardinality(extracting') <= Cardinality(extracting)
  BY FS_Subset DEF IInv
<1>2. Cardinality(extracting) \in Nat /\ Cardinality(extracting') \in Nat /\ Slots \in Nat
  BY <1>1, FS_CardinalityType, WebPlayAssumption DEF IInv
<1>3. Cardinality(extracting') <= Slots
  BY <1>1, <1>2 DEF IInv, SlotsHeld
<1>4. QED
  BY <1>1, <1>3 DEF IInv, Budget, SlotsHeld

\* A step in which no extraction starts or ends leaves the budget alone.
LEMMA SlotsUntouched ==
    ASSUME IInv, extracting' = extracting,
           \A c \in Calls : Playing(c, "extract")' <=> Playing(c, "extract"),
           \A a \in Admins : Acting(a, "extract")' <=> Acting(a, "extract")
    PROVE  Budget'
BY DEF IInv, Budget, SlotsHeld

\* A request has a slot from TakeSlot to ExtractEnds.
LEMMA HandleSlots == ASSUME IInv, NEW c \in Calls, Handle(c) PROVE Budget'
<1>1. Kept(c) /\ play \in [Calls -> Slot] /\ c \notin Admins
  BY HandleKeeps, WebPlayAssumption DEF IInv, TypeOK, Slot
<1>2. /\ \A d \in Calls \ {c} : Playing(d, "extract")' <=> Playing(d, "extract")
      /\ \A a \in Admins : Acting(a, "extract")' <=> Acting(a, "extract")
  BY <1>1 DEF Kept, Playing, Acting
<1>3. CASE TakeSlot(c)
  <2>1. ~Playing(c, "extract") /\ Playing(c, "extract")' /\ c \notin extracting
    BY <1>1, <1>3 DEF TakeSlot, Playing, Move, Slot, IInv, SlotsHeld
  <2>2. {d \in Calls : Playing(d, "extract")}' = {d \in Calls : Playing(d, "extract")} \cup {c}
    BY <1>2, <2>1
  <2>3. {a \in Admins : Acting(a, "extract")}' = {a \in Admins : Acting(a, "extract")}
    BY <1>2
  <2>4. QED
    BY <1>3, <2>1, <2>2, <2>3, SlotTaken DEF TakeSlot
<1>4. CASE ExtractEnds(c)
  <2>1. Playing(c, "extract") /\ ~Playing(c, "extract")'
    BY <1>1, <1>4 DEF ExtractEnds, Playing, Move, Slot
  <2>2. {d \in Calls : Playing(d, "extract")}' = {d \in Calls : Playing(d, "extract")} \ {c}
    BY <1>2, <2>1
  <2>3. {a \in Admins : Acting(a, "extract")}' = {a \in Admins : Acting(a, "extract")} \ {c}
    BY <1>1, <1>2
  <2>4. QED
    BY <1>4, <2>2, <2>3, SlotReturned DEF ExtractEnds
<1>5. ASSUME extracting' = extracting, ~Playing(c, "extract"), ~Playing(c, "extract")' PROVE Budget'
  BY <1>2, <1>5, SlotsUntouched
<1> USE <1>1 DEF Playing, Move, End, Idle
<1>6. CASE (\E k \in Keys : Request(c, k)) \/ CacheHit(c) \/ Queue(c) \/ WaitOver(c) \/ Admitted(c)
  BY <1>5, <1>6 DEF Request, CacheHit, Queue, WaitOver, Admitted, Slot
<1>7. CASE CacheHitAgain(c) \/ NotBlocked(c) \/ Blocked(c) \/ SlotCanceled(c) \/ MarkOK(c)
  BY <1>5, <1>7 DEF CacheHitAgain, NotBlocked, Blocked, SlotCanceled, MarkOK, Slot
<1>8. CASE Keep(c) \/ ResolveFailed(c) \/ Fetched(c) \/ Refused(c) \/ PlayEnds(c)
  <2>1. extracting' = extracting /\ play[c].at \in {"keep", "failed", "hungup", "canceled", "fetch", "stream"}
    BY <1>8 DEF Keep, ResolveFailed, Fetched, Refused, PlayEnds
  <2>2. play'[c].at \in {"fetch", "idle", "stream", "look"}
    <3>1. play[c] \in Slot
      BY <1>1
    <3>2. CASE Keep(c) \/ ResolveFailed(c)
      BY <3>1, <3>2 DEF Keep, ResolveFailed, Slot
    <3>3. CASE Fetched(c) \/ PlayEnds(c)
      BY <3>1, <3>3 DEF Fetched, PlayEnds, Slot
    <3>4. CASE Refused(c)
      BY <3>1, <3>4 DEF Refused, Slot
    <3>5. QED
      BY <1>8, <3>2, <3>3, <3>4
  <2>3. QED
    BY <1>5, <2>1, <2>2
<1>9. CASE CacheMissAgain(c)
  <2>1. play'[c].at \in {"slot", "cool"}
    BY <1>9 DEF CacheMissAgain, Slot
  <2>2. QED
    BY <1>5, <1>9, <2>1 DEF CacheMissAgain
<1>10. QED
  BY <1>3, <1>4, <1>6, <1>7, <1>8, <1>9 DEF Handle

-----------------------------------------------------------------------------
(* The other steps *)

\* The goroutines of lock() move no request.
LEMMA GoroutineKeeps == ASSUME IInv, NEW c \in Calls, Goroutine(c) PROVE IInv'
<1>1. GroupInv'
  <2>1. Next
    BY DEF Next
  <2>2. QED
    BY <2>1, WebUsesGroup, GroupStep DEF IInv
<1>2. /\ UNCHANGED <<source, cached, cooldown, extracting, play, admin>>
      /\ \A d \in Calls : /\ call'[d].key = call[d].key \/ call[d].at = "orphaned"
                          /\ \/ call'[d].at = call[d].at
                             \/ call[d].at = "waiting" /\ call'[d].at = "granted"
                             \/ call[d].at = "deserted" /\ call'[d].at = "orphaned"
                             \/ call[d].at = "orphaned" /\ call'[d].at = "out"
  <2>1. call \in [Calls -> [at: Stages, key: Keys \cup {NoKey}]]
    BY DEF IInv, TypeOK, GroupTypeOK
  <2>2. CASE Grant(c)
    BY <2>1, <2>2 DEF Goroutine, HandBack, Grant, GoTo, At
  <2>3. CASE HandBack(c)
    BY <2>1, <2>3 DEF Goroutine, HandBack, Out, At
  <2>4. QED
    BY <2>2, <2>3 DEF Goroutine
<1>3. PlayInv'
  BY <1>2 DEF IInv, PlayInv, Agrees, Resolving, Playing, At
<1>4. (TypeOK /\ AdminInv)'
  BY <1>1, <1>2 DEF IInv, TypeOK, GroupInv, AdminInv, Acting
<1>5. (FailureIsServedBack /\ Budget)'
  BY <1>2 DEF IInv, Budget, FailureIsServedBack, SlotsHeld, Playing, Acting
<1>6. QED
  BY <1>1, <1>3, <1>4, <1>5 DEF IInv, Budget

\* The dashboard has slots of its own and starts no cooldown.
LEMMA AdministerKeeps == ASSUME IInv, NEW a \in Admins, Administer(a) PROVE IInv'
<1> DEFINE Entry == [at: AdminSteps, key: Keys \cup {NoKey}]
<1>1. UNCHANGED <<mutex, call, cooldown, play>> /\ admin \in [Admins -> Entry] /\ a \notin Calls
  BY WebPlayAssumption
     DEF IInv, TypeOK, Administer, Paste, Remove, Status, Version, AdminTakesSlot, AdminGivesUp, AdminExtracts, AddLink,
         DeleteLink, Invalidate
<1>2. GroupInv' /\ PlayInv' /\ FailureIsServedBack'
  BY <1>1 DEF IInv, GroupInv, GroupTypeOK, PlayInv, Agrees, FailureIsServedBack, Resolving, Playing, At, Has
<1>3. PICK e \in Entry : /\ admin' = [admin EXCEPT ![a] = e]
                         /\ (e.at = "idle") \/ (e.at = "version") \/ (e.key \in Keys)
  <2>1. admin[a].at \in {"idle", "version"} \/ admin[a].key \in Keys
    BY DEF IInv, AdminInv, Acting
  <2>2. CASE Status(a) \/ Version(a)
    BY <1>1, <2>2 DEF Status, Version, Turn, Rest, Resting, Acting, AdminSteps, IInv, TypeOK
  <2>3. CASE \E k \in Keys : Paste(a, k) \/ Remove(a, k)
    BY <1>1, <2>3 DEF Paste, Remove, AdminSteps, IInv, TypeOK
  <2>4. CASE \/ AdminTakesSlot(a) \/ AdminGivesUp(a) \/ AdminExtracts(a) \/ AddLink(a)
             \/ DeleteLink(a) \/ Invalidate(a)
    BY <1>1, <2>1, <2>4
       DEF AdminTakesSlot, AdminGivesUp, AdminExtracts, AddLink,
           DeleteLink, Invalidate, Turn, Rest, Resting, Acting, AdminSteps
  <2>5. QED
    BY <2>2, <2>3, <2>4 DEF Administer
<1>4. AdminInv' /\ admin' \in [Admins -> Entry]
  <2>1. admin' \in [Admins -> Entry] /\ \A b \in Admins : admin'[b] = IF b = a THEN e ELSE admin[b]
    BY <1>1, <1>3
  <2>2. QED
    BY <1>3, <2>1 DEF IInv, AdminInv, Acting
<1>5a. admin[a].at \in {"idle", "version"} \/ admin[a].key \in Keys
  BY DEF IInv, AdminInv, Acting
<1>5. source' \in Links /\ cached' \subseteq Keys /\ extracting' \subseteq Calls \cup Admins
  BY <1>5a DEF IInv, TypeOK, Links, Administer, Paste, Remove, Status, Version, AdminTakesSlot, AdminGivesUp,
              AdminExtracts, AddLink, DeleteLink, Invalidate, Acting
<1>6. TypeOK'
  BY <1>1, <1>2, <1>4, <1>5 DEF IInv, TypeOK, GroupInv, Links
<1>7. /\ \A b \in Admins \ {a} : Acting(b, "extract")' <=> Acting(b, "extract")
      /\ {c \in Calls : Playing(c, "extract")}' = {c \in Calls : Playing(c, "extract")}
  BY <1>1, <1>3 DEF Acting, Playing
<1>8. Budget'
  <2>1. CASE AdminTakesSlot(a)
    <3>1. ~Acting(a, "extract") /\ Acting(a, "extract")' /\ a \notin extracting
      BY <1>1, <2>1 DEF AdminTakesSlot, Acting, Turn, IInv, SlotsHeld
    <3>2. {b \in Admins : Acting(b, "extract")}' = {b \in Admins : Acting(b, "extract")} \cup {a}
      BY <1>7, <3>1
    <3>3. QED
      BY <1>7, <2>1, <3>1, <3>2, SlotTaken DEF AdminTakesSlot
  <2>2. CASE AdminExtracts(a)
    <3>1. Acting(a, "extract") /\ ~Acting(a, "extract")'
      BY <1>1, <2>2 DEF AdminExtracts, Acting, Turn, Rest, Resting
    <3>2. {b \in Admins : Acting(b, "extract")}' = {b \in Admins : Acting(b, "extract")} \ {a}
      BY <1>7, <3>1
    <3>3. {c \in Calls : Playing(c, "extract")}' = {c \in Calls : Playing(c, "extract")} \ {a}
      BY <1>1, <1>7
    <3>4. QED
      BY <2>2, <3>2, <3>3, SlotReturned DEF AdminExtracts
  <2>3. CASE (\E k \in Keys : Paste(a, k) \/ Remove(a, k)) \/ Status(a) \/ Version(a)
               \/ AdminGivesUp(a) \/ AddLink(a)
             \/ DeleteLink(a) \/ Invalidate(a)
    <3>1. extracting' = extracting /\ ~Acting(a, "extract")
      BY <2>3 DEF Paste, Remove, Status, Version, AdminGivesUp, AddLink, DeleteLink, Invalidate, Acting
    <3>2. ~Acting(a, "extract")'
      BY <1>1, <2>3 DEF Paste, Remove, Status, Version, AdminGivesUp, AddLink, DeleteLink, Invalidate, Acting, Turn, Rest, Resting
    <3>3. QED
      BY <1>1, <1>7, <3>1, <3>2, SlotsUntouched DEF Playing
  <2>4. QED
    BY <2>1, <2>2, <2>3 DEF Administer
<1>9. QED
  BY <1>2, <1>4, <1>6, <1>8 DEF IInv, Budget

\* The invariant is inductive.
LEMMA Step == IInv /\ [Next]_vars => IInv'
<1> SUFFICES ASSUME IInv, [Next]_vars PROVE IInv'
  OBVIOUS
<1>1. CASE UNCHANGED vars
  BY <1>1 DEF vars, IInv, TypeOK, GroupInv, GroupTypeOK, PlayInv, AdminInv, Agrees, FailureIsServedBack,
              SlotsHeld, Resolving, Playing, Acting, At, Has
<1>2. ASSUME NEW c \in Calls, Handle(c) PROVE IInv'
  BY <1>2, HandleTypes, HandleCools, HandleSlots DEF IInv, Budget
<1>3. ASSUME NEW c \in Calls, Goroutine(c) PROVE IInv'
  BY <1>3, GoroutineKeeps
<1>4. ASSUME NEW a \in Admins, Administer(a) PROVE IInv'
  BY <1>4, AdministerKeeps
<1>5. ASSUME NEW k \in Keys, Expire(k) PROVE IInv'
  BY <1>5 DEF Expire, IInv, TypeOK, GroupInv, GroupTypeOK, PlayInv, AdminInv, Agrees, FailureIsServedBack,
              SlotsHeld, Resolving, Playing, Acting, At, Has
<1>6. QED
  BY <1>1, <1>2, <1>3, <1>4, <1>5 DEF Next

-----------------------------------------------------------------------------
(* The theorems *)

\* The invariant holds in every reachable state.
THEOREM Invariance == Spec => []IInv
BY Start, Step, PTL DEF Spec

\* Every reachable state is of the declared types.
THEOREM Typing == Spec => []TypeOK
<1>1. IInv => TypeOK
  BY DEF IInv
<1>2. QED
  BY <1>1, Invariance, PTL

\* However many players open a link, and whoever hangs up, one request at most
\* resolves it (webPlayer.resolve).
THEOREM OneResolveAtATime == Spec => []OneResolve
<1>1. IInv => OneResolve
  BY OneInsideALink DEF IInv
<1>2. QED
  BY <1>1, Invariance, PTL

\* No request that is not forced extracts a link in cooldown.
THEOREM NoRetryInCooldown == Spec => []FailureIsServedBack
<1>1. IInv => FailureIsServedBack
  BY DEF IInv
<1>2. QED
  BY <1>1, Invariance, PTL

\* However many slots there are, every one in use belongs to an extraction that
\* runs (webPlayer.inspect), and every yt-dlp that runs has one, that of the
\* status page excepted.
THEOREM SlotsBack == Spec => []SlotsAreReturned
<1>1. IInv => SlotsAreReturned
  <2>1. {a \in Admins : admin[a].at \in {"extract", "version"}}
          = {a \in Admins : Acting(a, "extract")} \cup {a \in Admins : Acting(a, "version")}
    BY DEF Acting
  <2>2. QED
    BY <2>1 DEF IInv, SlotsHeld, SlotsAreReturned, Processes
<1>2. QED
  BY <1>1, Invariance, PTL

\* Only an add brings back the row of a link that was removed: the resolves
\* under way when it was removed find no row to mark.
THEOREM StaysRemoved == Spec => RemovedStaysRemoved
<1> DEFINE Stays == \A k \in Keys : source[k] = "none" /\ source'[k] # "none" =>
                        \E a \in Admins : Acting(a, "upsert") /\ admin[a].key = k
<1>1. IInv /\ [Next]_vars => [Stays]_vars
  <2> SUFFICES ASSUME IInv, [Next]_vars, NEW k \in Keys, source[k] = "none", source'[k] # "none"
               PROVE  \E a \in Admins : Acting(a, "upsert") /\ admin[a].key = k
    BY DEF vars
  <2>1. source \in Links
    BY DEF IInv, TypeOK, Links
  <2>2. ASSUME NEW c \in Calls, Handle(c) PROVE FALSE
    <3>1. source' = source \/ \E l \in Keys \cup {NoKey}, h \in {"ok", "failed"} : source' = Marked(l, h)
      BY <2>2 DEF IInv, TypeOK, Handle, Request, CacheHit, Queue, WaitOver, Admitted, CacheHitAgain,
                  CacheMissAgain, NotBlocked, Blocked, TakeSlot, SlotCanceled, ExtractEnds, MarkOK, Keep,
                  ResolveFailed, Fetched, Refused, PlayEnds
    <3>2. QED
      BY <2>1, <3>1 DEF Marked, Links
  <2>3. CASE \E a \in Admins : Administer(a)
    BY <2>1, <2>3 DEF Links, Administer, Paste, Remove, Status, Version, AdminTakesSlot, AdminGivesUp, AdminExtracts,
                      AddLink, DeleteLink, Invalidate
  <2>4. QED
    BY <2>2, <2>3 DEF Next, Goroutine, Expire, vars
<1>2. QED
  BY <1>1, Invariance, PTL DEF Spec, RemovedStaysRemoved

\* resolveGroup keeps its promise here too, where release() is deferred in resolve()
\* and a refused player comes back for the lock a second time (websources.go:200-260):
\* every step is one of SingleFlight or a stutter.
THEOREM Refinement == Spec => KeepsPromise
<1>1. Init => Promise!Init
  BY ResolveGroupAssumption
     DEF Init, GroupInit, Promise!Init, Holder, Inside, Asking, At, Out
<1>2. IInv /\ IInv' /\ [Next]_vars => [Promise!Next]_(Promise!vars)
  BY WebUsesGroup, GroupRefines DEF IInv
<1>3. QED
  BY <1>1, <1>2, Invariance, PTL DEF Spec, KeepsPromise, Promise!Spec
=============================================================================
