--------------------------- MODULE Background_proofs ---------------------------
(***************************************************************************)
(* Proofs about what goes on behind the requests.  The components share no *)
(* state, so each section is about one of them, its specification by       *)
(* itself: pre-warming, the task registry, the login limiter, play tokens, *)
(* the choice of a file, the choice of a release, and the typing of the    *)
(* rest.                                                                   *)
(***************************************************************************)
EXTENDS Background, Sequences, SequenceTheorems, FiniteSetTheorems, WellFoundedInduction, TLAPS

\* A non-empty set of naturals has a least one.
LEMMA LeastOfSet ==
  ASSUME NEW S, S \subseteq Nat, S # {}
  PROVE  \E x \in S : \A y \in S : x <= y
<1>1. PICK x \in S : \A y \in S : ~(<<y, x>> \in OpToRel(<, Nat))
  BY NatLessThanWellFounded, WFMin, Zenon
<1>2. \A y \in S : ~(y < x)
  BY <1>1 DEF OpToRel
<1>3. QED
  BY <1>2

\* Induction, over a set instead of a predicate.
LEMMA AllUpTo ==
  ASSUME NEW b \in Nat, NEW S, 0 \in S, \A n \in 1 .. b : n - 1 \in S => n \in S
  PROVE  \A n \in 0 .. b : n \in S
<1> DEFINE D == {n \in 0 .. b : n \notin S}
<1> SUFFICES ASSUME D # {} PROVE FALSE
  OBVIOUS
<1>1. D \subseteq Nat
  OBVIOUS
<1>2. PICK d \in D : \A e \in D : d <= e
  <2> HIDE DEF D
  <2>1. QED
    BY <1>1, LeastOfSet
<1>3. d \in 1 .. b /\ d - 1 \in 0 .. b /\ ~(d <= d - 1)
  OBVIOUS
<1>4. d - 1 \notin D
  <2> HIDE DEF D
  <2>1. QED
    BY <1>2, <1>3
<1>5. QED
  BY <1>3, <1>4

-----------------------------------------------------------------------------
(* PreWarm.  The registry and the goroutines mirror each other: an entry    *)
(* belongs to a live goroutine for its episode (EntriesAreLive), and every  *)
(* live goroutine has the entry of its episode (Registered).  The second    *)
(* half is what makes one cancelWarm enough, and it needs that nobody is    *)
(* cancelled before it has registered (Fresh).                              *)

Registered == \A l \in Loops : Live(l) => preWarmCancels[loop[l].episode] = l
Fresh == \A l \in Loops : At(l, "begun") => ~loop[l].cancelled

WarmInv == TypeOK /\ EntriesAreLive /\ Registered /\ Fresh

\* The value a goroutine has before it is started is one of a goroutine.
LEMMA OffIsLoop == Off \in Loop /\ Off.at = "off"
<1>1. (CHOOSE e \in Episodes : TRUE) \in Episodes
  BY PreWarmAssumption
<1>2. QED
  BY <1>1 DEF Off, Loop, Stages

LEMMA WarmInit == Init => WarmInv
<1> SUFFICES ASSUME Init PROVE WarmInv
  OBVIOUS
<1>1. TypeOK
  BY OffIsLoop DEF Init, TypeOK
<1>2. \A l \in Loops : ~Live(l) /\ ~At(l, "begun")
  BY DEF Init, Live, Running, Off, At
<1>3. QED
  BY <1>1, <1>2 DEF Init, WarmInv, EntriesAreLive, Registered, Fresh

\* Cancelling the entry of an episode keeps the mirror: the goroutine is not
\* live afterwards, and the entry is gone.
LEMMA PlayStep == ASSUME WarmInv, NEW e \in Episodes, Play(e) PROVE WarmInv'
<1> USE PreWarmAssumption DEF WarmInv, TypeOK, Loop, Play, Removed, Cancelled
<1>1. TypeOK'
  OBVIOUS
<1>2. EntriesAreLive'
  BY DEF EntriesAreLive, Registered, Live
<1>3. Registered'
  BY DEF EntriesAreLive, Registered, Live
<1>4. Fresh'
  BY DEF EntriesAreLive, Fresh, Live, Running, At
<1>5. QED
  BY <1>1, <1>2, <1>3, <1>4

\* A goroutine that starts or ends without having registered disturbs nothing.
LEMMA OutsideStep ==
  ASSUME WarmInv, NEW l \in Loops, ~Live(l), NEW x \in Loop, x.at \in {"off", "begun"},
         ~x.cancelled, loop' = [loop EXCEPT ![l] = x], UNCHANGED preWarmCancels
  PROVE  WarmInv'
<1> USE DEF WarmInv, TypeOK
<1>1. TypeOK'
  OBVIOUS
<1>2. ~Live(l)' /\ \A m \in Loops \ {l} : loop'[m] = loop[m]
  BY DEF Live, Running
<1>3. EntriesAreLive'
  BY <1>2 DEF EntriesAreLive, Live
<1>4. Registered'
  BY <1>2 DEF Registered, Live
<1>5. Fresh'
  BY <1>2 DEF Fresh, At
<1>6. QED
  BY <1>1, <1>3, <1>4, <1>5

LEMMA NearEndStep == ASSUME WarmInv, NEW e \in Episodes, NearEnd(e) PROVE WarmInv'
<1>1. PICK l \in Loops :
        /\ loop[l].at = "off"
        /\ loop' = [loop EXCEPT ![l] = [at |-> "begun", episode |-> e, cancelled |-> FALSE]]
        /\ preWarmCancels' = preWarmCancels
  BY DEF NearEnd, At
<1>2. ~Live(l)
  BY <1>1 DEF Live, Running
<1>3. [at |-> "begun", episode |-> e, cancelled |-> FALSE] \in Loop
  BY DEF Loop, Stages
<1>4. QED
  BY <1>1, <1>2, <1>3, OutsideStep

\* The registry gives an episode away only when it has no entry; Registered
\* says that there is no live goroutine for it then.
LEMMA RegisterStep == ASSUME WarmInv, NEW l \in Loops, Register(l) PROVE WarmInv'
<1> USE DEF WarmInv
<1>1. loop[l].at = "begun" /\ loop[l].episode \in Episodes /\ ~Live(l)
  BY DEF Register, At, TypeOK, Loop, Live, Running
<1>2. CASE preWarmCancels[loop[l].episode] # NoLoop
  BY <1>1, <1>2, OffIsLoop, OutsideStep DEF Register, Off
<1>3. CASE preWarmCancels[loop[l].episode] = NoLoop
  <2>1. /\ loop' = [loop EXCEPT ![l] = [@ EXCEPT !.at = "lookup"]]
        /\ preWarmCancels' = [preWarmCancels EXCEPT ![loop[l].episode] = l]
    BY <1>3 DEF Register, Move
  <2>2. TypeOK'
    BY <2>1, <1>1 DEF TypeOK, Loop, Stages
  <2>3. /\ loop'[l].episode = loop[l].episode /\ loop'[l].at = "lookup"
        /\ ~loop'[l].cancelled
        /\ \A m \in Loops \ {l} : loop'[m] = loop[m]
    BY <1>1, <2>1 DEF TypeOK, Loop, Fresh, At
  <2>4. Registered'
    BY <1>1, <1>3, <2>1, <2>3, PreWarmAssumption DEF TypeOK, Registered, Live
  <2>5. EntriesAreLive'
    BY <1>1, <1>3, <2>1, <2>3, PreWarmAssumption
    DEF TypeOK, EntriesAreLive, Live, Running
  <2>6. Fresh'
    BY <2>3 DEF Fresh, At
  <2>7. QED
    BY <2>2, <2>4, <2>5, <2>6
<1>4. QED
  BY <1>2, <1>3

\* The steps of the body change nothing but how far the goroutine is.
LEMMA BodyStep ==
  ASSUME WarmInv, NEW l \in Loops, NEW s \in Running, loop[l].at \in Running,
         Move(l, s), UNCHANGED preWarmCancels
  PROVE  WarmInv'
<1> USE DEF WarmInv, TypeOK, Loop, Move
<1>1. TypeOK'
  BY DEF Running, Stages
<1>2. /\ \A m \in Loops : loop'[m].episode = loop[m].episode
      /\ \A m \in Loops : loop'[m].cancelled = loop[m].cancelled
      /\ \A m \in Loops : loop'[m].at \in Running <=> loop[m].at \in Running
  OBVIOUS
<1>3. \A m \in Loops : loop'[m].at = "begun" <=> loop[m].at = "begun"
  BY DEF Running
<1>4. EntriesAreLive'
  BY <1>2, PreWarmAssumption DEF EntriesAreLive, Live
<1>5. Registered'
  BY <1>2 DEF Registered, Live
<1>6. Fresh'
  BY <1>2, <1>3 DEF Fresh, At
<1>7. QED
  BY <1>1, <1>4, <1>5, <1>6

\* The deferred cancelWarm: whoever has the entry is cancelled with it, and the
\* goroutine that leaves is either that one or has been cancelled before.
LEMMA ReturnStep == ASSUME WarmInv, NEW l \in Loops, Return(l) PROVE WarmInv'
<1> USE PreWarmAssumption DEF WarmInv
<1> DEFINE e == loop[l].episode
<1>1. /\ e \in Episodes
      /\ loop[l].at = "return"
      /\ preWarmCancels' = [preWarmCancels EXCEPT ![e] = NoLoop]
      /\ loop'[l] = Off
      /\ \A m \in Loops \ {l} : loop'[m] = IF preWarmCancels[e] = m
                                            THEN [loop[m] EXCEPT !.cancelled = TRUE] ELSE loop[m]
  BY DEF Return, At, Cancelled, Removed, TypeOK, Loop
<1>2. TypeOK'
  BY OffIsLoop DEF Return, Cancelled, Removed, TypeOK, Loop
<1>3. ~Live(l)' /\ \A m \in Loops \ {l} : preWarmCancels[e] # m => loop'[m] = loop[m]
  <2>1. loop'[l].at = "off"
    BY <1>1, OffIsLoop
  <2>2. QED
    BY <1>1, <2>1 DEF Live, Running
<1>4. \A m \in Loops \ {l} : preWarmCancels[e] = m => ~Live(m)' /\ ~At(m, "begun")'
  <2> SUFFICES ASSUME NEW m \in Loops \ {l}, preWarmCancels[e] = m
               PROVE  loop'[m].cancelled /\ loop'[m].at # "begun"
    BY DEF Live, At
  <2>1. loop'[m] = [loop[m] EXCEPT !.cancelled = TRUE]
    BY <1>1
  <2>2. loop[m] \in Loop /\ Live(m)
    BY <1>1 DEF TypeOK, EntriesAreLive
  <2>3. QED
    BY <2>1, <2>2 DEF Loop, Live, Running
<1>5. \A f \in Episodes \ {e} : preWarmCancels[f] # l
  BY <1>1 DEF EntriesAreLive, Live
<1>6. EntriesAreLive'
  <2> SUFFICES ASSUME NEW f \in Episodes, preWarmCancels'[f] # NoLoop
               PROVE  Live(preWarmCancels[f])' /\ loop'[preWarmCancels'[f]].episode = f
    BY DEF EntriesAreLive, Live
  <2>1. f # e /\ preWarmCancels'[f] = preWarmCancels[f]
    BY <1>1 DEF TypeOK
  <2>2. preWarmCancels[f] \in Loops \ {l} /\ preWarmCancels[f] # preWarmCancels[e]
    BY <1>1, <1>5, <2>1 DEF TypeOK, EntriesAreLive
  <2>3. QED
    BY <1>3, <2>1, <2>2 DEF TypeOK, EntriesAreLive, Live
<1>7. Registered'
  <2> SUFFICES ASSUME NEW m \in Loops, Live(m)'
               PROVE  preWarmCancels'[loop'[m].episode] = m
    BY DEF Registered
  <2>1. m # l /\ preWarmCancels[e] # m /\ loop'[m] = loop[m]
    BY <1>3, <1>4
  <2>2. preWarmCancels[loop[m].episode] = m /\ loop[m].episode \in Episodes
    BY <2>1 DEF Registered, Live, TypeOK, Loop
  <2>3. QED
    BY <1>1, <2>1, <2>2 DEF TypeOK
<1>8. Fresh'
  <2> SUFFICES ASSUME NEW m \in Loops, loop'[m].at = "begun"
               PROVE  ~loop'[m].cancelled
    BY DEF Fresh, At
  <2>1. m # l
    BY <1>1, OffIsLoop
  <2>2. loop'[m] = loop[m]
    BY <1>3, <1>4, <2>1 DEF At
  <2>3. QED
    BY <2>2 DEF Fresh, At
<1>9. QED
  BY <1>2, <1>6, <1>7, <1>8

LEMMA WarmNext == WarmInv /\ [Next]_vars => WarmInv'
<1> SUFFICES ASSUME WarmInv, [Next]_vars PROVE WarmInv'
  OBVIOUS
<1>1. ASSUME NEW l \in Loops, LookUp(l) PROVE WarmInv'
  BY <1>1, BodyStep DEF LookUp, At, Running
<1>2. ASSUME NEW l \in Loops, Load(l) PROVE WarmInv'
  BY <1>2, BodyStep DEF Load, At, Running
<1>3. ASSUME NEW l \in Loops, Resolve(l) PROVE WarmInv'
  BY <1>3, BodyStep DEF Resolve, At, Running
<1>4. ASSUME NEW l \in Loops, Cool(l) PROVE WarmInv'
  BY <1>4, BodyStep DEF Cool, At, Running
<1>5. CASE UNCHANGED vars
  BY <1>5 DEF vars, WarmInv, TypeOK, EntriesAreLive, Registered, Fresh, Live, At
<1>6. QED
  BY <1>1, <1>2, <1>3, <1>4, <1>5, RegisterStep, ReturnStep, NearEndStep, PlayStep
  DEF Next, Goroutine

\* The invariant holds for any number of episodes and goroutines.
THEOREM WarmInvariance == Spec => []WarmInv
BY WarmInit, WarmNext, PTL DEF Spec

\* WarmTyping: the registry maps episodes to goroutines or to nothing, and each
\* goroutine has a stage, an episode and a context that is cancelled or not.
THEOREM WarmTyping == Spec => []TypeOK
<1>1. WarmInv => TypeOK
  BY DEF WarmInv
<1>2. QED
  BY <1>1, WarmInvariance, PTL

\* Only one keep-warm loop per episode runs at a time (main.go:3657).
THEOREM OneAtATime == Spec => []OneWarm
<1>1. WarmInv => OneWarm
  BY DEF WarmInv, Registered, OneWarm
<1>2. QED
  BY <1>1, WarmInvariance, PTL

\* No entry of the registry outlives its goroutine (preWarmNext's defer).
THEOREM NoStaleEntry == Spec => []EntriesAreLive
<1>1. WarmInv => EntriesAreLive
  BY DEF WarmInv
<1>2. QED
  BY <1>1, WarmInvariance, PTL

\* One cancelWarm is enough: after /play of an episode nobody warms it.
THEOREM PlayerTakesOver == Spec => PlayTakesOver
<1>1. WarmInv /\ [Next]_vars => [\A e \in Episodes : Play(e) =>
        \A l \in Loops : loop[l].episode = e => ~Live(l)']_vars
  BY DEF WarmInv, TypeOK, Loop, Registered, Play, Cancelled, Live
<1>2. QED
  BY <1>1, WarmInvariance, PTL DEF Spec, PlayTakesOver

-----------------------------------------------------------------------------
(* TaskRegistry.  A goroutine works on a task only between the two writes   *)
(* of its status (Alone, Marked), which a new process sets back.            *)

Alone ==
    \A g, h \in T!Goroutines :
        doing[g] = "work" /\ doing[h] = "work" /\ T!JobOf(g) = T!JobOf(h) => g = h

Marked ==
    \A t \in Tasks :
        status[t] = "running" <=> \E g \in T!Goroutines : doing[g] = "work" /\ T!JobOf(g) = t

TaskInv == T!TypeOK /\ (T!Alive => Alone /\ Marked)

LEMMA JobIsTask == ASSUME T!TypeOK, NEW g \in T!Goroutines PROVE T!JobOf(g) \in Tasks
BY TaskAssumption DEF T!TypeOK, T!JobOf, T!Goroutines

LEMMA TaskInit == T!Init => TaskInv
BY TaskAssumption DEF T!Init, TaskInv, T!TypeOK, T!Policies, Alone, Marked

\* Nobody but the goroutine that finds the task at rest gets to work on it.
LEMMA CallStep == ASSUME TaskInv, NEW g \in T!Goroutines, T!Call(g) PROVE TaskInv'
<1> USE DEF TaskInv, T!TypeOK, T!Call, T!restart, T!Alive
<1>1. T!TypeOK'
  BY JobIsTask DEF T!Enter, T!TurnBack, T!Goroutines
<1>2. CASE T!Enter(g)
  <2>1. \A h \in T!Goroutines : T!JobOf(h)' = T!JobOf(h)
    BY DEF T!JobOf
  <2>2. ~\E h \in T!Goroutines : doing[h] = "work" /\ T!JobOf(h) = T!JobOf(g)
    BY <1>2, JobIsTask DEF Marked, T!Enter
  <2>3. doing' = [doing EXCEPT ![g] = "work"] /\ status' = [status EXCEPT ![T!JobOf(g)] = "running"]
    BY <1>2 DEF T!Enter
  <2>4. Alone'
    BY <2>1, <2>2, <2>3 DEF Alone, T!Goroutines
  <2>5. Marked'
    BY <2>1, <2>2, <2>3, JobIsTask DEF Marked, T!Goroutines
  <2>6. QED
    BY <1>1, <2>4, <2>5
<1>3. CASE T!TurnBack(g)
  BY <1>1, <1>3 DEF T!TurnBack, Alone, Marked, T!JobOf, T!Goroutines
<1>4. QED
  BY <1>2, <1>3

\* Whoever has worked on a task leaves nobody at it, and its status says so.
LEMMA FinishStep == ASSUME TaskInv, NEW g \in T!Goroutines, T!Finish(g) PROVE TaskInv'
<1> USE DEF TaskInv, T!TypeOK, T!restart, T!Alive
<1>1. PICK s \in {"error", "idle"} :
        /\ T!Alive /\ doing[g] = "work"
        /\ status' = [status EXCEPT ![T!JobOf(g)] = s]
        /\ doing' = [doing EXCEPT ![g] = "rest"]
        /\ UNCHANGED <<job, process, T!restart>>
  BY DEF T!Finish, T!Outcome
<1>2. T!TypeOK'
  BY <1>1, JobIsTask DEF T!Goroutines
<1>3. \A h \in T!Goroutines : T!JobOf(h)' = T!JobOf(h)
  BY <1>1 DEF T!JobOf
<1>4. \A h \in T!Goroutines : doing'[h] = IF h = g THEN "rest" ELSE doing[h]
  BY <1>1 DEF T!Goroutines
<1>5. Alone'
  BY <1>1, <1>3, <1>4 DEF Alone, T!Goroutines
<1>6. Marked'
  BY <1>1, <1>3, <1>4, JobIsTask DEF Alone, Marked, T!Goroutines
<1>7. QED
  BY <1>1, <1>2, <1>5, <1>6

\* A goroutine that is not at work, and does not begin to, may be anywhere.
LEMMA IdleStep ==
  ASSUME TaskInv, NEW g \in T!Goroutines, doing[g] = "rest",
         NEW s \in {"call", "over"}, doing' = [doing EXCEPT ![g] = s],
         \A h \in T!Goroutines \ {g} : T!JobOf(h)' = T!JobOf(h),
         job' \in [Requests -> Tasks], UNCHANGED <<status, process, T!restart>>
  PROVE  TaskInv'
<1> USE DEF TaskInv, T!TypeOK, T!restart, T!Alive
<1>1. T!TypeOK'
  BY DEF T!Goroutines
<1>2. \A h \in T!Goroutines : doing'[h] = IF h = g THEN s ELSE doing[h]
  BY DEF T!Goroutines
<1>3. T!Goroutines' = T!Goroutines
  BY DEF T!Goroutines
<1>4. \A h \in T!Goroutines : doing'[h] = "work" <=> doing[h] = "work"
  BY <1>2
<1>5. \A h \in T!Goroutines : doing[h] = "work" => T!JobOf(h)' = T!JobOf(h)
  OBVIOUS
<1>6. T!Alive => Alone' /\ Marked'
  BY <1>3, <1>4, <1>5 DEF Alone, Marked
<1>7. QED
  BY <1>1, <1>6

\* Restart and shutdown: what changes is the process, and what a new one finds.
LEMMA ProcessStep ==
  ASSUME TaskInv,
         T!Request \/ T!Trigger \/ T!Sigterm \/ T!Exit \/ T!Crash \/ T!Revive \/ T!Start
  PROVE  TaskInv'
<1> USE DEF TaskInv, T!TypeOK
<1>1. CASE T!Request \/ T!Trigger \/ T!Sigterm \/ T!Exit \/ T!Crash
  <2>1. T!TypeOK' /\ UNCHANGED <<status, doing, job>> /\ (T!Alive' => T!Alive)
    BY <1>1 DEF T!Request, T!Trigger, T!Sigterm, T!Exit, T!ExitCode, T!Crash, T!Halt, T!Alive
  <2>2. QED
    BY <2>1 DEF Alone, Marked, T!JobOf
<1>2. CASE T!Revive \/ T!Start
  <2>1. T!TypeOK' /\ T!Fresh
    BY <1>2 DEF T!Revive, T!Start, T!Fresh
  <2>2. Alone' /\ Marked'
    BY <2>1 DEF T!Fresh, Alone, Marked
  <2>3. QED
    BY <2>1, <2>2
<1>3. QED
  BY <1>1, <1>2

LEMMA TaskNext == TaskInv /\ [T!Next]_T!vars => TaskInv'
<1> SUFFICES ASSUME TaskInv, [T!Next]_T!vars PROVE TaskInv'
  OBVIOUS
<1>1. ASSUME NEW t \in Scheduled, T!Tick(t) \/ T!ScheduleEnds(t) PROVE TaskInv'
  <2>1. t \in T!Goroutines /\ doing[t] = "rest"
        /\ (doing' = [doing EXCEPT ![t] = "call"] \/ doing' = [doing EXCEPT ![t] = "over"])
        /\ UNCHANGED <<status, job, process, T!restart>>
    BY <1>1 DEF T!Goroutines, T!Tick, T!ScheduleEnds
  <2>2. \A h \in T!Goroutines : T!JobOf(h)' = T!JobOf(h)
    BY <2>1 DEF T!JobOf
  <2>3. job' \in [Requests -> Tasks]
    BY <2>1 DEF TaskInv, T!TypeOK
  <2>4. QED
    BY <2>1, <2>2, <2>3, IdleStep
<1>2. ASSUME NEW g \in Requests, NEW t \in Tasks, T!RunNow(g, t) PROVE TaskInv'
  <2>1. g \in T!Goroutines
    BY DEF T!Goroutines
  <2>2. \A h \in T!Goroutines \ {g} : T!JobOf(h)' = T!JobOf(h)
    BY <1>2, TaskAssumption DEF T!RunNow, T!JobOf, T!Goroutines, TaskInv, T!TypeOK
  <2>3. job' \in [Requests -> Tasks]
    BY <1>2 DEF T!RunNow, TaskInv, T!TypeOK
  <2>4. QED
    BY <1>2, <2>1, <2>2, <2>3, IdleStep DEF T!RunNow
<1>3. CASE UNCHANGED T!vars
  BY <1>3 DEF T!vars, T!restart, TaskInv, T!TypeOK, T!Alive, Alone, Marked, T!JobOf
<1>4. QED
  BY <1>1, <1>2, <1>3, CallStep, FinishStep, ProcessStep DEF T!Next, T!Work

\* The invariant of the tasks, for any tasks, schedules and requests.
THEOREM TaskInvariance == T!Spec => []TaskInv
BY TaskInit, TaskNext, PTL DEF T!Spec

\* Cardinality is the same operator in the component and here.
LEMMA TaskCount == ASSUME NEW S PROVE T!Cardinality(S) = Cardinality(S)
BY DEF T!Cardinality, Cardinality

\* A task is run by one goroutine at a time, and its status says 'running' exactly
\* while it is, whatever restarts come in between (tasks.go:40, 57).
THEOREM TasksRunAlone == T!Spec => []OneRunner
<1>1. ASSUME TaskInv PROVE OneRunner
  <2> SUFFICES ASSUME T!Alive, NEW t \in Tasks
               PROVE  Cardinality({g \in T!Goroutines : doing[g] = "work" /\ T!JobOf(g) = t}) <= 1
    BY <1>1, TaskCount DEF OneRunner, T!OneRunner, TaskInv, Marked
  <2> DEFINE W == {g \in T!Goroutines : doing[g] = "work" /\ T!JobOf(g) = t}
  <2>1. CASE W = {}
    BY <2>1, FS_EmptySet
  <2>2. CASE W # {}
    <3>1. PICK g \in W : TRUE
      BY <2>2
    <3>2. W = {g}
      BY <1>1, <3>1 DEF TaskInv, Alone
    <3>3. QED
      BY <3>2, FS_Singleton
  <2>3. QED
    BY <2>1, <2>2
<1>2. QED
  BY <1>1, TaskInvariance, PTL

\* A process goes to its end by the request or by the operator, and without the
\* operator its exit code is a failure.
RestartInv ==
    /\ process \in {"up", "stopping", "down"}
    /\ pending => T!Revives(policy)
    /\ process = "stopping" => stopped \/ requested
    /\ process = "down" /\ ~stopped => exit = 1

LEMMA RestartNext == RestartInv /\ [T!Next]_T!vars => RestartInv'
<1> SUFFICES ASSUME RestartInv, [T!Next]_T!vars PROVE RestartInv'
  OBVIOUS
<1>1. CASE UNCHANGED <<process, T!restart>>
  BY <1>1 DEF RestartInv, T!restart, T!Revives
<1>2. CASE T!Request \/ T!Trigger \/ T!Sigterm
  BY <1>2 DEF RestartInv, T!Request, T!Trigger, T!Sigterm, T!Alive, T!Revives
<1>3. CASE T!Exit \/ T!Crash
  BY <1>3 DEF RestartInv, T!Exit, T!Crash, T!Halt, T!ExitCode, T!Revives
<1>4. CASE T!Revive \/ T!Start
  BY <1>4 DEF RestartInv, T!Revive, T!Start, T!Fresh, T!Revives
<1>5. ASSUME NEW g \in T!Goroutines, T!Work(g) PROVE UNCHANGED <<process, T!restart>>
  BY <1>5 DEF T!Work, T!Call, T!Finish
<1>6. ASSUME NEW t \in Scheduled, T!Tick(t) \/ T!ScheduleEnds(t) PROVE UNCHANGED <<process, T!restart>>
  BY <1>6 DEF T!Tick, T!ScheduleEnds
<1>7. ASSUME NEW g \in Requests, NEW t \in Tasks, T!RunNow(g, t) PROVE UNCHANGED <<process, T!restart>>
  BY <1>7 DEF T!RunNow
<1>8. QED
  BY <1>1, <1>2, <1>3, <1>4, <1>5, <1>6, <1>7 DEF T!Next, T!vars

\* However the process came to its end after a restart was accepted, systemd will
\* start it again unless the operator stopped the unit (selfrestart.go:59-61: "Refuse
\* rather than kill it"): the guard of Revive holds, by the unit's policy and the exit
\* code.  That it does start it is RestartComesBack.
WillBeRevived ==
    process = "down" /\ pending /\ ~stopped =>
        policy = "always" \/ policy = (IF exit = 0 THEN "on-success" ELSE "on-failure")

THEOREM RestartIsNoStop == T!Spec => []WillBeRevived
<1>1. T!Init => RestartInv
  BY DEF T!Init, RestartInv
<1>2. RestartInv => WillBeRevived
  BY DEF RestartInv, WillBeRevived, T!Revives
<1>3. QED
  BY <1>1, <1>2, RestartNext, PTL DEF T!Spec

-----------------------------------------------------------------------------
(* Limits.  The bucket of an address counts what the ghost counts (Kept);   *)
(* one that was swept had nothing more to say (Aged).                       *)

\* time.Second << n is a time: the function unfolds, and keeps to the naturals.
LEMMA ShiftedIsTime == \A n \in 0 .. 20 : L!Shifted[n] \in Nat
<1> DEFINE Unfolds(f, m) == f = [n \in 0 .. m |-> IF n = 0 THEN 1 ELSE 2 * f[n - 1]]
           S == {m \in Nat : \E f : Unfolds(f, m)}
           N0 == {n \in 0 .. 20 : L!Shifted[n] \in Nat}
<1>1. 0 \in S
  <2>1. Unfolds([n \in 0 .. 0 |-> 1], 0)
    OBVIOUS
  <2>2. QED
    BY <2>1
<1>2. ASSUME NEW m \in 1 .. 20, m - 1 \in S PROVE m \in S
  <2>1. PICK g : Unfolds(g, m - 1)
    BY <1>2
  <2> DEFINE longer == [n \in 0 .. m |-> IF n < m THEN g[n] ELSE 2 * g[n - 1]]
  <2>2. \A n \in 0 .. m - 1 : g[n] = IF n = 0 THEN 1 ELSE 2 * g[n - 1]
    BY <2>1
  <2>3. \A n \in 0 .. m : longer[n] = IF n = 0 THEN 1 ELSE 2 * longer[n - 1]
    BY <2>2
  <2>4. longer = [n \in 0 .. m |-> longer[n]]
    OBVIOUS
  <2>5. Unfolds(longer, m)
    <3> HIDE DEF longer
    <3>1. [n \in 0 .. m |-> longer[n]] = [n \in 0 .. m |-> IF n = 0 THEN 1 ELSE 2 * longer[n - 1]]
      BY <2>3, Zenon
    <3>2. QED
      BY <2>4, <3>1, Zenon
  <2>6. QED
    <3> HIDE DEF longer, Unfolds
    <3>1. m \in Nat
      OBVIOUS
    <3>2. QED
      BY <2>5, <3>1
<1>3. \A m \in 0 .. 20 : m \in S
  <2> HIDE DEF S
  <2>1. 20 \in Nat
    OBVIOUS
  <2>2. QED
    BY <1>1, <1>2, <2>1, AllUpTo
<1>4. PICK f : Unfolds(f, 20)
  <2> HIDE DEF Unfolds
  <2>1. 20 \in S
    BY <1>3
  <2>2. QED
    BY <2>1
<1>5. Unfolds(L!Shifted, 20)
  BY <1>4 DEF L!Shifted
<1>6. L!Shifted[0] = 1 /\ \A n \in 1 .. 20 : L!Shifted[n] = 2 * L!Shifted[n - 1]
  <2>1. \A n \in 0 .. 20 : L!Shifted[n] = IF n = 0 THEN 1 ELSE 2 * L!Shifted[n - 1]
    BY <1>5
  <2>2. QED
    BY <2>1
<1>7. 0 \in N0 /\ \A n \in 1 .. 20 : n - 1 \in N0 => n \in N0
  BY <1>6
<1>8. \A n \in 0 .. 20 : n \in N0
  <2> HIDE DEF N0
  <2>1. 20 \in Nat
    OBVIOUS
  <2>2. QED
    BY <1>7, <2>1, AllUpTo
<1>9. QED
  BY <1>8

LEMMA SmallerOfTwo ==
  ASSUME NEW a \in Int, NEW b \in Int
  PROVE  L!Min({a, b}) = IF a <= b THEN a ELSE b
BY DEF L!Min

\* A backoff is between nothing and the longest one.
LEMMA BackoffIsTime ==
  ASSUME NEW n \in (Burst + 1) .. MaxFailures
  PROVE  L!Backoff(n) \in 0 .. MaxWait
<1>1. n - Burst - 1 \in Nat /\ MaxWait \in Nat
  BY LimitsAssumption
<1> DEFINE shift == L!Min({n - Burst - 1, 20})
<1>2. shift \in 0 .. 20
  BY <1>1, SmallerOfTwo
<1>3. L!Shifted[shift] \in Nat
  BY <1>2, ShiftedIsTime
<1>4. L!Backoff(n) = L!Min({L!Shifted[shift], MaxWait})
  BY DEF L!Backoff
<1> HIDE DEF shift
<1>5. QED
  BY <1>1, <1>3, <1>4, SmallerOfTwo

Wait(failures, last) == IF failures > Burst THEN last + L!Backoff(failures) ELSE 0

Kept(a) ==
    buckets[a] # none =>
        /\ buckets[a].failures = streak[a].failures /\ buckets[a].failures > 0
        /\ buckets[a].last = streak[a].last
        /\ buckets[a].blocked = Wait(streak[a].failures, streak[a].last)

Aged(a) ==
    buckets[a] = none /\ streak[a].failures > 0 =>
        now - streak[a].last > Window /\ now >= Wait(streak[a].failures, streak[a].last)

LimitInv == L!TypeOK /\ \A a \in Addresses : Kept(a) /\ Aged(a)

LEMMA WaitIsTime ==
  ASSUME NEW c \in L!Counts
  PROVE  Wait(c.failures, c.last) \in 0 .. (MaxTime + MaxWait)
<1>1. c.failures > Burst => L!Backoff(c.failures) \in 0 .. MaxWait
  BY BackoffIsTime, LimitsAssumption DEF L!Counts
<1>2. QED
  BY <1>1, LimitsAssumption DEF Wait, L!Counts

\* What gc leaves of a bucket.
LEMMA SweptBucket ==
  ASSUME L!TypeOK
  PROVE  /\ L!Swept \in [L!Keys -> L!Buckets \cup {none}]
         /\ \A k \in L!Keys :
                \/ L!Swept[k] = buckets[k]
                \/ L!Swept[k] = none /\ buckets[k] # none
                     /\ now - buckets[k].last > Window /\ now > buckets[k].blocked
BY DEF L!TypeOK, L!Swept

\* The sweep of the attempts before keeps the invariant's account of every address.
LEMMA SweptKeeps ==
  ASSUME LimitInv, NEW a \in Addresses
  PROVE  /\ L!Swept[a] # none => L!Swept[a] = buckets[a]
         /\ L!Swept[a] = none /\ streak[a].failures > 0 =>
                now - streak[a].last > Window /\ now >= Wait(streak[a].failures, streak[a].last)
<1>1. a \in L!Keys /\ buckets[a] \in L!Buckets \cup {none} /\ streak[a] \in L!Counts /\ now \in Nat
  BY LimitsAssumption DEF LimitInv, L!TypeOK, L!Keys
<1>2. Kept(a) /\ Aged(a) /\ Wait(streak[a].failures, streak[a].last) \in Nat
  BY <1>1, WaitIsTime, LimitsAssumption DEF LimitInv
<1>3. QED
  BY <1>1, <1>2, SweptBucket DEF LimitInv, Kept, Aged

LEMMA LimitInit == L!Init => LimitInv
<1> SUFFICES ASSUME L!Init PROVE LimitInv
  OBVIOUS
<1>1. L!TypeOK
  BY LimitsAssumption DEF L!Init, L!TypeOK, L!Counts
<1>2. \A a \in Addresses : Kept(a) /\ Aged(a)
  BY DEF L!Init, Kept, Aged, L!Keys
<1>3. QED
  BY <1>1, <1>2 DEF LimitInv

LEMMA TickStep == ASSUME LimitInv, L!Tick PROVE LimitInv'
<1>1. L!TypeOK'
  BY LimitsAssumption DEF LimitInv, L!TypeOK, L!Tick
<1>2. ASSUME NEW a \in Addresses PROVE Kept(a)' /\ Aged(a)'
  <2>1. streak[a] \in L!Counts /\ now \in Nat
    BY LimitsAssumption DEF LimitInv, L!TypeOK
  <2>2. Wait(streak[a].failures, streak[a].last) \in Nat
    BY <2>1, WaitIsTime, LimitsAssumption
  <2>3. Kept(a) /\ Aged(a) /\ UNCHANGED <<buckets, streak>> /\ now' = now + 1
    BY DEF LimitInv, L!Tick
  <2>4. QED
    BY <2>1, <2>2, <2>3, LimitsAssumption DEF Kept, Aged, Wait, L!Counts
<1>3. QED
  BY <1>1, <1>2 DEF LimitInv

LEMMA AttemptStep ==
  ASSUME LimitInv, NEW h \in Handlers, NEW a \in Addresses, NEW n \in Names, L!Attempt(h, a, n)
  PROVE  LimitInv'
<1>1. buckets' = L!Swept /\ UNCHANGED <<now, streak>>
  BY DEF L!Attempt
<1>2. L!TypeOK'
  BY <1>1, SweptBucket DEF LimitInv, L!TypeOK, L!Attempt
<1>3. ASSUME NEW b \in Addresses PROVE Kept(b)' /\ Aged(b)'
  BY <1>1, SweptKeeps DEF LimitInv, Kept, Aged, Wait
<1>4. QED
  BY <1>2, <1>3 DEF LimitInv

\* Failed counts an address's bucket as Counted does the ghost.
LEMMA FailedCounts ==
  ASSUME LimitInv, NEW a \in Addresses,
         L!Swept[a] # none => L!Swept[a].failures < MaxFailures
  PROVE  /\ L!Counted(streak[a]) \in L!Counts
         /\ L!Counted(streak[a]).failures > 0
         /\ L!Failed(L!Swept[a]) =
              [failures |-> L!Counted(streak[a]).failures, last |-> L!Counted(streak[a]).last,
               blocked |-> Wait(L!Counted(streak[a]).failures, L!Counted(streak[a]).last)]
<1> DEFINE c == L!Counted(streak[a])
<1>1. /\ streak[a] \in L!Counts /\ now \in 0 .. MaxTime
      /\ L!Swept[a] = none \/ L!Swept[a] \in L!Buckets
  BY SweptBucket DEF LimitInv, L!TypeOK, L!Keys
<1>2. c.last = now /\ c = [failures |-> c.failures, last |-> now]
  BY DEF L!Counted
<1>3. CASE L!Swept[a] = none
  <2>1. c.failures = 1
    BY <1>1, <1>3, SweptKeeps DEF L!Counted, L!Counts
  <2>2. QED
    BY <1>1, <1>2, <1>3, <2>1, LimitsAssumption DEF L!Counts, L!Failed, L!Counted, Wait
<1>4. CASE L!Swept[a] # none
  <2>1. L!Swept[a] = buckets[a] /\ Kept(a)
    BY <1>4, SweptKeeps DEF LimitInv
  <2>2. /\ buckets[a] \in L!Buckets
        /\ buckets[a].failures = streak[a].failures /\ buckets[a].last = streak[a].last
        /\ buckets[a].failures > 0 /\ buckets[a].failures < MaxFailures
        /\ buckets[a].blocked = Wait(streak[a].failures, streak[a].last)
    BY <1>1, <1>4, <2>1 DEF Kept
  <2>3. CASE now - streak[a].last > Window
    <3>1. c.failures = 1
      BY <2>3 DEF L!Counted
    <3>2. QED
      BY <1>1, <1>2, <1>4, <2>1, <2>2, <2>3, <3>1, LimitsAssumption DEF L!Counts, L!Failed, L!Counted, Wait
  <2>4. CASE ~(now - streak[a].last > Window)
    <3>1. c.failures = streak[a].failures + 1
      BY <1>1, <2>2, <2>4 DEF L!Counted, L!Counts
    <3>2. L!Failed(L!Swept[a]).failures = c.failures /\ L!Counted(buckets[a]).failures = c.failures
      BY <1>1, <1>4, <2>1, <2>2, <2>4, <3>1 DEF L!Failed, L!Counted, L!Counts, L!Buckets
    <3>3. ~(c.failures > Burst) => buckets[a].blocked = 0
      BY <1>1, <2>2, <3>1, LimitsAssumption DEF Wait, L!Counts
    <3>4. L!Failed(L!Swept[a]).blocked = Wait(c.failures, c.last)
      BY <1>1, <1>2, <1>4, <2>1, <2>2, <2>4, <3>1, <3>2, <3>3 DEF L!Failed, Wait
    <3>5. QED
      BY <1>1, <1>2, <2>2, <3>1, <3>2, <3>4, LimitsAssumption DEF L!Failed, L!Counts
  <2>5. QED
    BY <2>3, <2>4
<1>5. QED
  BY <1>3, <1>4

\* Any bucket with one more failure is a bucket.
LEMMA FailedIsBucket ==
  ASSUME LimitInv, NEW b \in L!Buckets \cup {none}, b # none => b.failures < MaxFailures
  PROVE  L!Failed(b) \in L!Buckets
<1>1. now \in 0 .. MaxTime
  BY DEF LimitInv, L!TypeOK
<1> DEFINE old == IF b = none \/ now - b.last > Window THEN [failures |-> 0, last |-> 0, blocked |-> 0] ELSE b
<1>2. old \in L!Buckets /\ old.failures < MaxFailures
  BY LimitsAssumption DEF L!Buckets
<1>3. L!Counted(old).failures \in 1 .. MaxFailures
  BY <1>2, <1>1, LimitsAssumption DEF L!Counted, L!Buckets
<1> HIDE DEF old
<1>4. L!Failed(b) = [failures |-> L!Counted(old).failures, last |-> now,
        blocked |-> IF L!Counted(old).failures > Burst THEN now + L!Backoff(L!Counted(old).failures) ELSE old.blocked]
  BY DEF L!Failed, old
<1>5. L!Counted(old).failures > Burst => L!Backoff(L!Counted(old).failures) \in 0 .. MaxWait
  BY <1>3, BackoffIsTime, LimitsAssumption
<1>6. QED
  BY <1>1, <1>2, <1>3, <1>4, <1>5, LimitsAssumption DEF L!Buckets

LEMMA WrongStep == ASSUME LimitInv, NEW h \in Handlers, L!Wrong(h) PROVE LimitInv'
<1> DEFINE a == trying[h][1]  n == trying[h][2]
<1>1. a \in Addresses /\ n \in Names /\ a \in L!Keys /\ n \in L!Keys
  BY DEF LimitInv, L!TypeOK, L!Wrong, L!Keys
<1>2. /\ \A k \in {a, n} : L!Swept[k] # none => L!Swept[k].failures < MaxFailures
      /\ buckets' = [k \in L!Keys |-> IF k \in {a, n} THEN L!Failed(L!Swept[k]) ELSE L!Swept[k]]
      /\ streak' = [streak EXCEPT ![a] = L!Counted(@)]
      /\ trying' = [trying EXCEPT ![h] = none]
      /\ now' = now
  BY DEF L!Wrong
<1> HIDE DEF a, n
<1>3. L!Counted(streak[a]) \in L!Counts
  BY <1>1, <1>2, FailedCounts
<1>4. buckets' \in [L!Keys -> L!Buckets \cup {none}]
  <2>1. \A k \in {a, n} : L!Failed(L!Swept[k]) \in L!Buckets
    BY <1>1, <1>2, SweptBucket, FailedIsBucket DEF LimitInv
  <2>2. QED
    BY <1>2, <2>1, SweptBucket DEF LimitInv
<1>5. L!TypeOK'
  BY <1>2, <1>3, <1>4 DEF LimitInv, L!TypeOK
<1>6. ASSUME NEW b \in Addresses PROVE Kept(b)' /\ Aged(b)'
  <2>1. b \in L!Keys /\ b # n /\ streak' \in [Addresses -> L!Counts]
    BY <1>1, <1>5, LimitsAssumption DEF L!Keys, L!TypeOK
  <2>2. CASE b = a
    <3>1. buckets'[b] = L!Failed(L!Swept[a]) /\ streak'[b] = L!Counted(streak[a])
      BY <1>2, <2>1, <2>2 DEF LimitInv, L!TypeOK
    <3>2. buckets'[b] # none
      BY <1>1, <1>2, <3>1, SweptBucket, FailedIsBucket, LimitsAssumption DEF LimitInv
    <3>3. /\ streak'[b].failures > 0
          /\ buckets'[b] = [failures |-> streak'[b].failures, last |-> streak'[b].last,
                            blocked |-> Wait(streak'[b].failures, streak'[b].last)]
      <4>1. L!Swept[a] # none => L!Swept[a].failures < MaxFailures
        BY <1>2
      <4>2. QED
        BY <1>1, <3>1, <4>1, FailedCounts
    <3>4. /\ buckets'[b].failures = streak'[b].failures
          /\ buckets'[b].last = streak'[b].last
          /\ buckets'[b].blocked = Wait(streak'[b].failures, streak'[b].last)
      BY <3>3
    <3>5. QED
      BY <3>2, <3>3, <3>4 DEF Kept, Aged, Wait
  <2>3. CASE b # a
    <3>1. buckets'[b] = L!Swept[b] /\ streak'[b] = streak[b]
      BY <1>2, <2>1, <2>3 DEF LimitInv, L!TypeOK
    <3>2. QED
      BY <1>2, <3>1, SweptKeeps DEF LimitInv, Kept, Aged, Wait
  <2>4. QED
    BY <2>2, <2>3
<1>7. QED
  BY <1>5, <1>6 DEF LimitInv

LEMMA RightStep == ASSUME LimitInv, NEW h \in Handlers, L!Right(h) PROVE LimitInv'
<1> DEFINE a == trying[h][1]  n == trying[h][2]
<1>1. a \in Addresses /\ n \in Names
  BY DEF LimitInv, L!TypeOK, L!Right
<1>2. /\ buckets' = [buckets EXCEPT ![a] = none, ![n] = none]
      /\ streak' = [streak EXCEPT ![a] = [failures |-> 0, last |-> 0]]
      /\ trying' = [trying EXCEPT ![h] = none]
      /\ now' = now
  BY DEF L!Right
<1> HIDE DEF a, n
<1>3. L!TypeOK'
  BY <1>1, <1>2, LimitsAssumption DEF LimitInv, L!TypeOK, L!Counts, L!Keys
<1>4. ASSUME NEW b \in Addresses PROVE Kept(b)' /\ Aged(b)'
  <2>1. CASE b = a
    <3>1. streak'[b].failures = 0 /\ buckets'[b] = none
      BY <1>1, <1>2, <2>1 DEF LimitInv, L!TypeOK, L!Keys
    <3>2. QED
      BY <3>1 DEF Kept, Aged
  <2>2. CASE b # a
    <3>1. streak'[b] = streak[b] /\ buckets'[b] = buckets[b]
      BY <1>1, <1>2, <2>2, LimitsAssumption DEF LimitInv, L!TypeOK, L!Keys
    <3>2. QED
      BY <1>2, <3>1 DEF LimitInv, Kept, Aged, Wait
  <2>3. QED
    BY <2>1, <2>2
<1>5. QED
  BY <1>3, <1>4 DEF LimitInv

LEMMA LimitNext == LimitInv /\ [L!Next]_L!vars => LimitInv'
<1> SUFFICES ASSUME LimitInv, [L!Next]_L!vars PROVE LimitInv'
  OBVIOUS
<1>1. CASE UNCHANGED L!vars
  BY <1>1 DEF L!vars, LimitInv, L!TypeOK, Kept, Aged, Wait
<1>2. QED
  BY <1>1, TickStep, AttemptStep, WrongStep, RightStep DEF L!Next

\* The invariant of the limiter, for any burst, window, backoff and threshold.
THEOREM LimitInvariance == L!Spec => []LimitInv
BY LimitInit, LimitNext, PTL DEF L!Spec

\* Who has not failed since the last success is let through under every name; who has
\* failed too often is not before the backoff is over (ratelimit.go:27).
THEOREM CleanAddressesPass == L!Spec => []OnlyOffendersWait
<1>1. ASSUME LimitInv PROVE OnlyOffendersWait
  <2> SUFFICES ASSUME NEW a \in Addresses, NEW n \in Names
               PROVE  /\ streak[a].failures = 0 => ~L!Refused(L!Swept, a, n)
                      /\ streak[a].failures > Burst
                           /\ now < streak[a].last + L!Backoff(streak[a].failures)
                         => L!Refused(L!Swept, a, n)
    BY DEF OnlyOffendersWait, L!OnlyOffendersWait
  <2>1. /\ streak[a] \in L!Counts /\ now \in Nat /\ Kept(a)
        /\ Wait(streak[a].failures, streak[a].last) \in Nat
    BY <1>1, WaitIsTime, LimitsAssumption DEF LimitInv, L!TypeOK
  <2>2. CASE L!Swept[a] = none
    BY <1>1, <2>1, <2>2, SweptKeeps, LimitsAssumption DEF L!Refused, L!Blocked, Wait, L!Counts
  <2>3. CASE L!Swept[a] # none
    BY <1>1, <2>1, <2>3, SweptKeeps, LimitsAssumption DEF L!Refused, L!Blocked, Wait, Kept, L!Counts
  <2>4. QED
    BY <2>2, <2>3
<1>2. QED
  BY <1>1, LimitInvariance, PTL

-----------------------------------------------------------------------------
(* PlayTokens.  What a start has already settled, phase by phase: the rows  *)
(* it has dealt with, and when it may enforce.                              *)

Settled(e) == file[e] = none \/ file[e].token = memKey

Migrating == enforced = before /\ \A e \in rows : e \in todo \/ e \in lost \/ Settled(e)
Sweeping == enforced /\ \A e \in rows : Settled(e)
Serving == \A e \in rows : (before /\ e \in lost) \/ ~enforced \/ Settled(e)

TokenInv ==
    /\ K!TypeOK
    /\ step # "down" => memKey > 0
    /\ step \in {"migrate", "sweep", "up"} => (marker => enforced)
    /\ step = "migrate" => Migrating
    /\ step = "sweep" => Sweeping
    /\ step = "up" => Serving

LEMMA SignedIsFile ==
  ASSUME NEW form \in {"play", "stream"}, NEW k \in 0 .. MaxKeys
  PROVE  /\ K!Signed(form, k) \in K!Files /\ K!Signed(form, k).token = k
         /\ K!Signed(form, k) # none
<1>1. K!Signed(form, k) \in K!Files /\ K!Signed(form, k).token = k
  BY DEF K!Signed, K!Files
<1>2. QED
  BY <1>1, TokensAssumption

LEMMA KeysAreBounded ==
  ASSUME K!TypeOK
  PROVE  /\ key \in 0 .. MaxKeys /\ keys \in 0 .. MaxKeys /\ memKey \in 0 .. MaxKeys
         /\ key <= keys /\ memKey <= keys
BY TokensAssumption DEF K!TypeOK

LEMMA TokenInit == K!Init => TokenInv
<1> SUFFICES ASSUME K!Init PROVE TokenInv
  OBVIOUS
<1>1. key \in {0, 1} /\ key \in 0 .. MaxKeys
  BY TokensAssumption DEF K!Init
<1>2. file \in [K!Entries -> K!Files \cup {none}]
  <2>1. {K!Signed("play", 0), K!Signed("stream", 0), K!Signed("play", key)} \subseteq K!Files
    BY <1>1, SignedIsFile, TokensAssumption
  <2>2. [form |-> "stream", token |-> key, repeated |-> key = 1] \in K!Files
    BY <1>1 DEF K!Files
  <2>3. file \in [K!Entries -> {none, K!Signed("play", 0), K!Signed("stream", 0), K!Signed("play", key),
                                [form |-> "stream", token |-> key, repeated |-> key = 1]}]
    BY DEF K!Init
  <2>4. QED
    BY <2>1, <2>2, <2>3
<1>3. /\ keys = key /\ memKey = 0 /\ marker \in BOOLEAN /\ rows \subseteq K!Entries
      /\ enforced = FALSE /\ before = FALSE /\ todo = {} /\ lost = {} /\ step = "down"
  BY <1>1 DEF K!Init
<1>4. key \in 0 .. MaxKeys /\ keys \in key .. MaxKeys /\ memKey \in 0 .. keys
  BY <1>1, <1>3, TokensAssumption
<1>5. K!TypeOK
  BY <1>2, <1>3, <1>4 DEF K!TypeOK
<1>6. QED
  BY <1>3, <1>5 DEF TokenInv

LEMMA LoadKeyStep == ASSUME TokenInv, K!LoadKey PROVE TokenInv'
<1>1. key' \in 1 .. MaxKeys /\ keys' \in key' .. MaxKeys /\ memKey' = key' /\ step' = "start"
  <2>1. CASE key = 0
    <3>1. keys < MaxKeys /\ keys' = keys + 1 /\ key' = keys' /\ memKey' = key' /\ step' = "start"
      BY <2>1 DEF K!LoadKey
    <3>2. QED
      BY <3>1, KeysAreBounded, TokensAssumption DEF TokenInv
  <2>2. CASE key # 0
    <3>1. keys' = keys /\ key' = key /\ memKey' = key' /\ step' = "start"
      BY <2>2 DEF K!LoadKey
    <3>2. QED
      BY <2>2, <3>1, KeysAreBounded, TokensAssumption DEF TokenInv
  <2>3. QED
    BY <2>1, <2>2
<1>2. key' \in 0 .. MaxKeys /\ memKey' \in 0 .. keys' /\ memKey' > 0
  BY <1>1, TokensAssumption
<1>3. K!TypeOK'
  BY <1>1, <1>2 DEF TokenInv, K!TypeOK, K!LoadKey
<1>4. QED
  BY <1>1, <1>2, <1>3 DEF TokenInv

LEMMA ReadMarkerStep == ASSUME TokenInv, K!ReadMarker PROVE TokenInv'
<1> USE DEF TokenInv, K!ReadMarker, K!settings
<1>1. K!TypeOK'
  BY DEF K!TypeOK
<1>2. /\ step' \in {"migrate", "up"} /\ memKey' > 0 /\ enforced' = before'
      /\ marker' => enforced'
  OBVIOUS
<1>3. step' = "migrate" => Migrating'
  BY <1>2 DEF Migrating
<1>4. step' = "up" => Serving'
  BY <1>2 DEF Serving
<1>5. QED
  BY <1>1, <1>2, <1>3, <1>4

LEMMA MigrateRowStep == ASSUME TokenInv, NEW e \in K!Entries, K!MigrateRow(e) PROVE TokenInv'
<1> USE DEF TokenInv
<1>1. /\ step = "migrate" /\ step' = step /\ todo' = todo \ {e}
      /\ UNCHANGED <<key, keys, marker, rows, memKey, enforced, before>>
      /\ \/ file' = [file EXCEPT ![e] = K!Signed("play", memKey)] /\ lost' = lost
         \/ lost' = lost \cup {e} /\ file' = file
  BY DEF K!MigrateRow, K!settings
<1>2. K!TypeOK'
  BY <1>1, KeysAreBounded, SignedIsFile DEF K!TypeOK
<1>3. ASSUME NEW d \in rows PROVE d \in todo' \/ d \in lost' \/ Settled(d)'
  <2>1. d \in K!Entries /\ (d \in todo \/ d \in lost \/ Settled(d))
    BY <1>1 DEF K!TypeOK, Migrating
  <2>2. CASE d # e
    BY <1>1, <2>1, <2>2 DEF K!TypeOK, Settled
  <2>3. CASE d = e
    BY <1>1, <2>1, <2>3, KeysAreBounded, SignedIsFile DEF K!TypeOK, Settled
  <2>4. QED
    BY <2>2, <2>3
<1>4. Migrating'
  BY <1>1, <1>3 DEF Migrating
<1>5. QED
  BY <1>1, <1>2, <1>4

\* Enforcement begins when no row was lost, hence when every row is settled.
LEMMA MigratedStep == ASSUME TokenInv, K!Migrated PROVE TokenInv'
<1> USE DEF TokenInv
<1>1. /\ step = "migrate" /\ todo = {} /\ Migrating /\ marker' \in BOOLEAN
      /\ UNCHANGED <<key, keys, rows, file, memKey, before, lost>>
  BY DEF K!Migrated, K!TypeOK
<1>2. CASE lost = {}
  <2>1. enforced' = TRUE /\ step' = "sweep" /\ todo' \subseteq K!Entries
    BY <1>2 DEF K!Migrated, K!AllRewritten
  <2>2. K!TypeOK'
    BY <1>1, <2>1 DEF K!TypeOK
  <2>3. Sweeping'
    BY <1>1, <1>2, <2>1 DEF Migrating, Sweeping, Settled
  <2>4. QED
    BY <1>1, <2>1, <2>2, <2>3
<1>3. CASE lost # {}
  <2>1. step' = "up" /\ UNCHANGED <<enforced, marker, todo>>
    BY <1>3 DEF K!Migrated, K!AllRewritten
  <2>2. K!TypeOK'
    BY <1>1, <2>1 DEF K!TypeOK
  <2>3. Serving'
    BY <1>1, <2>1 DEF Migrating, Serving, Settled
  <2>4. QED
    BY <1>1, <2>1, <2>2, <2>3
<1>4. QED
  BY <1>2, <1>3

\* The sweep leaves a token that is there as it is.
LEMMA SweepFileStep == ASSUME TokenInv, NEW e \in K!Entries, K!SweepFile(e) PROVE TokenInv'
<1> USE DEF TokenInv
<1>1. /\ step = "sweep" /\ step' = step /\ todo' \subseteq K!Entries /\ memKey > 0
      /\ UNCHANGED <<key, keys, marker, rows, memKey, enforced, before, lost>>
  BY DEF K!SweepFile, K!settings, K!TypeOK
<1>2. CASE file' = file
  BY <1>1, <1>2 DEF K!TypeOK, Sweeping, Settled
<1>3. CASE file[e] # none /\ file' = [file EXCEPT ![e] = K!SweptFile(e)]
  <2>1. file[e] \in K!Files
    BY <1>3 DEF K!TypeOK
  <2>2. K!SweptFile(e) \in K!Files
    <3>1. CASE file[e].token # 0
      BY <2>1, <3>1 DEF K!SweptFile, K!Files
    <3>2. CASE file[e].token = 0
      BY <2>1, <3>2, KeysAreBounded, SignedIsFile DEF K!SweptFile
    <3>3. QED
      BY <3>1, <3>2
  <2>3. file[e].token = memKey => K!SweptFile(e).token = memKey
    BY <1>1, <2>1, KeysAreBounded DEF K!SweptFile, K!Files
  <2>4. K!TypeOK'
    BY <1>1, <1>3, <2>2 DEF K!TypeOK
  <2>5. Sweeping'
    <3> SUFFICES ASSUME NEW d \in rows PROVE Settled(d)'
      BY <1>1 DEF Sweeping
    <3>1. d \in K!Entries /\ Settled(d)
      BY <1>1 DEF K!TypeOK, Sweeping
    <3>2. QED
      BY <1>1, <1>3, <2>3, <3>1 DEF K!TypeOK, Settled
  <2>6. QED
    BY <1>1, <2>4, <2>5
<1>4. QED
  BY <1>2, <1>3 DEF K!SweepFile

LEMMA ProcessTokenStep ==
  ASSUME TokenInv, K!Started \/ K!Stop \/ K!Rotate
  PROVE  TokenInv'
<1> USE DEF TokenInv, K!process, K!settings
<1>1. /\ K!TypeOK' /\ UNCHANGED <<marker, rows, file, memKey, enforced, before, todo, lost>>
      /\ \/ step = "sweep" /\ step' = "up"
         \/ step' = "down"
         \/ step' = step
  <2>1. CASE K!Started \/ K!Stop
    BY <2>1 DEF K!Started, K!Stop, K!TypeOK
  <2>2. CASE K!Rotate
    <3>1. key' \in 0 .. MaxKeys /\ keys' \in key' .. MaxKeys /\ memKey \in 0 .. keys'
      BY <2>2, KeysAreBounded, TokensAssumption DEF K!Rotate
    <3>2. QED
      BY <2>2, <3>1 DEF K!Rotate, K!TypeOK
  <2>3. QED
    BY <2>1, <2>2
<1>2. QED
  BY <1>1 DEF Migrating, Sweeping, Serving, Settled

LEMMA EntryStep ==
  ASSUME TokenInv, NEW e \in K!Entries, K!AddEntry(e) \/ K!LoseRow(e) \/ K!LoseFile(e)
  PROVE  TokenInv'
<1> USE DEF TokenInv, K!process, K!settings
<1>1. CASE K!AddEntry(e)
  <2>1. /\ step # "down" /\ step' = step /\ rows' = rows \cup {e}
        /\ lost' = IF step = "up" THEN lost \ {e} ELSE lost
        /\ file' = [file EXCEPT ![e] = K!Signed("play", memKey)]
        /\ UNCHANGED <<key, keys, marker, memKey, enforced, before, todo>>
    BY <1>1 DEF K!AddEntry
  <2>2. K!TypeOK'
    BY <2>1, KeysAreBounded, SignedIsFile DEF K!TypeOK
  <2>3. Settled(e)'
    BY <2>1, KeysAreBounded, SignedIsFile DEF K!TypeOK, Settled
  <2>4. \A d \in rows \ {e} : d \in K!Entries /\ file'[d] = file[d]
    BY <2>1 DEF K!TypeOK
  <2>5. \A d \in rows' : d = e \/ (d \in rows /\ (Settled(d) => Settled(d)'))
    BY <2>1, <2>4 DEF Settled
  <2>6. step = "up" => Serving'
    BY <2>1, <2>3, <2>5 DEF Serving
  <2>7. step = "migrate" => Migrating'
    BY <2>1, <2>3, <2>5 DEF Migrating
  <2>8. step = "sweep" => Sweeping'
    BY <2>1, <2>3, <2>5 DEF Sweeping
  <2>9. QED
    BY <2>1, <2>2, <2>6, <2>7, <2>8
<1>2. CASE K!LoseRow(e)
  BY <1>2 DEF K!LoseRow, K!TypeOK, Serving, Settled
<1>3. CASE K!LoseFile(e)
  <2>1. K!TypeOK' /\ \A d \in K!Entries : Settled(d) => Settled(d)'
    BY <1>3 DEF K!LoseFile, K!TypeOK, Settled
  <2>2. QED
    BY <1>3, <2>1 DEF K!LoseFile, K!TypeOK, Migrating, Sweeping, Serving
<1>4. QED
  BY <1>1, <1>2, <1>3

LEMMA TokenNext == TokenInv /\ [K!Next]_K!vars => TokenInv'
<1> SUFFICES ASSUME TokenInv, [K!Next]_K!vars PROVE TokenInv'
  OBVIOUS
<1>1. CASE UNCHANGED K!vars
  BY <1>1 DEF K!vars, TokenInv, K!TypeOK, Migrating, Sweeping, Serving, Settled
<1>2. QED
  BY <1>1, LoadKeyStep, ReadMarkerStep, MigrateRowStep, MigratedStep, SweepFileStep,
     ProcessTokenStep, EntryStep DEF K!Next

\* The invariant of a start, for any titles and any number of keys.
THEOREM TokenInvariance == K!Spec => []TokenInv
BY TokenInit, TokenNext, PTL DEF K!Spec

\* Once the service is up the file of every row plays, whatever happened to keys, files
\* and earlier starts (helpers.go:174).
THEOREM LibraryPlays == K!Spec => []LibraryKeepsPlaying
<1>1. TokenInv => LibraryKeepsPlaying
  BY DEF TokenInv, Serving, Settled, LibraryKeepsPlaying, K!LibraryKeepsPlaying, K!Accepted
<1>2. QED
  BY <1>1, TokenInvariance, PTL

-----------------------------------------------------------------------------
(* PackFiles.  The torrent's files come one by one, and with each of them   *)
(* the largest of those that match is still one of them (Represented).      *)

Represented ==
    (\E i \in DOMAIN files : F!MatchesName(files[i])) => F!LargestNamed(files) # {}

LEMMA FileCount == ASSUME NEW S PROVE F!Cardinality(S) = Cardinality(S)
BY DEF F!Cardinality, Cardinality

\* What the answer says of the torrent; Shown is the file it names.
Shown(i) == chosen.index = F!Id(i)

Answered ==
    /\ chosen \in [index : 0 .. MaxFiles, matched : BOOLEAN]
    /\ chosen.matched =>
          \/ \E i \in F!LargestNamed(files) : Shown(i)
          \/ \E i \in F!UniqueInPath(files) : Shown(i)
          \/ F!Cardinality(F!Videos(files)) = 1
    /\ F!LargestNamed(files) # {} => chosen.matched

FileInv ==
    /\ folder \in Folders /\ first \in {0, 1} /\ files \in Seq(Contents)
    /\ Len(files) <= MaxFiles
    /\ Represented
    /\ Answered

\* The answer of each pass.
LEMMA Passes ==
  ASSUME NEW fs
  PROVE  /\ F!LargestNamed(fs) # {} =>
              \E i \in F!LargestNamed(fs) :
                  F!EpisodeFileIndex(fs) = [index |-> F!Id(i), matched |-> TRUE]
         /\ F!LargestNamed(fs) = {} /\ F!UniqueInPath(fs) # {} =>
              \E i \in F!UniqueInPath(fs) :
                  F!EpisodeFileIndex(fs) = [index |-> F!Id(i), matched |-> TRUE]
         /\ F!LargestNamed(fs) = {} /\ F!UniqueInPath(fs) = {} /\ F!Cardinality(F!Videos(fs)) = 1 =>
              F!EpisodeFileIndex(fs) = F!Sure(F!Videos(fs))
         /\ F!LargestNamed(fs) = {} /\ F!UniqueInPath(fs) = {} /\ F!Cardinality(F!Videos(fs)) # 1 =>
              F!EpisodeFileIndex(fs) = [index |-> F!BestFileIndex(fs), matched |-> FALSE]
<1>1. ASSUME NEW S, S # {} PROVE \E i \in S : F!Sure(S) = [index |-> F!Id(i), matched |-> TRUE]
  BY <1>1 DEF F!Sure
<1>2. CASE F!LargestNamed(fs) # {}
  BY <1>1, <1>2 DEF F!EpisodeFileIndex
<1>3. CASE F!LargestNamed(fs) = {} /\ F!UniqueInPath(fs) # {}
  BY <1>1, <1>3 DEF F!EpisodeFileIndex
<1>4. CASE F!LargestNamed(fs) = {} /\ F!UniqueInPath(fs) = {}
  BY <1>4 DEF F!EpisodeFileIndex
<1>5. QED
  BY <1>2, <1>3, <1>4

\* One more file: the largest match is it, or the one that was.
LEMMA OneMoreMatch ==
  ASSUME NEW fs \in Seq(Contents), NEW f \in Contents,
         (\E i \in DOMAIN fs : F!MatchesName(fs[i])) => F!LargestNamed(fs) # {},
         \E i \in DOMAIN Append(fs, f) : F!MatchesName(Append(fs, f)[i])
  PROVE  F!LargestNamed(Append(fs, f)) # {}
<1> DEFINE gs == Append(fs, f)  last == Len(fs) + 1
<1>1. /\ gs \in Seq(Contents) /\ DOMAIN gs = 1 .. last /\ DOMAIN fs = 1 .. Len(fs) /\ Len(fs) \in Nat
      /\ gs[last] = f /\ \A i \in DOMAIN fs : gs[i] = fs[i]
  OBVIOUS
<1>2. \A i \in DOMAIN gs : gs[i].size \in Nat
  BY <1>1, FilesAssumption
<1> HIDE DEF gs, last
<1>3. CASE F!LargestNamed(fs) = {}
  <2>1. \A i \in DOMAIN gs : F!MatchesName(gs[i]) => i = last
    BY <1>1, <1>3 DEF last
  <2>2. last \in F!LargestNamed(gs)
    BY <1>1, <1>2, <2>1 DEF F!LargestNamed, gs, last
  <2>3. QED
    BY <2>2 DEF gs
<1>4. CASE F!LargestNamed(fs) # {}
  <2>1. PICK i \in DOMAIN fs :
          /\ F!MatchesName(fs[i])
          /\ \A k \in DOMAIN fs : F!MatchesName(fs[k]) =>
                fs[k].size < fs[i].size \/ (fs[k].size = fs[i].size /\ k >= i)
    BY <1>4 DEF F!LargestNamed
  <2>2. i \in DOMAIN gs /\ last \in DOMAIN gs /\ i \in Nat /\ last >= i
    BY <1>1, <2>1 DEF last
  <2>3. CASE F!MatchesName(f) /\ f.size > fs[i].size
    <3>1. \A k \in DOMAIN gs : F!MatchesName(gs[k]) => gs[k].size < f.size \/ k = last
      BY <1>1, <1>2, <2>1, <2>2, <2>3 DEF last
    <3>2. last \in F!LargestNamed(gs)
      BY <1>1, <1>2, <2>2, <2>3, <3>1 DEF F!LargestNamed, last
    <3>3. QED
      BY <3>2 DEF gs
  <2>4. CASE ~(F!MatchesName(f) /\ f.size > fs[i].size)
    <3>1. \A k \in DOMAIN gs : F!MatchesName(gs[k]) =>
              gs[k].size < gs[i].size \/ (gs[k].size = gs[i].size /\ k >= i)
      BY <1>1, <1>2, <2>1, <2>2, <2>4 DEF last
    <3>2. i \in F!LargestNamed(gs)
      BY <1>1, <2>1, <2>2, <3>1 DEF F!LargestNamed
    <3>3. QED
      BY <3>2 DEF gs
  <2>5. QED
    BY <2>3, <2>4
<1>5. QED
  BY <1>3, <1>4

\* BestFileIndex is the id of a file, or 0.
LEMMA BestIsFile ==
  ASSUME NEW fs \in Seq(Contents)
  PROVE  F!BestFileIndex(fs) = 0 \/ \E i \in 1 .. Len(fs) : F!BestFileIndex(fs) = F!Id(i)
<1> DEFINE best == {i \in 1 .. Len(fs) : fs[i].size > 0 /\ \A k \in DOMAIN fs : fs[k].size <= fs[i].size}
<1>1. F!BestFileIndex(fs) = LET i == IF best # {} THEN F!Min(best) ELSE 0 IN IF i = 0 THEN 0 ELSE F!Id(i)
  BY DEF F!BestFileIndex, F!SelectInSeq
<1>2. best \subseteq Nat
  OBVIOUS
<1> HIDE DEF best
<1>3. best # {} => F!Min(best) \in best
  BY <1>2, LeastOfSet DEF F!Min
<1>4. QED
  BY <1>1, <1>3 DEF best

LEMMA FileInit == F!Init => FileInv
<1> SUFFICES ASSUME F!Init PROVE FileInv
  OBVIOUS
<1>1. files = <<>> /\ Len(files) = 0 /\ DOMAIN files = {}
  BY DEF F!Init
<1>2. chosen = [index |-> 0, matched |-> FALSE] /\ F!LargestNamed(files) = {}
  BY <1>1 DEF F!Init, F!LargestNamed
<1>3. Answered
  BY <1>2, FilesAssumption DEF Answered
<1>4. QED
  BY <1>1, <1>3, FilesAssumption DEF F!Init, FileInv, Represented

LEMMA FileNext == FileInv /\ [F!Next]_F!vars => FileInv'
<1> SUFFICES ASSUME FileInv, [F!Next]_F!vars PROVE FileInv'
  OBVIOUS
<1>1. ASSUME NEW f \in Contents, F!List(f) PROVE FileInv'
  <2>1. /\ Len(files) < MaxFiles /\ files' = Append(files, f) /\ folder' = folder /\ first' = first
        /\ files' \in Seq(Contents) /\ Len(files') = Len(files) + 1 /\ DOMAIN files' = 1 .. Len(files')
        /\ chosen' = F!EpisodeFileIndex(files')
    BY <1>1 DEF F!List, FileInv
  <2>2. Represented'
    BY <2>1, OneMoreMatch DEF FileInv, Represented
  <2>3. F!LargestNamed(files)' = F!LargestNamed(files') /\ F!Videos(files)' = F!Videos(files')
    BY DEF F!LargestNamed, F!MatchesName, F!Named, F!Videos
  <2>4. F!UniqueInPath(files)' = F!UniqueInPath(files')
    BY <2>1 DEF F!UniqueInPath, F!MatchesPath, F!InPath
  <2>5. \A i : F!Id(i)' = F!Id(i)
    BY <2>1 DEF F!Id
  <2>6. Answered'
    <3>1. \A i \in DOMAIN files' : F!Id(i) \in 0 .. MaxFiles
      BY <2>1, FilesAssumption DEF F!Id, FileInv
    <3>2. /\ F!LargestNamed(files') \subseteq DOMAIN files'
          /\ F!UniqueInPath(files') \subseteq DOMAIN files'
          /\ F!Videos(files') \subseteq DOMAIN files'
      BY DEF F!LargestNamed, F!UniqueInPath, F!Videos
    <3>3. CASE F!LargestNamed(files') # {}
      <4>1. PICK i \in F!LargestNamed(files') : chosen' = [index |-> F!Id(i), matched |-> TRUE]
        BY <2>1, <3>3, Passes
      <4>2. QED
        BY <2>3, <2>5, <3>1, <3>2, <4>1 DEF Answered, Shown
    <3>4. CASE F!LargestNamed(files') = {} /\ F!UniqueInPath(files') # {}
      <4>1. PICK i \in F!UniqueInPath(files') : chosen' = [index |-> F!Id(i), matched |-> TRUE]
        BY <2>1, <3>4, Passes
      <4>2. QED
        BY <2>3, <2>4, <2>5, <3>1, <3>2, <3>4, <4>1 DEF Answered, Shown
    <3>5. CASE F!LargestNamed(files') = {} /\ F!UniqueInPath(files') = {}
      <4>1. CASE F!Cardinality(F!Videos(files')) = 1
        <5>1. F!Videos(files') # {}
          BY <4>1, FileCount, FS_EmptySet
        <5>2. PICK i \in F!Videos(files') : chosen' = [index |-> F!Id(i), matched |-> TRUE]
          BY <2>1, <3>5, <4>1, <5>1, Passes DEF F!Sure
        <5>3. QED
          BY <2>3, <2>5, <3>1, <3>2, <3>5, <4>1, <5>2 DEF Answered, Shown
      <4>2. CASE F!Cardinality(F!Videos(files')) # 1
        <5>1. chosen' = [index |-> F!BestFileIndex(files'), matched |-> FALSE]
          BY <2>1, <3>5, <4>2, Passes
        <5>2. F!BestFileIndex(files') \in 0 .. MaxFiles
          <6>1. \A i \in 1 .. Len(files') : F!Id(i) \in 0 .. MaxFiles
            BY <2>1, <3>1
          <6>2. 0 \in 0 .. MaxFiles
            BY FilesAssumption
          <6>3. QED
            BY <2>1, <6>1, <6>2, BestIsFile
        <5>3. QED
          BY <2>3, <3>5, <5>1, <5>2 DEF Answered
      <4>3. QED
        BY <4>1, <4>2
    <3>6. QED
      BY <3>3, <3>4, <3>5
  <2>7. QED
    BY <2>1, <2>2, <2>6, FilesAssumption DEF FileInv
<1>2. CASE UNCHANGED F!vars
  <2>1. UNCHANGED <<folder, first, files, chosen>>
    BY <1>2 DEF F!vars
  <2>2. Represented'
    BY <2>1 DEF FileInv, Represented, F!LargestNamed, F!MatchesName, F!Named
  <2>3. Answered'
    BY <2>1 DEF FileInv, Answered, Shown, F!Id, F!LargestNamed, F!MatchesName, F!Named, F!UniqueInPath,
       F!MatchesPath, F!InPath, F!Videos
  <2>4. QED
    BY <2>1, <2>2, <2>3 DEF FileInv
<1>3. QED
  BY <1>1, <1>2 DEF F!Next

\* The invariant of the choice, for any files and folders.
THEOREM FileInvariance == F!Spec => []FileInv
BY FileInit, FileNext, PTL DEF F!Spec

\* In a well made torrent with several videos, a file that is sure to be the one is.
LEMMA SureIsRight ==
  ASSUME FileInv, F!WellMade, Cardinality(F!Videos(files)) > 1, F!Playable
  PROVE  LET f == files[chosen.index - first + 1]
         IN  Asked \in f.holds /\ f.video /\ ~f.sample
<1> USE DEF FileInv
<1>1. /\ DOMAIN files = 1 .. Len(files) /\ Len(files) \in Nat
      /\ \A i \in DOMAIN files : files[i] \in Contents
  OBVIOUS
<1>2. \A i \in DOMAIN files :
        /\ files[i].size \in Nat /\ files[i].told \in {"name", "dir", "no"}
        /\ files[i].video \in BOOLEAN /\ files[i].sample \in BOOLEAN
  BY <1>1, FilesAssumption
<1>3. \A i \in DOMAIN files : Shown(i) => chosen.index - first + 1 = i
  BY <1>1 DEF Shown, F!Id
<1>4. ASSUME NEW i \in F!LargestNamed(files), Shown(i)
      PROVE  Asked \in files[i].holds /\ files[i].video /\ ~files[i].sample
  <2>1. /\ i \in DOMAIN files /\ F!MatchesName(files[i])
        /\ \A k \in DOMAIN files : F!MatchesName(files[k]) => files[k].size <= files[i].size
    BY <1>2 DEF F!LargestNamed
  <2>2. files[i].told = "name" /\ Asked \in files[i].holds
    BY <2>1 DEF F!MatchesName, F!Named
  <2>3. ASSUME files[i].sample \/ ~files[i].video PROVE FALSE
    <3>1. PICK k \in DOMAIN files :
            /\ files[k].size > files[i].size
            /\ files[k].holds = files[i].holds /\ files[k].told = files[i].told
      BY <2>1, <2>3 DEF F!WellMade
    <3>2. F!MatchesName(files[k])
      BY <2>2, <3>1 DEF F!MatchesName, F!Named
    <3>3. QED
      BY <1>2, <2>1, <3>1, <3>2
  <2>4. QED
    BY <2>2, <2>3
<1>5. ASSUME NEW i \in F!UniqueInPath(files), Shown(i)
      PROVE  Asked \in files[i].holds /\ files[i].video /\ ~files[i].sample
  <2> DEFINE M == {k \in DOMAIN files : F!MatchesPath(files[k])}
  <2>1. i \in M /\ F!Cardinality(M) = 1
    BY DEF F!UniqueInPath
  <2>2. M \subseteq 1 .. Len(files)
    BY <1>1
  <2>h. HIDE DEF M
  <2>3. IsFiniteSet(1 .. Len(files))
    BY <1>1, FS_Interval
  <2>a. IsFiniteSet(M)
    BY <2>2, <2>3, FS_Subset
  <2>b. Cardinality(M) = 1
    BY <2>1 DEF F!Cardinality, Cardinality
  <2>c. PICK x : M = {x}
    BY <2>a, <2>b, FS_Singleton
  <2>d. M = {i}
    BY <2>1, <2>c
  <2>e. IsFiniteSet(M) /\ Cardinality(M) = 1
    BY <2>a, <2>b
  <2> USE DEF M
  <2>4. Asked \notin folder
    <3>1. SUFFICES ASSUME Asked \in folder PROVE FALSE
      OBVIOUS
    <3>2. F!Videos(files) \subseteq M
      BY <3>1 DEF F!Videos, F!MatchesPath, F!InPath
    <3>3. Cardinality(F!Videos(files)) <= 1
      BY <2>e, <3>2, FS_Subset
    <3>4. Cardinality(F!Videos(files)) \in Nat
      BY <2>e, <3>2, FS_Subset, FS_CardinalityType
    <3>5. QED
      BY <3>3, <3>4
  <2>5. files[i].told # "no" /\ Asked \in files[i].holds
    BY <2>1, <2>4 DEF F!MatchesPath, F!InPath
  <2>6. ASSUME files[i].sample \/ ~files[i].video PROVE FALSE
    <3>1. PICK k \in DOMAIN files :
            /\ files[k].size > files[i].size
            /\ files[k].holds = files[i].holds /\ files[k].told = files[i].told
      BY <2>1, <2>6 DEF F!WellMade
    <3>2. k \in M
      BY <2>5, <3>1 DEF F!MatchesPath, F!InPath
    <3>3. QED
      BY <1>2, <2>1, <2>d, <3>1, <3>2
  <2>7. QED
    BY <2>5, <2>6
<1>6. PICK i : i \in F!LargestNamed(files) \cup F!UniqueInPath(files) /\ Shown(i)
  <2>1. F!Cardinality(F!Videos(files)) # 1
    BY FileCount
  <2>2. QED
    BY <2>1 DEF Answered, F!Playable
<1>7. i \in DOMAIN files
  BY <1>6 DEF F!LargestNamed, F!UniqueInPath
<1>8. QED
  BY <1>3, <1>4, <1>5, <1>6, <1>7

\* The file that is streamed is the episode, and one that is named after it is found,
\* however many files there are and in whatever order (client.go:365).
THEOREM EpisodeIsStreamed == F!Spec => []RightFile
<1>1. ASSUME FileInv PROVE RightFile
  <2>1. SUFFICES ASSUME F!WellMade, F!Cardinality(F!Videos(files)) > 1
                 PROVE  /\ F!Playable =>
                               LET f == files[chosen.index - first + 1]
                               IN  Asked \in f.holds /\ f.video /\ ~f.sample
                        /\ (\E i \in DOMAIN files : F!MatchesName(files[i])) => chosen.matched
    BY DEF RightFile, F!RightFile
  <2>2. Cardinality(F!Videos(files)) > 1
    BY <2>1, FileCount
  <2>3. ASSUME \E i \in DOMAIN files : F!MatchesName(files[i]) PROVE chosen.matched
    <3>1. F!LargestNamed(files) # {}
      BY <1>1, <2>3 DEF FileInv, Represented
    <3>2. QED
      BY <1>1, <3>1 DEF FileInv, Answered
  <2>4. QED
    BY <1>1, <2>1, <2>2, <2>3, SureIsRight
<1>2. QED
  BY <1>1, FileInvariance, PTL

-----------------------------------------------------------------------------
(* Picker.  Every answer is picked from anew, so the invariant is the       *)
(* property itself, of both readers; the work is in the loops.  Keep and Sorted unfold       *)
(* (KeepIsALoop, SortIsALoop); the sort puts a judgement behind all that    *)
(* have as many points (Inserted), so it keeps equal ones in their order,   *)
(* and what is marked as the best stays ahead of all that is eligible       *)
(* (FirstIsMarked): it is the first candidate.                              *)

\* The greatest of a bounded set of numbers.
LEMMA GreatestOfSet ==
  ASSUME NEW b \in Nat, NEW S, S \subseteq 0 .. b, S # {}
  PROVE  R!Max(S) \in S /\ \A y \in S : R!Max(S) >= y
<1> DEFINE D == {b - x : x \in S}
<1>1. D \subseteq Nat /\ D # {}
  <2>1. \A x \in S : b - x \in Nat
    OBVIOUS
  <2>2. QED
    BY <2>1
<1>2. PICK d \in D : \A e \in D : d <= e
  <2> HIDE DEF D
  <2>1. QED
    BY <1>1, LeastOfSet
<1>3. PICK x \in S : d = b - x
  OBVIOUS
<1>4. \A y \in S : x >= y
  <2>1. ASSUME NEW y \in S PROVE x >= y
    <3>1. b - y \in D
      OBVIOUS
    <3>2. b - x <= b - y
      BY <1>2, <1>3, <3>1
    <3>3. x \in 0 .. b /\ y \in 0 .. b
      OBVIOUS
    <3>4. QED
      BY <3>2, <3>3
  <2>2. QED
    BY <2>1
<1>5. QED
  BY <1>3, <1>4 DEF R!Max

\* The loops unfold.
LEMMA KeepIsALoop ==
  ASSUME NEW s, Len(s) \in Nat, NEW ids
  PROVE  \E f : /\ f = [n \in 0 .. Len(s) |->
                          IF n = 0 THEN <<>> ELSE IF n \in ids THEN Append(f[n - 1], s[n]) ELSE f[n - 1]]
                /\ R!Keep(s, ids) = f[Len(s)]
<1> DEFINE Unfolds(f, m) == f = [n \in 0 .. m |-> IF n = 0 THEN <<>> ELSE IF n \in ids THEN Append(f[n - 1], s[n]) ELSE f[n - 1]]
           S == {m \in Nat : \E f : Unfolds(f, m)}
<1>1. 0 \in S
  <2>1. Unfolds([n \in 0 .. 0 |-> <<>>], 0)
    OBVIOUS
  <2>2. QED
    BY <2>1
<1>2. ASSUME NEW m \in 1 .. Len(s), m - 1 \in S PROVE m \in S
  <2>1. PICK g : Unfolds(g, m - 1)
    BY <1>2
  <2> DEFINE longer == [n \in 0 .. m |-> IF n < m THEN g[n] ELSE IF n \in ids THEN Append(g[n - 1], s[n]) ELSE g[n - 1]]
  <2>2. \A n \in 0 .. m - 1 : g[n] = IF n = 0 THEN <<>> ELSE IF n \in ids THEN Append(g[n - 1], s[n]) ELSE g[n - 1]
    BY <2>1
  <2>3. \A n \in 0 .. m : longer[n] = IF n = 0 THEN <<>> ELSE IF n \in ids THEN Append(longer[n - 1], s[n]) ELSE longer[n - 1]
    BY <2>2
  <2>4. longer = [n \in 0 .. m |-> longer[n]]
    OBVIOUS
  <2>5. Unfolds(longer, m)
    <3> HIDE DEF longer
    <3>1. [n \in 0 .. m |-> longer[n]] =
              [n \in 0 .. m |-> IF n = 0 THEN <<>> ELSE IF n \in ids THEN Append(longer[n - 1], s[n]) ELSE longer[n - 1]]
      BY <2>3, Zenon
    <3>2. QED
      BY <2>4, <3>1, Zenon
  <2>6. QED
    <3> HIDE DEF longer, Unfolds
    <3>1. m \in Nat
      OBVIOUS
    <3>2. QED
      BY <2>5, <3>1
<1>3. \A m \in 0 .. Len(s) : m \in S
  <2> HIDE DEF S
  <2>1. QED
    BY <1>1, <1>2, AllUpTo
<1>4. \E f : Unfolds(f, Len(s))
  <2> HIDE DEF Unfolds
  <2>1. Len(s) \in S
    BY <1>3
  <2>2. QED
    BY <2>1
<1>5. QED
  BY <1>4 DEF R!Keep

LEMMA SortIsALoop ==
  ASSUME NEW js, Len(js) \in Nat
  PROVE  \E f : /\ f = [n \in 0 .. Len(js) |->
                          IF n = 0 THEN <<>> ELSE R!Insert(f[n - 1], js[n])]
                /\ R!Sorted(js) = f[Len(js)]
<1> DEFINE Unfolds(f, m) == f = [n \in 0 .. m |-> IF n = 0 THEN <<>> ELSE R!Insert(f[n - 1], js[n])]
           S == {m \in Nat : \E f : Unfolds(f, m)}
<1>1. 0 \in S
  <2>1. Unfolds([n \in 0 .. 0 |-> <<>>], 0)
    OBVIOUS
  <2>2. QED
    BY <2>1
<1>2. ASSUME NEW m \in 1 .. Len(js), m - 1 \in S PROVE m \in S
  <2>1. PICK g : Unfolds(g, m - 1)
    BY <1>2
  <2> DEFINE longer == [n \in 0 .. m |-> IF n < m THEN g[n] ELSE R!Insert(g[n - 1], js[n])]
  <2>2. \A n \in 0 .. m - 1 : g[n] = IF n = 0 THEN <<>> ELSE R!Insert(g[n - 1], js[n])
    BY <2>1
  <2>3. \A n \in 0 .. m : longer[n] = IF n = 0 THEN <<>> ELSE R!Insert(longer[n - 1], js[n])
    BY <2>2
  <2>4. longer = [n \in 0 .. m |-> longer[n]]
    OBVIOUS
  <2>5. Unfolds(longer, m)
    <3> HIDE DEF longer
    <3>1. [n \in 0 .. m |-> longer[n]] =
              [n \in 0 .. m |-> IF n = 0 THEN <<>> ELSE R!Insert(longer[n - 1], js[n])]
      BY <2>3, Zenon
    <3>2. QED
      BY <2>4, <3>1, Zenon
  <2>6. QED
    <3> HIDE DEF longer, Unfolds
    <3>1. m \in Nat
      OBVIOUS
    <3>2. QED
      BY <2>5, <3>1
<1>3. \A m \in 0 .. Len(js) : m \in S
  <2> HIDE DEF S
  <2>1. QED
    BY <1>1, <1>2, AllUpTo
<1>4. \E f : Unfolds(f, Len(js))
  <2> HIDE DEF Unfolds
  <2>1. Len(js) \in S
    BY <1>3
  <2>2. QED
    BY <2>1
<1>5. QED
  BY <1>4 DEF R!Sorted

\* What is kept is what has an index in the set, in its order, the first of them first.
InOrder(t, s, n, ids) ==
    \A p, q \in 1 .. Len(t) : p < q =>
        \E i, k \in 1 .. n : i < k /\ i \in ids /\ k \in ids /\ t[p] = s[i] /\ t[q] = s[k]

KeptAs(t, s, ids) ==
    /\ {t[i] : i \in DOMAIN t} = {s[i] : i \in DOMAIN s \cap ids}
    /\ InOrder(t, s, Len(s), ids)
    /\ \A i \in DOMAIN s \cap ids :
          (\A k \in DOMAIN s \cap ids : i <= k) => t # <<>> /\ t[1] = s[i]

LEMMA KeepWorks ==
  ASSUME NEW S, NEW s \in Seq(S), NEW ids
  PROVE  R!Keep(s, ids) \in Seq(S) /\ KeptAs(R!Keep(s, ids), s, ids)
<1>0. Len(s) \in Nat /\ DOMAIN s = 1 .. Len(s) /\ \A i \in 1 .. Len(s) : s[i] \in S
  OBVIOUS
<1>1. PICK f : /\ f = [n \in 0 .. Len(s) |->
                          IF n = 0 THEN <<>> ELSE IF n \in ids THEN Append(f[n - 1], s[n]) ELSE f[n - 1]]
               /\ R!Keep(s, ids) = f[Len(s)]
  BY <1>0, KeepIsALoop
<1> DEFINE Good(n) ==
             /\ f[n] \in Seq(S)
             /\ \A x : (\E i \in 1 .. Len(f[n]) : f[n][i] = x) <=> (\E i \in 1 .. n : i \in ids /\ s[i] = x)
             /\ \A i \in 1 .. n : i \in ids /\ (\A k \in 1 .. n : k \in ids => i <= k) => f[n] # <<>> /\ f[n][1] = s[i]
             /\ InOrder(f[n], s, n, ids)
           N0 == {n \in 0 .. Len(s) : Good(n)}
<1>2. f[0] = <<>> /\ \A n \in 1 .. Len(s) : f[n] = IF n \in ids THEN Append(f[n - 1], s[n]) ELSE f[n - 1]
  <2>1. \A n \in 0 .. Len(s) : f[n] = IF n = 0 THEN <<>> ELSE IF n \in ids THEN Append(f[n - 1], s[n]) ELSE f[n - 1]
    BY <1>1
  <2>2. QED
    BY <1>0, <2>1
<1>3. 0 \in N0
  <2>1. Good(0)
    BY <1>2 DEF InOrder
  <2>2. QED
    <3> HIDE DEF Good
    <3>1. QED
      BY <1>0, <2>1
<1>4. ASSUME NEW n \in 1 .. Len(s), n - 1 \in N0 PROVE n \in N0
  <2> DEFINE t == f[n - 1]
  <2>1. Good(n - 1) /\ n - 1 \in 0 .. Len(s)
    <3> HIDE DEF Good
    <3>1. QED
      BY <1>4
  <2>2. t \in Seq(S) /\ Len(t) \in Nat /\ s[n] \in S
    BY <1>0, <2>1
  <2>3. CASE n \notin ids
    <3>1. f[n] = t
      BY <1>2, <2>3
    <3>2. \A i \in 1 .. n : i \in ids => i \in 1 .. n - 1
      BY <2>3
    <3>3. f[n] \in Seq(S)
      BY <2>2, <3>1
    <3>4. \A x : (\E i \in 1 .. Len(f[n]) : f[n][i] = x) <=> (\E i \in 1 .. n : i \in ids /\ s[i] = x)
      <4>1. \A x : (\E i \in 1 .. Len(t) : t[i] = x) <=> (\E i \in 1 .. n - 1 : i \in ids /\ s[i] = x)
        BY <2>1
      <4>2. \A x : (\E i \in 1 .. n : i \in ids /\ s[i] = x) <=> (\E i \in 1 .. n - 1 : i \in ids /\ s[i] = x)
        BY <3>2
      <4>3. QED
        BY <3>1, <4>1, <4>2
    <3>5. ASSUME NEW i \in 1 .. n, i \in ids, \A k \in 1 .. n : k \in ids => i <= k
          PROVE  f[n] # <<>> /\ f[n][1] = s[i]
      <4>1. i \in 1 .. n - 1 /\ \A k \in 1 .. n - 1 : k \in ids => i <= k
        BY <3>2, <3>5
      <4>2. t # <<>> /\ t[1] = s[i]
        BY <2>1, <3>5, <4>1
      <4>3. QED
        BY <3>1, <4>2
    <3>8. InOrder(f[n], s, n, ids)
      <4>1. InOrder(t, s, n - 1, ids)
        BY <2>1
      <4> HIDE DEF t
      <4> SUFFICES ASSUME NEW p \in 1 .. Len(t), NEW q \in 1 .. Len(t), p < q
                   PROVE  \E i, k \in 1 .. n : i < k /\ i \in ids /\ k \in ids /\ t[p] = s[i] /\ t[q] = s[k]
        BY <3>1 DEF InOrder
      <4>2. PICK i, k \in 1 .. n - 1 : i < k /\ i \in ids /\ k \in ids /\ t[p] = s[i] /\ t[q] = s[k]
        BY <4>1 DEF InOrder
      <4>3. i \in 1 .. n /\ k \in 1 .. n
        OBVIOUS
      <4>4. QED
        BY <4>2, <4>3
    <3>6. Good(n)
      BY <3>3, <3>4, <3>5, <3>8
    <3>7. QED
      <4> HIDE DEF Good
      <4>1. QED
        BY <3>6
  <2>4. CASE n \in ids
    <3>1. f[n] = Append(t, s[n])
      BY <1>2, <2>4
    <3>2. /\ f[n] \in Seq(S) /\ Len(f[n]) = Len(t) + 1 /\ f[n][Len(t) + 1] = s[n]
          /\ \A i \in 1 .. Len(t) : f[n][i] = t[i]
      <4> HIDE DEF t
      <4>1. QED
        BY <2>2, <3>1
    <3>3. \A x : (\E i \in 1 .. Len(f[n]) : f[n][i] = x) <=> (\E i \in 1 .. n : i \in ids /\ s[i] = x)
      <4>1. \A x : (\E i \in 1 .. Len(f[n]) : f[n][i] = x) <=> (x = s[n] \/ \E i \in 1 .. Len(t) : t[i] = x)
        <5> HIDE DEF t
        <5>1. QED
          BY <2>2, <3>2
      <4>2. \A x : (\E i \in 1 .. n : i \in ids /\ s[i] = x) <=> (x = s[n] \/ \E i \in 1 .. n - 1 : i \in ids /\ s[i] = x)
        BY <2>4
      <4>3. \A x : (\E i \in 1 .. Len(t) : t[i] = x) <=> (\E i \in 1 .. n - 1 : i \in ids /\ s[i] = x)
        BY <2>1
      <4>4. QED
        BY <4>1, <4>2, <4>3
    <3>4. ASSUME NEW i \in 1 .. n, i \in ids, \A k \in 1 .. n : k \in ids => i <= k
          PROVE  f[n] # <<>> /\ f[n][1] = s[i]
      <4>1. CASE i = n
        <5>1. ~\E k \in 1 .. n - 1 : k \in ids
          BY <3>4, <4>1
        <5>2. ~\E k \in 1 .. Len(t) : TRUE
          BY <2>1, <5>1
        <5>3. Len(t) = 0
          <6> HIDE DEF t
          <6>1. QED
            BY <2>2, <5>2
        <5>4. QED
          BY <3>2, <4>1, <5>3
      <4>2. CASE i # n
        <5>1. t # <<>> /\ t[1] = s[i]
          BY <2>1, <3>4, <4>2
        <5>2. 1 \in 1 .. Len(t)
          <6> HIDE DEF t
          <6>1. QED
            BY <2>2, <5>1
        <5>3. QED
          BY <3>2, <5>1, <5>2
      <4>3. QED
        BY <4>1, <4>2
    <3>7. InOrder(f[n], s, n, ids)
      <4>1. InOrder(t, s, n - 1, ids)
        BY <2>1
      <4>2. \A p \in 1 .. Len(t) : \E i \in 1 .. n - 1 : i \in ids /\ s[i] = t[p]
        <5>1. \A x : (\E i \in 1 .. Len(t) : t[i] = x) <=> (\E i \in 1 .. n - 1 : i \in ids /\ s[i] = x)
          BY <2>1
        <5>2. QED
          BY <5>1
      <4> HIDE DEF t
      <4> SUFFICES ASSUME NEW p \in 1 .. Len(f[n]), NEW q \in 1 .. Len(f[n]), p < q
                   PROVE  \E i, k \in 1 .. n : i < k /\ i \in ids /\ k \in ids /\ f[n][p] = s[i] /\ f[n][q] = s[k]
        BY DEF InOrder
      <4>3. p \in 1 .. Len(t) /\ f[n][p] = t[p]
        BY <2>2, <3>2
      <4>4. CASE q \in 1 .. Len(t)
        <5>1. f[n][q] = t[q]
          BY <3>2, <4>4
        <5>2. PICK i, k \in 1 .. n - 1 : i < k /\ i \in ids /\ k \in ids /\ t[p] = s[i] /\ t[q] = s[k]
          BY <4>1, <4>3, <4>4 DEF InOrder
        <5>3. i \in 1 .. n /\ k \in 1 .. n
          OBVIOUS
        <5>4. QED
          BY <4>3, <5>1, <5>2, <5>3
      <4>5. CASE q \notin 1 .. Len(t)
        <5>1. f[n][q] = s[n]
          BY <2>2, <3>2, <4>5
        <5>2. PICK i \in 1 .. n - 1 : i \in ids /\ s[i] = t[p]
          BY <4>2, <4>3
        <5>3. i \in 1 .. n /\ n \in 1 .. n /\ i < n
          OBVIOUS
        <5>4. QED
          BY <2>4, <4>3, <5>1, <5>2, <5>3
      <4>6. QED
        BY <4>4, <4>5
    <3>5. Good(n)
      BY <3>2, <3>3, <3>4, <3>7
    <3>6. QED
      <4> HIDE DEF Good
      <4>1. QED
        BY <3>5
  <2>5. QED
    BY <2>3, <2>4
<1>5. Good(Len(s))
  <2>1. \A n \in 0 .. Len(s) : n \in N0
    <3> HIDE DEF N0
    <3>1. QED
      BY <1>0, <1>3, <1>4, AllUpTo
  <2>2. QED
    <3> HIDE DEF Good
    <3>1. QED
      BY <1>0, <2>1
<1>6. QED
  <2> DEFINE t == R!Keep(s, ids)
  <2>1. t = f[Len(s)]
    BY <1>1
  <2> HIDE DEF t
  <2>2. /\ t \in Seq(S) /\ DOMAIN t = 1 .. Len(t)
        /\ \A x : (\E i \in DOMAIN t : t[i] = x) <=> (\E i \in 1 .. Len(s) : i \in ids /\ s[i] = x)
    <3>1. t \in Seq(S)
      BY <1>5, <2>1
    <3>2. DOMAIN t = 1 .. Len(t)
      BY <3>1
    <3>3. \A x : (\E i \in 1 .. Len(t) : t[i] = x) <=> (\E i \in 1 .. Len(s) : i \in ids /\ s[i] = x)
      BY <1>5, <2>1
    <3>4. QED
      BY <3>1, <3>2, <3>3
  <2>3. {t[i] : i \in DOMAIN t} = {s[i] : i \in DOMAIN s \cap ids}
    BY <1>0, <2>2
  <2>4. \A i \in DOMAIN s \cap ids : (\A k \in DOMAIN s \cap ids : i <= k) => t # <<>> /\ t[1] = s[i]
    BY <1>0, <1>5, <2>1
  <2>7. InOrder(t, s, Len(s), ids)
    BY <1>5, <2>1
  <2>5. t \in Seq(S) /\ KeptAs(t, s, ids)
    BY <2>2, <2>3, <2>4, <2>7 DEF KeptAs
  <2>6. QED
    BY <2>5 DEF t

LEMMA AtIndex ==
  ASSUME NEW t, NEW i, NEW j
  PROVE  R!InsertAt(t, i, j) = SubSeq(t, 1, i - 1) \o <<j>> \o SubSeq(t, i, Len(t))
BY DEF R!InsertAt

\* What is inserted stands behind all that has as many points, and before the rest.
LEMMA Inserted ==
  ASSUME NEW S, \A x \in S : x.score \in Int, NEW t \in Seq(S), NEW j \in S,
         \A p, q \in 1 .. Len(t) : p <= q => t[p].score >= t[q].score
  PROVE  \E m \in 0 .. Len(t) :
            /\ R!Insert(t, j) \in Seq(S) /\ Len(R!Insert(t, j)) = Len(t) + 1
            /\ \A p \in 1 .. m : R!Insert(t, j)[p] = t[p] /\ t[p].score >= j.score
            /\ R!Insert(t, j)[m + 1] = j
            /\ \A p \in m + 2 .. Len(t) + 1 : R!Insert(t, j)[p] = t[p - 1] /\ t[p - 1].score < j.score
<1> DEFINE above == {0} \cup {k \in DOMAIN t : t[k].score >= j.score}
           m == R!Max(above)
<1>1. Len(t) \in Nat /\ DOMAIN t = 1 .. Len(t) /\ j.score \in Int /\ \A p \in 1 .. Len(t) : t[p] \in S /\ t[p].score \in Int
  OBVIOUS
<1>2. above \subseteq 0 .. Len(t) /\ above # {}
  BY <1>1
<1>3. m \in above /\ \A y \in above : m >= y
  <2> HIDE DEF above
  <2>1. QED
    BY <1>1, <1>2, GreatestOfSet
<1>4. m \in 0 .. Len(t)
  BY <1>2, <1>3
<1>5. R!Insert(t, j) = SubSeq(t, 1, m) \o <<j>> \o SubSeq(t, m + 1, Len(t))
  <2>1. PICK i : i = m + 1
    OBVIOUS
  <2>2. i - 1 = m
    BY <1>4, <2>1
  <2>3. R!Insert(t, j) = R!InsertAt(t, i, j)
    BY <2>1 DEF R!Insert
  <2>4. R!InsertAt(t, i, j) = SubSeq(t, 1, i - 1) \o <<j>> \o SubSeq(t, i, Len(t))
    BY AtIndex
  <2>5. QED
    <3> HIDE DEF m
    <3>1. QED
      BY <2>1, <2>2, <2>3, <2>4
<1>6. \A p \in 1 .. m : t[p].score >= j.score
  <2>1. m # 0 => m \in 1 .. Len(t) /\ t[m].score >= j.score
    BY <1>1, <1>3
  <2>2. QED
    <3> HIDE DEF m
    <3>1. QED
      BY <1>1, <1>4, <2>1
<1>7. \A p \in m + 1 .. Len(t) : t[p].score < j.score
  <2> SUFFICES ASSUME NEW p \in m + 1 .. Len(t), t[p].score >= j.score PROVE FALSE
    BY <1>1, <1>4
  <2>1. p \in above /\ ~(m >= p)
    BY <1>1, <1>4
  <2>2. QED
    BY <1>3, <2>1
<1> HIDE DEF m, above
<1>8. /\ SubSeq(t, 1, m) \in Seq(S) /\ Len(SubSeq(t, 1, m)) = m /\ \A p \in 1 .. m : SubSeq(t, 1, m)[p] = t[p]
      /\ SubSeq(t, m + 1, Len(t)) \in Seq(S) /\ Len(SubSeq(t, m + 1, Len(t))) = Len(t) - m
      /\ \A p \in 1 .. Len(t) - m : SubSeq(t, m + 1, Len(t))[p] = t[p + m]
  <2>1. 1 \in Int /\ m \in Int /\ m + 1 \in Int /\ Len(t) \in Int
    BY <1>1, <1>4
  <2>2. /\ SubSeq(t, 1, m) \in Seq(S) /\ Len(SubSeq(t, 1, m)) = IF 1 <= m THEN m - 1 + 1 ELSE 0
        /\ \A p \in 1 .. m - 1 + 1 : SubSeq(t, 1, m)[p] = t[1 + p - 1]
    <3>1. \A p \in 1 .. m : t[p] \in S
      BY <1>1, <1>4
    <3>2. QED
      BY <2>1, <3>1, SubSeqProperties
  <2>3. /\ SubSeq(t, m + 1, Len(t)) \in Seq(S)
        /\ Len(SubSeq(t, m + 1, Len(t))) = IF m + 1 <= Len(t) THEN Len(t) - (m + 1) + 1 ELSE 0
        /\ \A p \in 1 .. Len(t) - (m + 1) + 1 : SubSeq(t, m + 1, Len(t))[p] = t[m + 1 + p - 1]
    <3>1. \A p \in m + 1 .. Len(t) : t[p] \in S
      BY <1>1, <1>4
    <3>2. QED
      BY <2>1, <3>1, SubSeqProperties
  <2>4. /\ Len(SubSeq(t, 1, m)) = m /\ m - 1 + 1 = m
        /\ Len(SubSeq(t, m + 1, Len(t))) = Len(t) - m /\ Len(t) - (m + 1) + 1 = Len(t) - m
    <3>1. Len(SubSeq(t, 1, m)) = IF 1 <= m THEN m - 1 + 1 ELSE 0
      BY <2>2
    <3>2. Len(SubSeq(t, m + 1, Len(t))) = IF m + 1 <= Len(t) THEN Len(t) - (m + 1) + 1 ELSE 0
      BY <2>3
    <3>3. m \in Nat /\ Len(t) \in Nat /\ m <= Len(t)
      BY <1>1, <1>4
    <3>4. QED
      BY <3>1, <3>2, <3>3
  <2>6. \A p \in 1 .. m : SubSeq(t, 1, m)[p] = t[p]
    <3> SUFFICES ASSUME NEW p \in 1 .. m PROVE SubSeq(t, 1, m)[p] = t[p]
      OBVIOUS
    <3>1. p \in 1 .. m - 1 + 1 /\ 1 + p - 1 = p
      BY <2>1
    <3>2. SubSeq(t, 1, m)[p] = t[1 + p - 1]
      BY <2>2, <3>1
    <3>3. QED
      BY <3>1, <3>2
  <2>7. \A p \in 1 .. Len(t) - m : SubSeq(t, m + 1, Len(t))[p] = t[p + m]
    <3> SUFFICES ASSUME NEW p \in 1 .. Len(t) - m PROVE SubSeq(t, m + 1, Len(t))[p] = t[p + m]
      OBVIOUS
    <3>1. p \in 1 .. Len(t) - (m + 1) + 1 /\ m + 1 + p - 1 = p + m
      BY <2>1
    <3>2. SubSeq(t, m + 1, Len(t))[p] = t[m + 1 + p - 1]
      BY <2>3, <3>1
    <3>3. QED
      BY <3>1, <3>2
  <2>8. QED
    BY <2>2, <2>3, <2>4, <2>6, <2>7
<1> DEFINE a == SubSeq(t, 1, m)  c == SubSeq(t, m + 1, Len(t))  u == a \o <<j>> \o c
<1>9. /\ a \in Seq(S) /\ Len(a) = m /\ c \in Seq(S) /\ Len(c) = Len(t) - m
  BY <1>8
<1>10. /\ u \in Seq(S) /\ Len(u) = Len(t) + 1
       /\ \A p \in 1 .. m : u[p] = a[p]
       /\ u[m + 1] = j
       /\ \A p \in m + 2 .. Len(t) + 1 : u[p] = c[p - m - 1]
  <2> HIDE DEF a, c
  <2> DEFINE b == a \o <<j>>
  <2>1. b \in Seq(S) /\ Len(b) = m + 1 /\ b[m + 1] = j /\ \A p \in 1 .. m : b[p] = a[p]
    <3>1. a \in Seq(S) /\ Len(a) = m /\ m \in Nat /\ j \in S
      BY <1>4, <1>9
    <3>2. b \in Seq(S) /\ Len(b) = Len(a) + 1 /\ b[Len(a) + 1] = j /\ \A p \in 1 .. Len(a) : b[p] = a[p]
      BY <3>1
    <3>3. QED
      BY <3>1, <3>2
  <2> HIDE DEF b
  <2>2. /\ b \o c \in Seq(S) /\ Len(b \o c) = Len(t) + 1
        /\ \A p \in 1 .. m + 1 : (b \o c)[p] = b[p]
        /\ \A p \in m + 2 .. Len(t) + 1 : (b \o c)[p] = c[p - (m + 1)]
    BY <1>1, <1>4, <1>9, <2>1
  <2>3. \A p \in m + 2 .. Len(t) + 1 : p - m - 1 = p - (m + 1)
    BY <1>1, <1>4
  <2>4. u = b \o c
    BY DEF b
  <2> HIDE DEF u
  <2>5. u \in Seq(S) /\ Len(u) = Len(t) + 1
    BY <2>2, <2>4
  <2>6. \A p \in 1 .. m + 1 : u[p] = b[p]
    BY <2>2, <2>4
  <2>7. \A p \in m + 2 .. Len(t) + 1 : u[p] = c[p - m - 1]
    BY <2>2, <2>3, <2>4
  <2>8. m + 1 \in 1 .. m + 1 /\ \A p \in 1 .. m : p \in 1 .. m + 1
    BY <1>4
  <2>9. QED
    BY <2>1, <2>5, <2>6, <2>7, <2>8
<1>11. \A p \in m + 2 .. Len(t) + 1 : u[p] = t[p - 1] /\ t[p - 1].score < j.score
  <2> SUFFICES ASSUME NEW p \in m + 2 .. Len(t) + 1 PROVE u[p] = t[p - 1] /\ t[p - 1].score < j.score
    OBVIOUS
  <2>1. p - m - 1 \in 1 .. Len(t) - m /\ p - m - 1 + m = p - 1 /\ p - 1 \in m + 1 .. Len(t)
    BY <1>1, <1>4
  <2>2. c[p - m - 1] = t[p - 1]
    BY <1>8, <2>1
  <2>3. u[p] = c[p - m - 1]
    BY <1>10
  <2>4. QED
    BY <1>7, <2>1, <2>2, <2>3
<1>12. \A p \in 1 .. m : u[p] = t[p] /\ t[p].score >= j.score
  BY <1>6, <1>8, <1>10
<1>13. R!Insert(t, j) = u
  BY <1>5
<1> HIDE DEF u
<1>14. /\ u \in Seq(S) /\ Len(u) = Len(t) + 1
       /\ \A p \in 1 .. m : u[p] = t[p] /\ t[p].score >= j.score
       /\ u[m + 1] = j
       /\ \A p \in m + 2 .. Len(t) + 1 : u[p] = t[p - 1] /\ t[p - 1].score < j.score
  BY <1>10, <1>11, <1>12, Zenon
<1>15. QED
  BY <1>4, <1>13, <1>14, Zenon

\* What a release is judged to be.
Judgements == [release : Releases, cam : BOOLEAN, best : BOOLEAN, score : Int]

\* No eligible one has more points than one that is marked, or as many and comes earlier.
MarksTheFirstBest(c, js) ==
    \A b, k \in DOMAIN js : js[b].best /\ R!Eligible(c, js[k]) =>
        js[k].score < js[b].score \/ (js[k].score = js[b].score /\ k >= b)

\* Sorting keeps the judgements, puts them in order, and nothing eligible before a marked one.
Falling(t) == \A p, q \in 1 .. Len(t) : p <= q => t[p].score >= t[q].score
FirstIsMarked(c, t) == \A p, q \in 1 .. Len(t) : t[p].best /\ q < p => ~R!Eligible(c, t[q])

SortedUpTo(c, t, js, n) ==
    /\ t \in Seq(Judgements) /\ Falling(t) /\ FirstIsMarked(c, t)
    /\ \A x : (\E p \in 1 .. Len(t) : t[p] = x) <=> (\E k \in 1 .. n : js[k] = x)

LEMMA SortStep ==
  ASSUME NEW c, NEW js \in Seq(Judgements), MarksTheFirstBest(c, js),
         NEW n \in 1 .. Len(js), NEW t, SortedUpTo(c, t, js, n - 1)
  PROVE  SortedUpTo(c, R!Insert(t, js[n]), js, n)
<1> SUFFICES ASSUME t \in Seq(Judgements), Falling(t), FirstIsMarked(c, t),
                    \A x : (\E p \in 1 .. Len(t) : t[p] = x) <=> (\E k \in 1 .. n - 1 : js[k] = x),
                    NEW u, u = R!Insert(t, js[n])
             PROVE  /\ u \in Seq(Judgements) /\ Falling(u) /\ FirstIsMarked(c, u)
                    /\ \A x : (\E p \in 1 .. Len(u) : u[p] = x) <=> (\E k \in 1 .. n : js[k] = x)
  BY DEF SortedUpTo
<1> DEFINE j == js[n]
<1>1. /\ Len(t) \in Nat /\ Len(js) \in Nat /\ DOMAIN js = 1 .. Len(js)
      /\ \A k \in 1 .. Len(js) : js[k] \in Judgements
      /\ \A p \in 1 .. Len(t) : t[p] \in Judgements
      /\ j \in Judgements
  OBVIOUS
<1>2. \A x \in Judgements : x.score \in Int /\ x.best \in BOOLEAN
  BY DEF Judgements
<1>3. PICK m \in 0 .. Len(t) :
         /\ u \in Seq(Judgements) /\ Len(u) = Len(t) + 1
         /\ \A p \in 1 .. m : u[p] = t[p] /\ t[p].score >= j.score
         /\ u[m + 1] = j
         /\ \A p \in m + 2 .. Len(t) + 1 : u[p] = t[p - 1] /\ t[p - 1].score < j.score
  <2>1. \A p, q \in 1 .. Len(t) : p <= q => t[p].score >= t[q].score
    BY DEF Falling
  <2> HIDE DEF j
  <2>2. u = R!Insert(t, j)
    BY DEF j
  <2>3. \A x \in Judgements : x.score \in Int
    BY <1>2
  <2>4. t \in Seq(Judgements) /\ j \in Judgements
    BY <1>1
  <2>5. \E m \in 0 .. Len(t) :
            /\ R!Insert(t, j) \in Seq(Judgements) /\ Len(R!Insert(t, j)) = Len(t) + 1
            /\ \A p \in 1 .. m : R!Insert(t, j)[p] = t[p] /\ t[p].score >= j.score
            /\ R!Insert(t, j)[m + 1] = j
            /\ \A p \in m + 2 .. Len(t) + 1 : R!Insert(t, j)[p] = t[p - 1] /\ t[p - 1].score < j.score
    BY <2>1, <2>3, <2>4, Inserted
  <2>6. QED
    BY <2>2, <2>5, Zenon
<1>4. \A p \in 1 .. Len(t) : \E k \in 1 .. n - 1 : js[k] = t[p]
  OBVIOUS
<1> HIDE DEF j
\* where each element of the new sequence comes from
<1>5. \A p \in 1 .. Len(u) :
         \/ p \in 1 .. m /\ p \in 1 .. Len(t) /\ u[p] = t[p] /\ t[p].score >= j.score
         \/ p = m + 1 /\ u[p] = j
         \/ p \in m + 2 .. Len(t) + 1 /\ p - 1 \in 1 .. Len(t) /\ u[p] = t[p - 1] /\ t[p - 1].score < j.score
  BY <1>1, <1>3
<1>6. Falling(u)
  <2> SUFFICES ASSUME NEW p \in 1 .. Len(u), NEW q \in 1 .. Len(u), p <= q PROVE u[p].score >= u[q].score
    BY DEF Falling
  <2>1. \A a, b \in 1 .. Len(t) : a <= b => t[a].score >= t[b].score
    BY DEF Falling
  <2>2. j.score \in Int /\ \A a \in 1 .. Len(t) : t[a].score \in Int
    BY <1>1, <1>2
  <2>3. CASE p \in 1 .. m /\ p \in 1 .. Len(t) /\ u[p] = t[p] /\ t[p].score >= j.score
    <3>1. CASE q \in 1 .. Len(t) /\ u[q] = t[q]
      BY <2>1, <2>3, <3>1
    <3>2. CASE u[q] = j
      BY <2>3, <3>2
    <3>3. CASE q \in m + 2 .. Len(t) + 1 /\ q - 1 \in 1 .. Len(t) /\ u[q] = t[q - 1]
      <4>1. p <= q - 1
        BY <1>1, <1>3, <2>3, <3>3
      <4>2. QED
        BY <2>1, <2>3, <3>3, <4>1
    <3>4. QED
      BY <1>5, <3>1, <3>2, <3>3
  <2>4. CASE p = m + 1 /\ u[p] = j
    <3>1. CASE u[q] = j
      BY <2>2, <2>4, <3>1
    <3>2. CASE q \in m + 2 .. Len(t) + 1 /\ q - 1 \in 1 .. Len(t) /\ u[q] = t[q - 1] /\ t[q - 1].score < j.score
      BY <2>2, <2>4, <3>2
    <3>3. q \notin 1 .. m
      BY <1>1, <1>3, <2>4
    <3>4. QED
      BY <1>5, <3>1, <3>2, <3>3
  <2>5. CASE p \in m + 2 .. Len(t) + 1 /\ p - 1 \in 1 .. Len(t) /\ u[p] = t[p - 1] /\ t[p - 1].score < j.score
    <3>1. q \in m + 2 .. Len(t) + 1
      BY <1>1, <1>3, <2>5
    <3>2. q - 1 \in 1 .. Len(t) /\ u[q] = t[q - 1] /\ p - 1 <= q - 1
      BY <1>1, <1>3, <2>5, <3>1
    <3>3. QED
      BY <2>1, <2>5, <3>2
  <2>6. QED
    BY <1>5, <2>3, <2>4, <2>5
<1>7. \A k \in 1 .. n - 1 : /\ R!Eligible(c, js[k]) /\ j.best => js[k].score < j.score
                            /\ R!Eligible(c, j) /\ js[k].best => ~(js[k].score < j.score)
  <2> SUFFICES ASSUME NEW k \in 1 .. n - 1
               PROVE  /\ R!Eligible(c, js[k]) /\ j.best => js[k].score < j.score
                      /\ R!Eligible(c, j) /\ js[k].best => ~(js[k].score < j.score)
    OBVIOUS
  <2>1. k \in 1 .. Len(js) /\ n \in 1 .. Len(js) /\ ~(k >= n) /\ k # n
    BY <1>1
  <2>2. js[k].score \in Int /\ j.score \in Int
    BY <1>1, <1>2, <2>1
  <2>3. js[n] = j
    BY DEF j
  <2>4. j.best /\ R!Eligible(c, js[k]) => js[k].score < j.score \/ (js[k].score = j.score /\ k >= n)
    BY <1>1, <2>1, <2>3 DEF MarksTheFirstBest
  <2>5. js[k].best /\ R!Eligible(c, j) => j.score < js[k].score \/ (j.score = js[k].score /\ n >= k)
    BY <1>1, <2>1, <2>3 DEF MarksTheFirstBest
  <2>6. QED
    BY <2>1, <2>2, <2>4, <2>5
<1>8. FirstIsMarked(c, u)
  <2> SUFFICES ASSUME NEW p \in 1 .. Len(u), NEW q \in 1 .. Len(u), u[p].best, q < p, R!Eligible(c, u[q]) PROVE FALSE
    BY DEF FirstIsMarked
  <2>1. \A a, b \in 1 .. Len(t) : t[a].best /\ b < a => ~R!Eligible(c, t[b])
    BY DEF FirstIsMarked
  <2>2. j.score \in Int /\ \A a \in 1 .. Len(t) : t[a].score \in Int
    BY <1>1, <1>2
  <2>3. CASE p \in 1 .. m /\ p \in 1 .. Len(t) /\ u[p] = t[p]
    <3>1. q \in 1 .. m /\ q \in 1 .. Len(t)
      BY <1>1, <1>3, <2>3
    <3>2. u[q] = t[q]
      BY <1>3, <3>1
    <3>3. QED
      BY <2>1, <2>3, <3>1, <3>2
  <2>4. CASE p = m + 1 /\ u[p] = j
    <3>1. q \in 1 .. m /\ q \in 1 .. Len(t)
      BY <1>1, <1>3, <2>4
    <3>2. u[q] = t[q] /\ t[q].score >= j.score
      BY <1>3, <3>1
    <3>3. PICK k \in 1 .. n - 1 : js[k] = t[q]
      BY <1>4, <3>1
    <3>4. js[k].score < j.score
      BY <1>7, <2>4, <3>2, <3>3
    <3>5. QED
      BY <2>2, <3>1, <3>2, <3>3, <3>4
  <2>5. CASE p \in m + 2 .. Len(t) + 1 /\ p - 1 \in 1 .. Len(t) /\ u[p] = t[p - 1] /\ t[p - 1].score < j.score
    <3>1. CASE q \in 1 .. m /\ q \in 1 .. Len(t) /\ u[q] = t[q]
      <4>1. q < p - 1
        BY <1>1, <1>3, <2>5, <3>1
      <4>2. QED
        BY <2>1, <2>5, <3>1, <4>1
    <3>2. CASE q = m + 1 /\ u[q] = j
      <4>1. PICK k \in 1 .. n - 1 : js[k] = t[p - 1]
        BY <1>4, <2>5
      <4>2. QED
        BY <1>7, <2>5, <3>2, <4>1
    <3>3. CASE q \in m + 2 .. Len(t) + 1 /\ q - 1 \in 1 .. Len(t) /\ u[q] = t[q - 1]
      <4>1. q - 1 < p - 1
        BY <1>1, <1>3
      <4>2. QED
        BY <2>1, <2>5, <3>3, <4>1
    <3>4. QED
      BY <1>5, <3>1, <3>2, <3>3
  <2>6. QED
    BY <1>5, <2>3, <2>4, <2>5
<1>9. \A x : (\E p \in 1 .. Len(u) : u[p] = x) <=> (x = j \/ \E p \in 1 .. Len(t) : t[p] = x)
  <2>1. ASSUME NEW p \in 1 .. Len(u) PROVE u[p] = j \/ \E a \in 1 .. Len(t) : t[a] = u[p]
    BY <1>5
  <2>2. m + 1 \in 1 .. Len(u) /\ u[m + 1] = j
    BY <1>1, <1>3
  <2>3. ASSUME NEW p \in 1 .. Len(t) PROVE \E a \in 1 .. Len(u) : u[a] = t[p]
    <3>1. CASE p \in 1 .. m
      <4>1. p \in 1 .. Len(u) /\ u[p] = t[p]
        BY <1>1, <1>3, <3>1
      <4>2. QED
        BY <4>1
    <3>2. CASE p \notin 1 .. m
      <4>1. p + 1 \in 1 .. Len(u) /\ p + 1 \in m + 2 .. Len(t) + 1 /\ p + 1 - 1 = p
        BY <1>1, <1>3, <3>2
      <4>2. u[p + 1] = t[p]
        BY <1>3, <4>1
      <4>3. QED
        BY <4>1, <4>2
    <3>3. QED
      BY <3>1, <3>2
  <2>4. ASSUME NEW x PROVE (\E p \in 1 .. Len(u) : u[p] = x) <=> (x = j \/ \E p \in 1 .. Len(t) : t[p] = x)
    <3>1. ASSUME NEW p \in 1 .. Len(u), u[p] = x PROVE x = j \/ \E a \in 1 .. Len(t) : t[a] = x
      BY <2>1, <3>1
    <3>2. ASSUME x = j PROVE \E p \in 1 .. Len(u) : u[p] = x
      BY <2>2, <3>2
    <3>3. ASSUME NEW p \in 1 .. Len(t), t[p] = x PROVE \E a \in 1 .. Len(u) : u[a] = x
      BY <2>3, <3>3
    <3>4. QED
      BY <3>1, <3>2, <3>3
  <2>5. QED
    BY <2>4
<1>10. \A x : (\E k \in 1 .. n : js[k] = x) <=> (x = j \/ \E k \in 1 .. n - 1 : js[k] = x)
  BY DEF j
<1>11. \A x : (\E p \in 1 .. Len(u) : u[p] = x) <=> (\E k \in 1 .. n : js[k] = x)
  BY <1>9, <1>10
<1>12. QED
  BY <1>3, <1>6, <1>8, <1>11

LEMMA SortKeeps ==
  ASSUME NEW c, NEW js \in Seq(Judgements), MarksTheFirstBest(c, js)
  PROVE  SortedUpTo(c, R!Sorted(js), js, Len(js))
<1>0. Len(js) \in Nat
  OBVIOUS
<1>1. PICK f : /\ f = [n \in 0 .. Len(js) |-> IF n = 0 THEN <<>> ELSE R!Insert(f[n - 1], js[n])]
               /\ R!Sorted(js) = f[Len(js)]
  BY <1>0, SortIsALoop
<1>2. f[0] = <<>> /\ \A n \in 1 .. Len(js) : f[n] = R!Insert(f[n - 1], js[n])
  <2>1. \A n \in 0 .. Len(js) : f[n] = IF n = 0 THEN <<>> ELSE R!Insert(f[n - 1], js[n])
    BY <1>1
  <2>2. f[0] = <<>>
    BY <1>0, <2>1
  <2>3. ASSUME NEW n \in 1 .. Len(js) PROVE f[n] = R!Insert(f[n - 1], js[n])
    <3>1. n \in 0 .. Len(js) /\ n # 0
      BY <1>0
    <3>2. QED
      BY <2>1, <3>1
  <2>4. QED
    BY <2>2, <2>3
<1> DEFINE S == {n \in 0 .. Len(js) : SortedUpTo(c, f[n], js, n)}
<1>3. 0 \in S
  <2>1. SortedUpTo(c, <<>>, js, 0)
    BY DEF SortedUpTo, Falling, FirstIsMarked
  <2>2. QED
    BY <1>0, <1>2, <2>1
<1>4. ASSUME NEW n \in 1 .. Len(js), n - 1 \in S PROVE n \in S
  <2>1. SortedUpTo(c, f[n - 1], js, n - 1)
    BY <1>4
  <2>2. SortedUpTo(c, R!Insert(f[n - 1], js[n]), js, n)
    BY <2>1, SortStep
  <2>3. f[n] = R!Insert(f[n - 1], js[n]) /\ n \in 0 .. Len(js)
    BY <1>0, <1>2
  <2>4. QED
    BY <2>2, <2>3
<1>5. \A n \in 0 .. Len(js) : n \in S
  <2> HIDE DEF S
  <2>1. QED
    BY <1>0, <1>3, <1>4, AllUpTo
<1>6. SortedUpTo(c, f[Len(js)], js, Len(js))
  BY <1>0, <1>5
<1>7. QED
  BY <1>1, <1>6

-----------------------------------------------------------------------------
(* What the rules and points are. *)

LEMMA RulesAreYesOrNo ==
  ASSUME NEW title, NEW name
  PROVE  R!IsJunkFor(title, name) \in BOOLEAN /\ R!IsCAMFor(title, name) \in BOOLEAN
BY DEF R!IsJunkFor, R!IsCAMFor, R!Has

\* What settings must be for that, and the two that are used are.
SoundSettings(c) ==
    /\ c.minSeeders \in Int /\ c.target \in Int /\ c.maxMbps \in Int
    /\ c.prefer \in Preferences
    /\ c.rejectCAM \in BOOLEAN /\ c.requireDirect \in BOOLEAN

AllSettings ==
    [minSeeders : Int, maxSize : Int, target : Int, maxMbps : Int, prefer : Preferences,
     rejectCAM : BOOLEAN, requireDirect : BOOLEAN]

LEMMA SettingsAreSound ==
  ASSUME cfg \in Configs, over \in Overrides
  PROVE  SoundSettings(R!DialogsConfig) /\ SoundSettings(R!WorkersConfig)
<1>1. cfg \in AllSettings
  BY PickerAssumption DEF AllSettings
<1>2. R!PickerFor(cfg, over) \in AllSettings
  <2>1. /\ over.minSeeders \in Int /\ over.maxSize \in Int /\ over.target \in Int /\ over.maxMbps \in Int
        /\ over.prefer \subseteq Preferences
    BY PickerAssumption
  <2>2. ASSUME NEW S, NEW x \in SUBSET S, NEW y \in S PROVE R!SetOr(x, y) \in S
    BY DEF R!SetOr
  <2>3. /\ R!SetOr(over.prefer, cfg.prefer) \in Preferences
        /\ R!SetOr(over.rejectCAM, cfg.rejectCAM) \in BOOLEAN
        /\ R!SetOr(over.requireDirect, cfg.requireDirect) \in BOOLEAN
    <3>1. cfg.prefer \in Preferences /\ cfg.rejectCAM \in BOOLEAN /\ cfg.requireDirect \in BOOLEAN
      BY <1>1 DEF AllSettings
    <3>2. over.rejectCAM \subseteq BOOLEAN /\ over.requireDirect \subseteq BOOLEAN
      BY PickerAssumption
    <3>3. QED
      BY <2>1, <2>2, <3>1, <3>2, Zenon
  <2>4. /\ (IF over.minSeeders > 0 THEN over.minSeeders ELSE cfg.minSeeders) \in Int
        /\ (IF over.maxSize > 0 THEN over.maxSize ELSE cfg.maxSize) \in Int
        /\ (IF over.target > 0 THEN over.target ELSE cfg.target) \in Int
        /\ (IF over.maxMbps > 0 THEN over.maxMbps ELSE cfg.maxMbps) \in Int
    BY <1>1, <2>1 DEF AllSettings
  <2>5. ASSUME NEW a \in Int, NEW b \in Int, NEW d \in Int, NEW e \in Int, NEW p \in Preferences,
               NEW x \in BOOLEAN, NEW y \in BOOLEAN
        PROVE  [minSeeders |-> a, maxSize |-> b, target |-> d, maxMbps |-> e, prefer |-> p,
                rejectCAM |-> x, requireDirect |-> y] \in AllSettings
    BY DEF AllSettings
  <2>6. QED
    BY <2>3, <2>4 DEF R!PickerFor, AllSettings
<1>3. ASSUME NEW c \in AllSettings PROVE SoundSettings(c) /\ SoundSettings(R!Untimed(c))
  BY DEF AllSettings, SoundSettings, R!Untimed
<1>4. QED
  BY <1>1, <1>2, <1>3, Zenon DEF R!DialogsConfig, R!WorkersConfig

LEMMA PointsAreNumbers ==
  ASSUME NEW c, SoundSettings(c), NEW r \in Releases
  PROVE  R!ScoreRelease(c, r) \in Int
<1>1. /\ r.seeders \in Int /\ r.leechers \in Int /\ r.rung \in Int /\ r.mbps \in Int
      /\ r.prefs[c.prefer] \in Int /\ c.target \in Int /\ c.maxMbps \in Int
  BY PickerAssumption DEF SoundSettings
<1>2. R!SeederPoints(r.seeders) \in Int
  <2> DEFINE steps == {<<5, 25>>, <<10, 50>>, <<20, 100>>, <<50, 180>>, <<100, 280>>, <<200, 380>>, <<500, 500>>}
             reached == {step_ \in steps : r.seeders >= step_[1]}
             points == {step_[2] : step_ \in reached}
  <2>1. R!SeederPoints(r.seeders) = IF reached = {} THEN r.seeders ELSE R!Max(points)
    BY DEF R!SeederPoints
  <2>2. points \subseteq 0 .. 500
    OBVIOUS
  <2>3. reached # {} => points # {}
    OBVIOUS
  <2> HIDE DEF points, reached
  <2>4. ASSUME points # {} PROVE R!Max(points) \in Int
    <3>1. 500 \in Nat /\ 0 .. 500 \subseteq Int
      OBVIOUS
    <3>2. R!Max(points) \in points
      BY <2>2, <2>4, <3>1, GreatestOfSet
    <3>3. QED
      BY <2>2, <3>1, <3>2
  <2>5. QED
    BY <1>1, <2>1, <2>3, <2>4
<1>3. R!ResolutionPoints(r.rung, c.target) \in Int
  BY <1>1 DEF R!ResolutionPoints
<1>4. R!BitratePoints(r.mbps, c.maxMbps) \in Int
  <2>1. CASE c.maxMbps <= 0 \/ r.mbps <= c.maxMbps
    BY <2>1 DEF R!BitratePoints
  <2>2. CASE ~(c.maxMbps <= 0 \/ r.mbps <= c.maxMbps)
    <3> DEFINE penalty == ((r.mbps - c.maxMbps) * 400) \div c.maxMbps
    <3>1. c.maxMbps \in Nat \ {0} /\ (r.mbps - c.maxMbps) * 400 \in Int
      BY <1>1, <2>2
    <3>2. penalty \in Int
      BY <3>1
    <3>3. R!BitratePoints(r.mbps, c.maxMbps) = -R!Min({penalty, 800})
      BY <2>2 DEF R!BitratePoints
    <3> HIDE DEF penalty
    <3>4. R!Min({penalty, 800}) \in {penalty, 800}
      BY <3>2 DEF R!Min
    <3>5. QED
      BY <3>2, <3>3, <3>4
  <2>3. QED
    BY <2>1, <2>2
<1>5. R!SeedRatioBonus(r.seeders, r.leechers) \in Int
  BY DEF R!SeedRatioBonus
<1>6. QED
  BY <1>1, <1>2, <1>3, <1>4, <1>5 DEF R!ScoreRelease

LEMMA JudgementsAreSound ==
  ASSUME NEW c, SoundSettings(c), NEW r \in Releases
  PROVE  /\ R!Judged(c, r) \in Judgements
         /\ R!Judged(c, r).release = r /\ R!Judged(c, r).best = FALSE
         /\ R!Judged(c, r).cam = R!IsCAMFor(r.title, known)
<1>1. R!IsCAMFor(r.title, known) \in BOOLEAN
  BY RulesAreYesOrNo
<1>2. R!ScoreRelease(c, r) \in Int
  BY PointsAreNumbers
<1> HIDE DEF Judgements
<1>3. R!ScoreRelease(c, r) + (IF R!TitleMatch(r.title, known) THEN 500 ELSE 0)
          - (IF R!IsCAMFor(r.title, known) THEN 10000 ELSE 0) \in Int
  BY <1>1, <1>2
<1>4. QED
  BY <1>1, <1>3 DEF R!Judged, Judgements

-----------------------------------------------------------------------------
(* Score. *)

\* If one is eligible then one is the first of those that no eligible one exceeds.
LEMMA OneIsBest ==
  ASSUME NEW c, NEW js \in Seq(Judgements), NEW i0 \in DOMAIN js, R!Eligible(c, js[i0])
  PROVE  R!Best(c, js) # {}
<1>0. /\ Len(js) \in Nat /\ DOMAIN js = 1 .. Len(js)
      /\ \A k \in 1 .. Len(js) : js[k] \in Judgements
  OBVIOUS
<1>1. \A k \in 1 .. Len(js) : js[k].score \in Int
  BY <1>0 DEF Judgements
<1> DEFINE Leads(b, n) == R!Eligible(c, js[b]) /\ \A k \in 1 .. n : R!Eligible(c, js[k]) =>
                              js[k].score < js[b].score \/ (js[k].score = js[b].score /\ k >= b)
           Led(n) == (\E k \in 1 .. n : R!Eligible(c, js[k])) => \E b \in 1 .. n : Leads(b, n)
           S == {n \in 0 .. Len(js) : Led(n)}
<1>2. 0 \in S
  BY <1>0
<1>3. ASSUME NEW n \in 1 .. Len(js), n - 1 \in S PROVE n \in S
  <2>1. Led(n - 1)
    BY <1>3
  <2>2. Led(n)
    <3> SUFFICES ASSUME \E k \in 1 .. n : R!Eligible(c, js[k]) PROVE \E b \in 1 .. n : Leads(b, n)
      OBVIOUS
    <3>1. CASE ~\E k \in 1 .. n - 1 : R!Eligible(c, js[k])
      <4>1. \A k \in 1 .. n : R!Eligible(c, js[k]) => k = n
        BY <3>1
      <4>2. Leads(n, n) /\ n \in 1 .. n
        BY <4>1
      <4>3. QED
        BY <4>2
    <3>2. CASE \E k \in 1 .. n - 1 : R!Eligible(c, js[k])
      <4>1. PICK b \in 1 .. n - 1 : Leads(b, n - 1)
        BY <2>1, <3>2
      <4>2. b \in 1 .. Len(js) /\ b \in 1 .. n /\ n \in 1 .. n /\ js[b].score \in Int /\ js[n].score \in Int
        BY <1>0, <1>1
      <4>3. CASE R!Eligible(c, js[n]) /\ js[n].score > js[b].score
        <5>1. \A k \in 1 .. n : k \in 1 .. n - 1 \/ k = n
          OBVIOUS
        <5>2. ASSUME NEW k \in 1 .. n - 1, R!Eligible(c, js[k]) PROVE js[k].score < js[n].score
          <6>1. js[k].score \in Int
            BY <1>0, <1>1
          <6>2. js[k].score < js[b].score \/ js[k].score = js[b].score
            BY <4>1, <5>2
          <6> HIDE DEF Leads
          <6>3. QED
            BY <4>2, <4>3, <6>1, <6>2
        <5>3. Leads(n, n)
          BY <4>3, <5>1, <5>2
        <5>4. QED
          BY <4>2, <5>3
      <4>4. CASE ~(R!Eligible(c, js[n]) /\ js[n].score > js[b].score)
        <5>1. \A k \in 1 .. n : k \in 1 .. n - 1 \/ k = n
          OBVIOUS
        <5>2. R!Eligible(c, js[n]) => js[n].score < js[b].score \/ (js[n].score = js[b].score /\ n >= b)
          BY <4>2, <4>4
        <5>3. Leads(b, n)
          BY <4>1, <5>1, <5>2
        <5>4. QED
          BY <4>2, <5>3
      <4>5. QED
        BY <4>3, <4>4
    <3>3. QED
      BY <3>1, <3>2
  <2> HIDE DEF Led
  <2>3. QED
    BY <1>0, <2>2
<1>4. Led(Len(js))
  <2>1. \A n \in 0 .. Len(js) : n \in S
    <3> HIDE DEF S
    <3>1. QED
      BY <1>0, <1>2, <1>3, AllUpTo
  <2> HIDE DEF Led
  <2>2. QED
    BY <1>0, <2>1
<1>5. PICK b \in 1 .. Len(js) : Leads(b, Len(js))
  BY <1>0, <1>4
<1>6. b \in R!Best(c, js)
  BY <1>0, <1>5 DEF R!Best
<1>7. QED
  BY <1>6

\* The verdict is written down: what is sorted.
LEMMA MarksAreSound ==
  ASSUME NEW c, NEW js \in Seq(Judgements),
         NEW ms, ms = [i \in DOMAIN js |-> [js[i] EXCEPT !.best = i \in R!Best(c, js)]]
  PROVE  /\ ms \in Seq(Judgements) /\ Len(ms) = Len(js) /\ DOMAIN ms = DOMAIN js
         /\ \A i \in DOMAIN js : /\ ms[i].release = js[i].release /\ ms[i].score = js[i].score
                                 /\ ms[i].cam = js[i].cam /\ ms[i].best = (i \in R!Best(c, js))
                                 /\ R!Eligible(c, ms[i]) = R!Eligible(c, js[i])
         /\ MarksTheFirstBest(c, ms)
<1>0. /\ Len(js) \in Nat /\ DOMAIN js = 1 .. Len(js)
      /\ \A k \in 1 .. Len(js) : js[k] \in Judgements
  OBVIOUS
<1>1. ASSUME NEW i \in DOMAIN js
      PROVE  /\ ms[i] \in Judgements
             /\ ms[i].release = js[i].release /\ ms[i].score = js[i].score
             /\ ms[i].cam = js[i].cam /\ ms[i].best = (i \in R!Best(c, js))
  <2>1. js[i] \in Judgements
    BY <1>0
  <2>2. ms[i] = [js[i] EXCEPT !.best = i \in R!Best(c, js)]
    OBVIOUS
  <2>3. (i \in R!Best(c, js)) \in BOOLEAN
    OBVIOUS
  <2>4. QED
    BY <2>1, <2>2, <2>3 DEF Judgements
<1>2. DOMAIN ms = 1 .. Len(js)
  BY <1>0
<1>3. ms \in Seq(Judgements) /\ Len(ms) = Len(js)
  <2>1. ms = [i \in 1 .. Len(js) |-> ms[i]]
    BY <1>0
  <2>2. \A i \in 1 .. Len(js) : ms[i] \in Judgements
    BY <1>0, <1>1
  <2>3. QED
    BY <1>0, <2>1, <2>2
<1>4. \A i \in DOMAIN js : R!Eligible(c, ms[i]) = R!Eligible(c, js[i])
  BY <1>1 DEF R!Eligible
<1>5. MarksTheFirstBest(c, ms)
  <2> SUFFICES ASSUME NEW b \in DOMAIN js, NEW k \in DOMAIN js, ms[b].best, R!Eligible(c, ms[k])
               PROVE  ms[k].score < ms[b].score \/ (ms[k].score = ms[b].score /\ k >= b)
    BY <1>0, <1>2 DEF MarksTheFirstBest
  <2>1. b \in R!Best(c, js)
    BY <1>1
  <2>2. R!Eligible(c, js[k])
    BY <1>4
  <2>3. js[k].score < js[b].score \/ (js[k].score = js[b].score /\ k >= b)
    BY <2>1, <2>2 DEF R!Best
  <2>4. QED
    BY <1>1, <2>3
<1>6. QED
  BY <1>0, <1>1, <1>2, <1>3, <1>4, <1>5

\* Score lists what may be listed, as it is judged, in order; the one it marks is the
\* first eligible one, and if one is eligible it marks one.
ScoredOf(c, t, rs) ==
    /\ t \in Seq(Judgements) /\ Falling(t) /\ FirstIsMarked(c, t)
    /\ \A p \in 1 .. Len(t) : /\ t[p].score = R!Judged(c, t[p].release).score
                              /\ t[p].cam = R!IsCAMFor(t[p].release.title, known)
                              /\ t[p].best => R!Eligible(c, t[p])
    /\ \A r : (\E p \in 1 .. Len(t) : t[p].release = r) <=> (\E i \in 1 .. Len(rs) : rs[i] = r /\ R!Listed(c, r))
    /\ (\E p \in 1 .. Len(t) : R!Eligible(c, t[p])) => \E p \in 1 .. Len(t) : t[p].best

LEMMA EvaluatedIsTheSame ==
  ASSUME NEW S, NEW t \in Seq(S)
  PROVE  R!Evaluated(t) = t
<1>1. Len(t) \in Nat /\ t = [i \in 1 .. Len(t) |-> t[i]]
  OBVIOUS
<1>2. R!Evaluated(t) = [i \in 1 .. Len(t) |-> t[i]]
  BY <1>1 DEF R!Evaluated
<1>3. QED
  BY <1>1, <1>2

LEMMA ScoreWorks ==
  ASSUME NEW c, SoundSettings(c), NEW rs \in Seq(Releases)
  PROVE  ScoredOf(c, R!Score(c, rs), rs)
<1> DEFINE ids == {i \in DOMAIN rs : R!Listed(c, rs[i])}
           listed == R!Keep(rs, ids)
           judged == [i \in DOMAIN listed |-> R!Judged(c, listed[i])]
           marked == [i \in DOMAIN judged |-> [judged[i] EXCEPT !.best = i \in R!Best(c, judged)]]
           t == R!Sorted(marked)
<1>1. R!Evaluated(judged) = judged /\ R!Evaluated(marked) = marked => R!Score(c, rs) = t
  <2>1. DOMAIN judged = DOMAIN listed
    OBVIOUS
  <2>2. marked = [i \in DOMAIN listed |-> [judged[i] EXCEPT !.best = i \in R!Best(c, judged)]]
    BY <2>1
  <2> DEFINE once == R!Evaluated(judged)
  <2>3. R!Score(c, rs) =
            R!Sorted(R!Evaluated([i \in DOMAIN listed |-> [once[i] EXCEPT !.best = i \in R!Best(c, once)]]))
    BY DEF R!Score
  <2>4. once = judged => R!Score(c, rs) =
            R!Sorted(R!Evaluated([i \in DOMAIN listed |-> [judged[i] EXCEPT !.best = i \in R!Best(c, judged)]]))
    <3> HIDE DEF judged, listed, once
    <3>1. QED
      BY <2>3, Zenon
  <2> HIDE DEF marked, judged, listed
  <2>5. QED
    BY <2>2, <2>4, Zenon
<1>2. /\ listed \in Seq(Releases) /\ Len(listed) \in Nat /\ DOMAIN listed = 1 .. Len(listed)
      /\ \A r : (\E i \in 1 .. Len(listed) : listed[i] = r) <=> (\E i \in 1 .. Len(rs) : rs[i] = r /\ R!Listed(c, r))
  <2>1. /\ listed \in Seq(Releases)
        /\ {listed[i] : i \in DOMAIN listed} = {rs[i] : i \in DOMAIN rs \cap ids}
    <3> HIDE DEF ids
    <3>1. QED
      BY KeepWorks DEF KeptAs
  <2>2. {rs[i] : i \in DOMAIN rs \cap ids} = {r \in {rs[i] : i \in DOMAIN rs} : R!Listed(c, r)}
    OBVIOUS
  <2>3. DOMAIN rs = 1 .. Len(rs)
    OBVIOUS
  <2> HIDE DEF listed, ids
  <2>4. Len(listed) \in Nat /\ DOMAIN listed = 1 .. Len(listed)
    BY <2>1
  <2>5. \A r : (\E i \in DOMAIN listed : listed[i] = r) <=> r \in {listed[i] : i \in DOMAIN listed}
    OBVIOUS
  <2>6. \A r : r \in {r_ \in {rs[i] : i \in DOMAIN rs} : R!Listed(c, r_)} <=> \E i \in DOMAIN rs : rs[i] = r /\ R!Listed(c, r)
    OBVIOUS
  <2>7. \A r : (\E i \in DOMAIN listed : listed[i] = r) <=> \E i \in DOMAIN rs : rs[i] = r /\ R!Listed(c, r)
    BY <2>1, <2>2, <2>5, <2>6, Zenon
  <2>8. QED
    BY <2>1, <2>3, <2>4, <2>7, Zenon
<1> HIDE DEF listed, ids
<1>3. /\ judged \in Seq(Judgements) /\ Len(judged) = Len(listed) /\ DOMAIN judged = 1 .. Len(listed)
      /\ \A i \in 1 .. Len(listed) : judged[i] = R!Judged(c, listed[i]) /\ listed[i] \in Releases
  <2>1. \A i \in 1 .. Len(listed) : listed[i] \in Releases
    BY <1>2
  <2>2. \A i \in 1 .. Len(listed) : R!Judged(c, listed[i]) \in Judgements
    BY <2>1, JudgementsAreSound
  <2>3. judged = [i \in 1 .. Len(listed) |-> R!Judged(c, listed[i])]
    BY <1>2
  <2> HIDE DEF judged
  <2>4. QED
    BY <1>2, <2>1, <2>2, <2>3
<1> HIDE DEF judged
<1>4. /\ marked \in Seq(Judgements) /\ Len(marked) = Len(judged) /\ DOMAIN marked = DOMAIN judged
      /\ \A i \in DOMAIN judged : /\ marked[i].release = judged[i].release /\ marked[i].score = judged[i].score
                                  /\ marked[i].cam = judged[i].cam /\ marked[i].best = (i \in R!Best(c, judged))
                                  /\ R!Eligible(c, marked[i]) = R!Eligible(c, judged[i])
      /\ MarksTheFirstBest(c, marked)
  BY <1>3, MarksAreSound
<1> HIDE DEF marked
<1>5. /\ t \in Seq(Judgements) /\ Falling(t) /\ FirstIsMarked(c, t)
      /\ \A x : (\E p \in 1 .. Len(t) : t[p] = x) <=> (\E k \in 1 .. Len(marked) : marked[k] = x)
  BY <1>4, SortKeeps DEF SortedUpTo
<1>6. Len(t) \in Nat /\ DOMAIN t = 1 .. Len(t)
  BY <1>5
<1> HIDE DEF t
<1>7. \A k \in 1 .. Len(listed) :
         /\ marked[k].release = listed[k] /\ marked[k].score = R!Judged(c, listed[k]).score
         /\ marked[k].cam = R!IsCAMFor(listed[k].title, known)
         /\ marked[k].best => R!Eligible(c, marked[k])
  <2> SUFFICES ASSUME NEW k \in 1 .. Len(listed)
               PROVE  /\ marked[k].release = listed[k] /\ marked[k].score = R!Judged(c, listed[k]).score
                      /\ marked[k].cam = R!IsCAMFor(listed[k].title, known)
                      /\ marked[k].best => R!Eligible(c, marked[k])
    OBVIOUS
  <2>1. judged[k] = R!Judged(c, listed[k]) /\ listed[k] \in Releases /\ k \in DOMAIN judged
    BY <1>3
  <2>2. R!Judged(c, listed[k]).release = listed[k] /\ R!Judged(c, listed[k]).cam = R!IsCAMFor(listed[k].title, known)
    BY <2>1, JudgementsAreSound
  <2>3. k \in R!Best(c, judged) => R!Eligible(c, judged[k])
    BY DEF R!Best
  <2>4. QED
    BY <1>4, <2>1, <2>2, <2>3, Zenon
<1>8. \A p \in 1 .. Len(t) : \E k \in 1 .. Len(listed) : t[p] = marked[k]
  <2>1. Len(marked) = Len(listed)
    BY <1>3, <1>4
  <2>2. \A p \in 1 .. Len(t) : \E k \in 1 .. Len(marked) : marked[k] = t[p]
    BY <1>5
  <2>3. QED
    BY <2>1, <2>2, Zenon
<1>9. \A k \in 1 .. Len(listed) : \E p \in 1 .. Len(t) : t[p] = marked[k]
  BY <1>3, <1>4, <1>5
<1>10. \A p \in 1 .. Len(t) : /\ t[p].score = R!Judged(c, t[p].release).score
                              /\ t[p].cam = R!IsCAMFor(t[p].release.title, known)
                              /\ t[p].best => R!Eligible(c, t[p])
  <2> SUFFICES ASSUME NEW p \in 1 .. Len(t)
               PROVE  /\ t[p].score = R!Judged(c, t[p].release).score
                      /\ t[p].cam = R!IsCAMFor(t[p].release.title, known)
                      /\ t[p].best => R!Eligible(c, t[p])
    OBVIOUS
  <2>1. PICK k \in 1 .. Len(listed) : t[p] = marked[k]
    BY <1>8
  <2>2. QED
    BY <1>7, <2>1, Zenon
<1>11. \A r : (\E p \in 1 .. Len(t) : t[p].release = r) <=> (\E i \in 1 .. Len(listed) : listed[i] = r)
  <2>1. ASSUME NEW p \in 1 .. Len(t) PROVE \E i \in 1 .. Len(listed) : listed[i] = t[p].release
    BY <1>7, <1>8
  <2>2. ASSUME NEW i \in 1 .. Len(listed) PROVE \E p \in 1 .. Len(t) : t[p].release = listed[i]
    BY <1>7, <1>9
  <2>3. QED
    BY <2>1, <2>2
<1>12. ASSUME NEW p \in 1 .. Len(t), R!Eligible(c, t[p]) PROVE \E q \in 1 .. Len(t) : t[q].best
  <2>1. PICK k \in 1 .. Len(listed) : t[p] = marked[k]
    BY <1>8
  <2>2. k \in DOMAIN judged /\ R!Eligible(c, judged[k])
    BY <1>3, <1>4, <1>12, <2>1
  <2>3. PICK b : b \in R!Best(c, judged)
    BY <1>3, <2>2, OneIsBest
  <2>4. b \in DOMAIN judged
    BY <2>3 DEF R!Best
  <2>5. marked[b].best /\ b \in 1 .. Len(listed)
    BY <1>3, <1>4, <2>3, <2>4
  <2>6. QED
    BY <1>9, <2>5
<1>13. \A r : (\E p \in 1 .. Len(t) : t[p].release = r) <=> (\E i \in 1 .. Len(rs) : rs[i] = r /\ R!Listed(c, r))
  BY <1>2, <1>11, Zenon
<1>14. ScoredOf(c, t, rs)
  BY <1>5, <1>10, <1>12, <1>13 DEF ScoredOf
<1>15. R!Evaluated(judged) = judged /\ R!Evaluated(marked) = marked
  BY <1>3, <1>4, EvaluatedIsTheSame
<1>16. QED
  BY <1>1, <1>14, <1>15

-----------------------------------------------------------------------------
(* The answer becomes candidates. *)

LEMMA NarrowedIsOfTheAnswer ==
  ASSUME NEW rs \in Seq(Releases)
  PROVE  R!Narrowed(rs) \in Seq(Releases)
<1>1. R!Keep(rs, {i \in DOMAIN rs : R!Has(rs[i].title, {R!Label})}) \in Seq(Releases)
  BY KeepWorks
<1>2. QED
  BY <1>1 DEF R!Narrowed

\* The two statements of the rules agree.
LEMMA RulesAgree ==
  ASSUME NEW c, SoundSettings(c), NEW r \in Releases
  PROVE  R!RejectedBy(c, r) = "" <=> R!Listed(c, r) /\ ~(c.rejectCAM /\ R!IsCAMFor(r.title, known))
<1>1. r.seeders \in Int /\ c.minSeeders \in Int
  BY PickerAssumption DEF SoundSettings
<1>2. r.seeders < c.minSeeders <=> ~(r.seeders >= c.minSeeders)
  BY <1>1
<1>3. QED
  BY <1>2 DEF R!RejectedBy, R!Listed

\* What is found decides what is tried, whatever was found before.
PickedFrom(c, list, tried, rs) ==
    /\ R!ToSet(tried) = R!Allowed(c, rs)
    /\ \A i \in 2 .. Len(tried) : R!Judged(c, tried[i - 1]).score >= R!Judged(c, tried[i]).score
    /\ \A i \in DOMAIN list : list[i].best =>
          /\ tried # <<>> /\ list[i].release = tried[1]
          /\ list[i].score = R!Judged(c, tried[1]).score
    /\ tried # <<>> =>
          /\ \E i \in DOMAIN list : list[i].best
          /\ \A r \in R!Allowed(c, rs) : R!Judged(c, r).score <= R!Judged(c, tried[1]).score

LEMMA CandidatesAreThePick ==
  ASSUME NEW c, SoundSettings(c), NEW rs \in Seq(Releases),
         NEW list, ScoredOf(c, list, rs),
         NEW kept \in Seq(Judgements), KeptAs(kept, list, {i \in DOMAIN list : R!Eligible(c, list[i])}),
         NEW tried, tried = [i \in DOMAIN kept |-> kept[i].release]
  PROVE  /\ tried \in Seq(Releases)
         /\ \A i \in DOMAIN list : list[i].release \in Releases /\ list[i].score \in Int
         /\ PickedFrom(c, list, tried, rs)
<1> DEFINE ids == {i \in DOMAIN list : R!Eligible(c, list[i])}
           allowed == R!Allowed(c, rs)
<1>1. /\ list \in Seq(Judgements) /\ Falling(list) /\ FirstIsMarked(c, list)
      /\ \A p \in 1 .. Len(list) : /\ list[p].score = R!Judged(c, list[p].release).score
                                   /\ list[p].cam = R!IsCAMFor(list[p].release.title, known)
                                   /\ list[p].best => R!Eligible(c, list[p])
      /\ \A r : (\E p \in 1 .. Len(list) : list[p].release = r) <=> (\E i \in 1 .. Len(rs) : rs[i] = r /\ R!Listed(c, r))
      /\ (\E p \in 1 .. Len(list) : R!Eligible(c, list[p])) => \E p \in 1 .. Len(list) : list[p].best
  BY DEF ScoredOf
<1>2. Len(list) \in Nat /\ DOMAIN list = 1 .. Len(list) /\ \A p \in 1 .. Len(list) : list[p] \in Judgements
  BY <1>1
<1>3. \A p \in 1 .. Len(list) : list[p].release \in Releases /\ list[p].score \in Int
  BY <1>2 DEF Judgements
<1>4. /\ \A x : (\E i \in DOMAIN kept : kept[i] = x) <=> \E i \in ids : list[i] = x
      /\ \A i \in ids : (\A k \in ids : i <= k) => kept # <<>> /\ kept[1] = list[i]
  <2>1. DOMAIN list \cap ids = ids /\ KeptAs(kept, list, ids)
    OBVIOUS
  <2> HIDE DEF ids
  <2>2. {kept[i] : i \in DOMAIN kept} = {list[i] : i \in ids}
    BY <2>1, Zenon DEF KeptAs
  <2>3. \A x : (\E i \in DOMAIN kept : kept[i] = x) <=> x \in {kept[i] : i \in DOMAIN kept}
    OBVIOUS
  <2>4. \A x : (\E i \in ids : list[i] = x) <=> x \in {list[i] : i \in ids}
    OBVIOUS
  <2>5. \A i \in ids : (\A k \in ids : i <= k) => kept # <<>> /\ kept[1] = list[i]
    BY <2>1, Zenon DEF KeptAs
  <2>6. \A x : (\E i \in DOMAIN kept : kept[i] = x) <=> \E i \in ids : list[i] = x
    BY <2>2, <2>3, <2>4, Zenon
  <2>7. QED
    BY <2>5, <2>6
<1>5. Len(kept) \in Nat /\ DOMAIN kept = 1 .. Len(kept) /\ \A i \in 1 .. Len(kept) : kept[i] \in Judgements
  OBVIOUS
<1>6. \A i \in 1 .. Len(kept) : kept[i].release \in Releases
  BY <1>5 DEF Judgements
<1>7. /\ tried \in Seq(Releases) /\ DOMAIN tried = 1 .. Len(kept) /\ Len(tried) = Len(kept)
      /\ \A i \in 1 .. Len(kept) : tried[i] = kept[i].release
  <2>1. tried = [i \in 1 .. Len(kept) |-> kept[i].release]
    BY <1>5
  <2>2. QED
    BY <1>5, <1>6, <2>1
<1>8. \A p \in 1 .. Len(list) : p \in ids <=> ~(c.rejectCAM /\ R!IsCAMFor(list[p].release.title, known))
  BY <1>1, <1>2 DEF R!Eligible
<1>9. \A r : r \in allowed <=> \E p \in ids : list[p].release = r
  <2>1. \A r : r \in R!ToSet(rs) <=> \E i \in 1 .. Len(rs) : rs[i] = r
    BY DEF R!ToSet
  <2>2. \A r : r \in R!ToSet(rs) => r \in Releases
    BY DEF R!ToSet
  <2>3. ASSUME NEW r \in allowed PROVE \E p \in ids : list[p].release = r
    <3>1. r \in Releases /\ r \in R!ToSet(rs) /\ R!RejectedBy(c, r) = ""
      BY <2>2 DEF R!Allowed
    <3>2. R!Listed(c, r) /\ ~(c.rejectCAM /\ R!IsCAMFor(r.title, known))
      BY <3>1, RulesAgree
    <3>3. PICK p \in 1 .. Len(list) : list[p].release = r
      BY <1>1, <2>1, <3>1, <3>2
    <3>4. QED
      BY <1>8, <3>2, <3>3
  <2>4. ASSUME NEW p \in ids PROVE list[p].release \in allowed
    <3>1. p \in 1 .. Len(list)
      BY <1>2
    <3>2. list[p].release \in R!ToSet(rs) /\ R!Listed(c, list[p].release)
      BY <1>1, <2>1, <3>1
    <3>3. ~(c.rejectCAM /\ R!IsCAMFor(list[p].release.title, known))
      BY <1>8, <3>1
    <3>4. list[p].release \in Releases
      BY <1>3, <3>1
    <3>5. QED
      BY <3>2, <3>3, <3>4, RulesAgree DEF R!Allowed
  <2> HIDE DEF allowed, ids
  <2>5. QED
    BY <2>3, <2>4
<1>10. R!ToSet(tried) = allowed
  <2>1. \A r : r \in R!ToSet(tried) <=> \E i \in 1 .. Len(kept) : tried[i] = r
    BY <1>7 DEF R!ToSet
  <2>2. \A r : (\E i \in 1 .. Len(kept) : kept[i].release = r) <=> \E p \in ids : list[p].release = r
    <3> HIDE DEF ids
    <3>1. ASSUME NEW i \in 1 .. Len(kept) PROVE \E p \in ids : list[p] = kept[i]
      BY <1>4, <1>5
    <3>2. ASSUME NEW p \in ids PROVE \E i \in 1 .. Len(kept) : kept[i] = list[p]
      BY <1>4, <1>5
    <3>3. ASSUME NEW r, NEW i \in 1 .. Len(kept), kept[i].release = r PROVE \E p \in ids : list[p].release = r
      BY <3>1, <3>3
    <3>4. ASSUME NEW r, NEW p \in ids, list[p].release = r PROVE \E i \in 1 .. Len(kept) : kept[i].release = r
      BY <3>2, <3>4
    <3>5. QED
      BY <3>3, <3>4
  <2> HIDE DEF ids, allowed
  <2>3. \A r : r \in R!ToSet(tried) <=> r \in allowed
    BY <1>7, <1>9, <2>1, <2>2
  <2>4. QED
    BY <2>3
<1> HIDE DEF allowed
<1>11. tried # <<>> <=> ids # {}
  <2>1. (\E i \in 1 .. Len(kept) : TRUE) <=> \E i \in ids : TRUE
    <3> HIDE DEF ids
    <3>1. QED
      BY <1>4, <1>5
  <2>2. tried # <<>> <=> Len(kept) # 0
    BY <1>7
  <2> HIDE DEF ids
  <2>3. QED
    BY <1>5, <2>1, <2>2
<1>12. ASSUME ids # {}
       PROVE  \E i \in ids : (\A k \in ids : i <= k) /\ tried # <<>> /\ tried[1] = list[i].release
  <2>1. ids \subseteq Nat
    BY <1>2
  <2> HIDE DEF ids
  <2>2. PICK i \in ids : \A k \in ids : i <= k
    BY <1>12, <2>1, LeastOfSet
  <2>3. kept # <<>> /\ kept[1] = list[i]
    BY <1>4, <2>2
  <2>4. 1 \in 1 .. Len(kept)
    BY <1>4, <1>5, <2>3
  <2>5. QED
    BY <1>7, <1>11, <1>12, <2>2, <2>3, <2>4
<1>13. ASSUME NEW p \in DOMAIN list, list[p].best PROVE tried # <<>> /\ list[p].release = tried[1]
  <2>1. p \in ids
    BY <1>1, <1>2, <1>13
  <2>2. PICK i \in ids : (\A k \in ids : i <= k) /\ tried # <<>> /\ tried[1] = list[i].release
    <3> HIDE DEF ids
    <3>1. QED
      BY <1>12, <2>1
  <2>3. i \in 1 .. Len(list) /\ p \in 1 .. Len(list) /\ R!Eligible(c, list[i]) /\ i <= p
    BY <1>2, <2>1, <2>2
  <2>4. ~(i < p)
    BY <1>1, <1>13, <2>3 DEF FirstIsMarked
  <2>5. i = p
    BY <2>3, <2>4
  <2>6. QED
    BY <2>2, <2>5
<1>14. ASSUME tried # <<>> PROVE \E i \in DOMAIN list : list[i].best
  <2>1. PICK i \in ids : TRUE
    BY <1>11, <1>14
  <2>2. QED
    BY <1>1, <1>2, <2>1
<1>15. ASSUME tried # <<>>, NEW r \in allowed PROVE R!Judged(c, r).score <= R!Judged(c, tried[1]).score
  <2>1. PICK p \in ids : list[p].release = r
    BY <1>9, <1>15
  <2>2. PICK i \in ids : (\A k \in ids : i <= k) /\ tried # <<>> /\ tried[1] = list[i].release
    <3> HIDE DEF ids
    <3>1. QED
      BY <1>12, <2>1
  <2>3. i \in 1 .. Len(list) /\ p \in 1 .. Len(list) /\ i <= p
    BY <1>2, <2>1, <2>2
  <2>4. list[i].score >= list[p].score
    BY <1>1, <2>3 DEF Falling
  <2>5. list[i].score = R!Judged(c, tried[1]).score /\ list[p].score = R!Judged(c, r).score
    BY <1>1, <2>1, <2>2, <2>3
  <2>6. list[i].score \in Int /\ list[p].score \in Int
    BY <1>3, <2>3
  <2>7. QED
    BY <2>4, <2>5, <2>6
<1>18. \A i \in 2 .. Len(tried) : R!Judged(c, tried[i - 1]).score >= R!Judged(c, tried[i]).score
  <2> SUFFICES ASSUME NEW i \in 2 .. Len(tried)
               PROVE  R!Judged(c, tried[i - 1]).score >= R!Judged(c, tried[i]).score
    OBVIOUS
  <2>1. i \in 1 .. Len(kept) /\ i - 1 \in 1 .. Len(kept) /\ i - 1 < i
    BY <1>5, <1>7
  <2>2. InOrder(kept, list, Len(list), ids)
    BY DEF KeptAs
  <2>3. PICK a, b \in 1 .. Len(list) : a < b /\ kept[i - 1] = list[a] /\ kept[i] = list[b]
    <3> HIDE DEF ids
    <3>1. QED
      BY <2>1, <2>2 DEF InOrder
  <2>4. list[a].score >= list[b].score
    BY <1>1, <1>2, <2>3 DEF Falling
  <2>5. list[a].score = R!Judged(c, list[a].release).score /\ list[b].score = R!Judged(c, list[b].release).score
    BY <1>1
  <2>6. tried[i - 1] = list[a].release /\ tried[i] = list[b].release
    BY <1>7, <2>1, <2>3
  <2>7. QED
    BY <2>4, <2>5, <2>6
<1>16. PickedFrom(c, list, tried, rs)
  <2>1. \A r \in allowed : tried # <<>> => R!Judged(c, r).score <= R!Judged(c, tried[1]).score
    BY <1>15
  <2>2. \A p \in DOMAIN list : list[p].best =>
            /\ tried # <<>> /\ list[p].release = tried[1]
            /\ list[p].score = R!Judged(c, tried[1]).score
    BY <1>1, <1>2, <1>13
  <2>3. tried # <<>> => \E i \in DOMAIN list : list[i].best
    BY <1>14
  <2>4. QED
    BY <1>10, <1>18, <2>1, <2>2, <2>3, Zenon DEF PickedFrom, allowed
<1>17. QED
  BY <1>2, <1>3, <1>7, <1>16

\* The property, of what was read and made of it.
PicksWell(mine, theirs, all, counted, asked, list, tried, told) ==
    /\ R!ToSet(tried) = R!Allowed(mine, counted)
    /\ \A i \in 2 .. Len(tried) : R!Judged(mine, tried[i - 1]).score >= R!Judged(mine, tried[i]).score
    /\ tried = <<>> => \A i \in DOMAIN all : all[i] \in R!ToSet(counted) => told[i] # ""
    /\ R!Allowed(theirs, asked) # {} => \E i \in DOMAIN list : list[i].best
    /\ \A i \in DOMAIN list : list[i].best =>
          /\ list[i].release \in R!Allowed(theirs, asked)
          /\ \A r \in R!Allowed(theirs, asked) : R!Judged(theirs, r).score <= list[i].score
          /\ mine = theirs /\ counted = asked => tried # <<>> /\ tried[1] = list[i].release

PickedWell ==
    PicksWell(R!WorkersConfig, R!DialogsConfig, R!Answer, R!Narrowed(R!Answer), found, scored, candidates, diagnosed)

LEMMA OnePickIsThat == R!OnePick <=> PickedWell
BY Zenon DEF R!OnePick, PickedWell, PicksWell

PickInv == R!TypeOK /\ PickedWell

LEMMA PickStarts == R!Init => PickInv
<1> SUFFICES ASSUME R!Init PROVE PickInv
  OBVIOUS
<1>1. found = <<>> /\ packs = <<>> /\ scored = <<>> /\ candidates = <<>> /\ diagnosed = <<>>
  BY DEF R!Init
<1>2. R!TypeOK
  BY <1>1 DEF R!Init, R!TypeOK
<1>3. R!Answer = <<>> /\ R!Narrowed(<<>>) = <<>>
  BY <1>1 DEF R!Answer, R!Narrowed
<1>4. \A c : R!Allowed(c, <<>>) = {} /\ R!ToSet(<<>>) = {}
  BY DEF R!Allowed, R!ToSet
<1>5. ASSUME NEW mine, NEW theirs PROVE PicksWell(mine, theirs, <<>>, <<>>, <<>>, <<>>, <<>>, <<>>)
  <2>1. DOMAIN (<<>>) = {} /\ \A i \in 2 .. Len(<<>>) : FALSE
    OBVIOUS
  <2>2. QED
    BY <1>4, <2>1, Zenon DEF PicksWell
<1>6. PickedWell
  BY <1>1, <1>3, <1>5, Zenon DEF PickedWell
<1>7. QED
  BY <1>2, <1>6 DEF PickInv

\* The rules and the points depend on the title only, beside the settings.
LEMMA SameRules ==
  ASSUME known' = known
  PROVE  /\ \A c, rs : (R!Allowed(c, rs))' = R!Allowed(c, rs)
         /\ \A c, x : (R!Judged(c, x))' = R!Judged(c, x)
         /\ \A mine, theirs, all, counted, asked, list, tried, told :
               (PicksWell(mine, theirs, all, counted, asked, list, tried, told))'
                   <=> PicksWell(mine, theirs, all, counted, asked, list, tried, told)
<1>1. ASSUME NEW c, NEW rs PROVE (R!Allowed(c, rs))' = R!Allowed(c, rs)
  <2>1. \A x : (R!RejectedBy(c, x))' = R!RejectedBy(c, x)
    BY DEF R!RejectedBy, R!TooLarge
  <2>2. QED
    BY <2>1 DEF R!Allowed
<1>2. ASSUME NEW c, NEW x PROVE (R!Judged(c, x))' = R!Judged(c, x)
  BY DEF R!Judged
<1>3. ASSUME NEW mine, NEW theirs, NEW all, NEW counted, NEW asked, NEW list, NEW tried, NEW told
      PROVE  (PicksWell(mine, theirs, all, counted, asked, list, tried, told))'
                 <=> PicksWell(mine, theirs, all, counted, asked, list, tried, told)
  BY <1>1, <1>2, Zenon DEF PicksWell
<1>4. QED
  BY <1>1, <1>2, <1>3, Zenon

\* What Score lists and what is left of it for the worker, for any answer.
LEMMA PickingWorks ==
  ASSUME NEW c, SoundSettings(c), NEW rs \in Seq(Releases),
         NEW list, list = R!Score(c, rs),
         NEW kept, kept = R!Keep(list, {i \in DOMAIN list : R!Eligible(c, list[i])})
  PROVE  /\ [i \in DOMAIN kept |-> kept[i].release] \in Seq(Releases)
         /\ \A i \in DOMAIN list : list[i].release \in Releases /\ list[i].score \in Int
         /\ PickedFrom(c, list, [i \in DOMAIN kept |-> kept[i].release], rs)
<1>1. ScoredOf(c, list, rs)
  BY ScoreWorks
<1>2. list \in Seq(Judgements)
  BY <1>1 DEF ScoredOf
<1>3. kept \in Seq(Judgements) /\ KeptAs(kept, list, {i \in DOMAIN list : R!Eligible(c, list[i])})
  BY <1>2, KeepWorks
<1>4. QED
  BY <1>1, <1>3, CandidatesAreThePick

\* One of a sequence.
LEMMA FirstIsOne ==
  ASSUME NEW t \in Seq(Releases)
  PROVE  (t # <<>> <=> R!ToSet(t) # {}) /\ (t # <<>> => t[1] \in R!ToSet(t))
<1>1. Len(t) \in Nat /\ DOMAIN t = 1 .. Len(t) /\ (t = <<>> <=> Len(t) = 0)
  OBVIOUS
<1>2. R!ToSet(t) = {t[i] : i \in 1 .. Len(t)}
  BY <1>1, Zenon DEF R!ToSet
<1>3. ASSUME t # <<>> PROVE t[1] \in R!ToSet(t)
  <2>1. 1 \in 1 .. Len(t)
    BY <1>1, <1>3
  <2>2. QED
    BY <1>2, <2>1
<1>4. ASSUME t = <<>> PROVE R!ToSet(t) = {}
  <2>1. 1 .. Len(t) = {}
    BY <1>1, <1>4
  <2>2. QED
    BY <1>2, <2>1
<1>5. QED
  BY <1>3, <1>4

LEMMA ReadWorks ==
  ASSUME R!TypeOK, found' \in Seq(Releases), packs' \in Seq(Releases), R!Read
  PROVE  PickInv'
<1> DEFINE mine == R!WorkersConfig
           theirs == R!DialogsConfig
           answer == IF episode /\ found' = <<>> THEN packs' ELSE found'
           counted == R!Narrowed(answer)
           list == R!Score(mine, counted)
           left_ == R!Keep(list, {i \in DOMAIN list : R!Eligible(mine, list[i])})
           tried == [i \in DOMAIN left_ |-> left_[i].release]
           shown == R!Score(theirs, found')
           open == R!Keep(shown, {i \in DOMAIN shown : R!Eligible(theirs, shown[i])})
           wouldTry == [i \in DOMAIN open |-> open[i].release]
<1>1. cfg' = cfg /\ over' = over /\ timed' = timed /\ known' = known /\ episode' = episode
  BY DEF R!Read
<1>2. R!Answer' = answer
  BY <1>1 DEF R!Answer
<1>3. /\ scored' = shown /\ candidates' = tried
      /\ diagnosed' = IF tried # <<>> THEN <<>> ELSE [i \in DOMAIN answer |-> R!RejectedBy(mine, answer[i])]
  <2> HIDE DEF answer
  <2>1. QED
    BY <1>2, Zenon DEF R!Read
<1>4. R!WorkersConfig' = mine /\ R!DialogsConfig' = theirs /\ (R!Narrowed(R!Answer))' = counted
  <2>1. R!WorkersConfig' = mine /\ R!DialogsConfig' = theirs
    BY <1>1 DEF R!WorkersConfig, R!DialogsConfig
  <2>2. \A rs : (R!Narrowed(rs))' = R!Narrowed(rs)
    BY <1>1 DEF R!Narrowed
  <2> HIDE DEF answer
  <2>3. QED
    BY <1>2, <2>1, <2>2, Zenon
<1>5. SoundSettings(mine) /\ SoundSettings(theirs)
  BY SettingsAreSound DEF R!TypeOK
<1>6. answer \in Seq(Releases)
  OBVIOUS
<1> HIDE DEF answer
<1>7. counted \in Seq(Releases)
  BY <1>6, NarrowedIsOfTheAnswer
<1> HIDE DEF mine, theirs, counted
<1>8. tried \in Seq(Releases) /\ PickedFrom(mine, list, tried, counted)
  BY <1>5, <1>7, PickingWorks
<1>9. /\ wouldTry \in Seq(Releases) /\ PickedFrom(theirs, shown, wouldTry, found')
      /\ \A i \in DOMAIN shown : shown[i].release \in Releases /\ shown[i].score \in Int
  BY <1>5, PickingWorks
<1>10. mine = theirs /\ counted = found' => tried = wouldTry
  OBVIOUS
<1> HIDE DEF tried, wouldTry, shown, list
<1>11. tried = <<>> => \A i \in DOMAIN answer : answer[i] \in R!ToSet(counted) => diagnosed'[i] # ""
  <2> SUFFICES ASSUME tried = <<>>, NEW i \in DOMAIN answer, answer[i] \in R!ToSet(counted) PROVE diagnosed'[i] # ""
    OBVIOUS
  <2>1. R!Allowed(mine, counted) = {}
    BY <1>8, FirstIsOne DEF PickedFrom
  <2>2. diagnosed'[i] = R!RejectedBy(mine, answer[i])
    BY <1>3
  <2>3. QED
    BY <2>1, <2>2 DEF R!Allowed
<1>12. R!Allowed(theirs, found') # {} => \E i \in DOMAIN shown : shown[i].best
  BY <1>9, FirstIsOne DEF PickedFrom
<1>13. ASSUME NEW i \in DOMAIN shown, shown[i].best
       PROVE  /\ shown[i].release \in R!Allowed(theirs, found')
              /\ \A r \in R!Allowed(theirs, found') : R!Judged(theirs, r).score <= shown[i].score
              /\ mine = theirs /\ counted = found' => tried # <<>> /\ tried[1] = shown[i].release
  <2>1. /\ wouldTry # <<>> /\ shown[i].release = wouldTry[1]
        /\ shown[i].score = R!Judged(theirs, wouldTry[1]).score
        /\ \A r \in R!Allowed(theirs, found') : R!Judged(theirs, r).score <= R!Judged(theirs, wouldTry[1]).score
    BY <1>9, <1>13, Zenon DEF PickedFrom
  <2>2. wouldTry[1] \in R!Allowed(theirs, found')
    BY <1>9, <2>1, FirstIsOne DEF PickedFrom
  <2>3. QED
    BY <1>10, <2>1, <2>2, Zenon
<1>14. PicksWell(mine, theirs, answer, counted, found', shown, tried, diagnosed')
  <2>1. R!ToSet(tried) = R!Allowed(mine, counted)
        /\ \A i \in 2 .. Len(tried) : R!Judged(mine, tried[i - 1]).score >= R!Judged(mine, tried[i]).score
    BY <1>8 DEF PickedFrom
  <2>2. QED
    BY <1>11, <1>12, <1>13, <2>1, Zenon DEF PicksWell
<1>15. PickedWell'
  BY <1>1, <1>2, <1>3, <1>4, <1>14, SameRules, Zenon DEF PickedWell
<1>16. \A i \in DOMAIN diagnosed' : diagnosed'[i] \in R!Verdicts
  <2>1. \A x : R!RejectedBy(mine, x) \in R!Verdicts
    BY DEF R!RejectedBy, R!Verdicts
  <2>2. QED
    BY <1>3, <2>1
<1>17. R!TypeOK'
  BY <1>1, <1>3, <1>8, <1>9, <1>16 DEF R!TypeOK
<1>18. QED
  BY <1>15, <1>17 DEF PickInv

LEMMA AnswersWork ==
  ASSUME PickInv, NEW r \in Releases, R!Find(r) \/ R!FindPack(r)
  PROVE  PickInv'
<1>1. R!TypeOK /\ found \in Seq(Releases) /\ packs \in Seq(Releases)
  BY DEF PickInv, R!TypeOK
<1>2. R!Read /\ found' \in Seq(Releases) /\ packs' \in Seq(Releases)
  <2>1. CASE R!Find(r)
    BY <1>1, <2>1 DEF R!Find
  <2>2. CASE R!FindPack(r)
    BY <1>1, <2>2 DEF R!FindPack
  <2>3. QED
    BY <2>1, <2>2
<1>3. QED
  BY <1>1, <1>2, ReadWorks

\* Every answer of the indexer is picked from soundly.
LEMMA PickInvariance == R!Spec => []PickInv
<1>1. PickInv /\ [R!Next]_R!vars => PickInv'
  <2> SUFFICES ASSUME PickInv, [R!Next]_R!vars PROVE PickInv'
    OBVIOUS
  <2>1. CASE R!Next
    BY <2>1, AnswersWork DEF R!Next
  <2>2. CASE UNCHANGED R!vars
    <3>1. /\ cfg' = cfg /\ over' = over /\ timed' = timed /\ known' = known /\ episode' = episode
          /\ found' = found /\ packs' = packs
          /\ scored' = scored /\ candidates' = candidates /\ diagnosed' = diagnosed
      BY <2>2 DEF R!vars
    <3>2. R!TypeOK'
      BY <3>1 DEF PickInv, R!TypeOK
    <3>3. PickedWell'
      <4>1. R!WorkersConfig' = R!WorkersConfig /\ R!DialogsConfig' = R!DialogsConfig
            /\ R!Answer' = R!Answer /\ (R!Narrowed(R!Answer))' = R!Narrowed(R!Answer)
        BY <3>1 DEF R!WorkersConfig, R!DialogsConfig, R!Answer, R!Narrowed
      <4>2. QED
        BY <3>1, <4>1, SameRules, Zenon DEF PickInv, PickedWell
    <3>4. QED
      BY <3>2, <3>3 DEF PickInv
  <2>3. QED
    BY <2>1, <2>2
<1>2. QED
  BY PickStarts, <1>1, PTL DEF R!Spec

\* The worker tries exactly what its rules allow, the best first, and the diagnosis has
\* a reason against the rest; the dialog preselects the best of what its own rules
\* allow; and where the two read the same answer under the same settings they agree
\* (picker.go:421, main.go:1742, main.go:3477).
THEOREM PreselectedIsTried == R!Spec => []OnePick
<1>1. PickInv => OnePick
  BY OnePickIsThat DEF PickInv, OnePick
<1>2. QED
  BY PickInvariance, <1>1, PTL

-----------------------------------------------------------------------------
(* HealthCheck and Tunnel, whose properties are of liveness: typing.        *)

\* The row that follows is one of the list.
LEMMA FollowingIsListed ==
  ASSUME NEW list, list \subseteq Nat, list # {}, NEW i \in Nat
  PROVE  H!Following(list, i) \in list
<1>1. ASSUME NEW S, S \subseteq Nat, S # {} PROVE H!Min(S) \in S
  BY <1>1, LeastOfSet DEF H!Min
<1>2. CASE \E j \in list : j > i
  <2> DEFINE S == {j \in list : j > i}
  <2>1. S \subseteq Nat /\ S # {}
    BY <1>2
  <2>2. H!Min(S) \in S
    BY <1>1, <2>1
  <2>3. QED
    BY <1>2, <2>2 DEF H!Following
<1>3. CASE ~\E j \in list : j > i
  BY <1>1, <1>3 DEF H!Following
<1>4. QED
  BY <1>2, <1>3

LEMMA LargerOfTwo ==
  ASSUME NEW m \in Nat, NEW n \in Nat
  PROVE  H!Max({m, n}) \in {m, n}
BY DEF H!Max

\* The lists, the cursor and the ids stay within their bounds (main.go:4030).
THEOREM HealthTyping == H!Spec => []H!TypeOK
<1> USE HealthAssumption
<1>1. H!Init => H!TypeOK
  BY DEF H!Init, H!TypeOK, H!Ids
<1>2. ASSUME H!TypeOK, [H!Next]_H!vars PROVE H!TypeOK'
  <2> USE <1>2 DEF H!TypeOK, H!run
  <2>1. CASE H!Insert
    BY <2>1 DEF H!Insert, H!Ids
  <2>2. ASSUME NEW i \in H!Ids, H!Rewrite(i) \/ H!Remove(i) \/ H!ReleasesChange(i) PROVE H!TypeOK'
    BY <2>2 DEF H!Rewrite, H!Remove, H!ReleasesChange
  <2>3. CASE H!Begin \/ H!SearchFails \/ H!Expire \/ H!End \/ H!Cut
    BY <2>3 DEF H!Begin, H!SearchFails, H!Expire, H!End, H!Cut, H!Looked, H!Rows
  <2>4. ASSUME NEW saved \in BOOLEAN, H!Look(saved) PROVE H!TypeOK'
    <3>0. left \subseteq Nat /\ at \in Nat /\ left # {} /\ at' = H!Following(left, at)
      BY <2>4 DEF H!Look, H!Ids
    <3>1. at' \in left
      BY <3>0, FollowingIsListed
    <3>2. at' \in 0 .. MaxId /\ checked' \in 0 .. PerRun
      BY <2>4, <3>1 DEF H!Look, H!Ids, H!Capped
    <3>3. QED
      BY <2>4, <3>2 DEF H!Look
  <2>5. CASE H!Revive
    <3> DEFINE id == IF at \in H!Rows THEN at ELSE lastId + 1
    <3>1. lastId' \in 0 .. MaxId
      BY <2>5, LargerOfTwo DEF H!Revive, H!Ids
    <3>2. rowStatus' = rowStatus \/ \E j \in H!Ids : rowStatus' = [rowStatus EXCEPT ![j] = "ready"]
      BY <2>5 DEF H!Revive
    <3>3. phase' = "next" /\ UNCHANGED <<alive, cursor, left, copies, at, checked>>
      BY <2>5 DEF H!Revive
    <3>4. rowStatus' \in [H!Ids -> {"none", "ready", "stale"}]
      BY <3>2
    <3>5. QED
      BY <3>1, <3>3, <3>4
  <2>6. CASE UNCHANGED H!vars
    BY <2>6 DEF H!vars
  <2>7. QED
    BY <1>2, <2>1, <2>2, <2>3, <2>4, <2>5, <2>6 DEF H!Next, H!Run
<1>3. QED
  BY <1>1, <1>2, PTL DEF H!Spec

\* What an activation remembers is a config, or that there was none.
THEOREM TunnelTyping == N!Spec => []N!TypeOK
<1>0. N!Idle \in N!Runs
  BY DEF N!Idle, N!Runs
<1>1. N!Init => N!TypeOK
  BY <1>0 DEF N!Init, N!TypeOK
<1>2. ASSUME N!TypeOK, [N!Next]_N!vars PROVE N!TypeOK'
  <2> USE <1>2 DEF N!TypeOK, N!host
  <2>1. ASSUME NEW s \in Slugs, N!Upload(s) \/ N!Remove(s) \/ N!ServerChanges(s) PROVE N!TypeOK'
    BY <2>1 DEF N!Upload, N!Remove, N!ServerChanges
  <2>2. ASSUME NEW s \in Slugs, NEW h \in Activations, N!Activate(h, s) PROVE N!TypeOK'
    BY <2>2 DEF N!Activate, N!Becomes, N!Runs
  <2>3. ASSUME NEW h \in Activations, NEW a \in {"idle", "down", "up", "wait", "mark", "restart"}, N!Goes(h, a)
        PROVE run' \in [Activations -> N!Runs]
    BY <2>3 DEF N!Goes, N!Becomes, N!Runs
  <2>4. ASSUME NEW h \in Activations, N!Becomes(h, N!Idle) PROVE run' \in [Activations -> N!Runs]
    BY <1>0, <2>4 DEF N!Becomes
  <2>5. ASSUME NEW h \in Activations, N!Handle(h) PROVE N!TypeOK'
    <3>1. CASE N!TakeDown(h)
      BY <2>3, <3>1 DEF N!TakeDown, N!Down
    <3>2. CASE N!BringUp(h)
      BY <2>3, <3>2 DEF N!BringUp, N!UpWorks
    <3>3. CASE N!GiveUp(h)
      BY <2>4, <3>3 DEF N!GiveUp, N!UpFails, N!UpCutOff, N!Restored, N!Runs
    <3>4. CASE N!Handshake(h)
      BY <2>3, <3>4 DEF N!Handshake
    <3>5. CASE N!Mark(h)
      BY <2>3, <3>5 DEF N!Mark, N!Runs
    <3>6. CASE N!RestartTorr(h)
      BY <2>4, <3>6 DEF N!RestartTorr
    <3>7. QED
      BY <2>5, <3>1, <3>2, <3>3, <3>4, <3>5, <3>6 DEF N!Handle
  <2>6. CASE N!Watch
    BY <2>6 DEF N!Watch, N!Probe, N!Bounce, N!BounceUp, N!Recheck, N!Rebuild, N!LastCheck, N!Outside,
       N!Healthy, N!StopForLeak, N!Down, N!UpWorks, N!UpFails
  <2>7. CASE N!Stop \/ N!RouteChanges \/ N!PortChanges \/ UNCHANGED N!vars
    BY <1>0, <2>7 DEF N!Stop, N!RouteChanges, N!PortChanges, N!vars
  <2>8. QED
    BY <1>2, <2>1, <2>2, <2>5, <2>6, <2>7 DEF N!Next
<1>3. QED
  BY <1>1, <1>2, PTL DEF N!Spec

\* Typing: what the components hold has the form it should (the type invariants of the
\* modules, each under its own specification).
THEOREM BackgroundTyping ==
  Spec /\ H!Spec /\ T!Spec /\ K!Spec /\ L!Spec /\ N!Spec /\ R!Spec /\ F!Spec => []AllTypeOK
<1>1. FileInv => F!TypeOK
  BY DEF FileInv, Answered, F!TypeOK
<1>2. TaskInv /\ TokenInv /\ LimitInv /\ PickInv => T!TypeOK /\ K!TypeOK /\ L!TypeOK /\ R!TypeOK
  BY DEF TaskInv, TokenInv, LimitInv, PickInv
<1>3. TypeOK /\ H!TypeOK /\ T!TypeOK /\ K!TypeOK /\ L!TypeOK /\ N!TypeOK /\ R!TypeOK /\ F!TypeOK => AllTypeOK
  BY DEF AllTypeOK
<1>4. QED
  BY <1>1, <1>2, <1>3, WarmTyping, HealthTyping, TaskInvariance, TokenInvariance, LimitInvariance,
     TunnelTyping, PickInvariance, FileInvariance, PTL
=============================================================================
