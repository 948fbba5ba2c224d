------------------------- MODULE ThreadPool_proofs -------------------------
(***************************************************************************)
(* Safety of the worker pool for any number of workers, submitters, tasks  *)
(* and calls of start() and stop().                                        *)
(*                                                                         *)
(* StopDrains looks at the state after stop() has returned; the reason is  *)
(* further back.  A worker leaves only when the pool is stopping and the   *)
(* queue is empty, and from then on submit() refuses, so one worker that   *)
(* has left stands for an empty queue (GoneMeansDrained); nobody has left  *)
(* before stop() begins because start() creates everybody before it        *)
(* returns (PhaseInv).  That all accepted tasks are then finished is       *)
(* TasksInv: an accepted task is queued, held by a worker, or finished.    *)
(***************************************************************************)
EXTENDS ThreadPool, FiniteSetTheorems, TLAPS

Queued(t) == \E i \in 1 .. Len(tasks) : tasks[i] = t
Held(t) == \E w \in Workers : task[w] = t

\* How far the owner is in start() and stop().
PhaseInv ==
    /\ ~running => owner = "idle" /\ tasks = <<>>
                   /\ \A w \in Workers : pc[w] = "none"
    /\ owner \in {"idle", "spawning"} => ~stopping
    /\ owner \in {"notifying", "joining", "resetting"} => stopping
    /\ running /\ owner = "idle" => \A w \in Workers : pc[w] # "none"
    /\ owner = "resetting" => \A w \in Workers : pc[w] = "none"

\* A worker that has left a stopping pool found the queue empty.
GoneMeansDrained ==
    stopping /\ (\E w \in Workers : pc[w] = "none") => tasks = <<>>

\* Where an accepted task is; everything queued or held was accepted.
TasksInv ==
    /\ \A t \in accepted : t \in finished \/ Queued(t) \/ Held(t)
    /\ \A i \in 1 .. Len(tasks) : tasks[i] \in accepted
    /\ \A w \in Workers : task[w] # NoTask => task[w] \in accepted

DrainInv == TypeOK /\ PhaseInv /\ GoneMeansDrained /\ TasksInv

IndInv == DrainInv /\ NoSleepOverBacklog

-----------------------------------------------------------------------------
(* Types.                                                                  *)

\* The flags are Boolean.
LEMMA FlagsStep ==
    running \in BOOLEAN /\ stopping \in BOOLEAN /\ [Next]_vars
        => running' \in BOOLEAN /\ stopping' \in BOOLEAN
<1> SUFFICES ASSUME running \in BOOLEAN, stopping \in BOOLEAN, [Next]_vars
             PROVE  running' \in BOOLEAN /\ stopping' \in BOOLEAN
  OBVIOUS
<1>1. CASE Start
  BY <1>1, Zenon DEF Start
<1>2. CASE StopBegin
  BY <1>2, Zenon DEF StopBegin
<1>3. CASE StopReturns
  BY <1>3, Zenon DEF StopReturns
<1>4. CASE UNCHANGED <<running, stopping>>
  BY <1>4
<1> QED BY <1>1, <1>2, <1>3, <1>4 DEF Next, OwnerStep, WorkerStep, Spawn,
       StopNotifies, StopJoins, Submit, NotifyOne, Sleep, Exit, Take, Finish,
       vars

\* What taking the first task does to the queue.
LEMMA TakeFirst ==
    ASSUME NEW s \in Seq(Tasks), s # <<>>
    PROVE  /\ Head(s) \in Tasks /\ Head(s) = s[1] /\ 1 \in 1 .. Len(s)
           /\ Tail(s) \in Seq(Tasks) /\ Len(Tail(s)) = Len(s) - 1
           /\ \A i \in 1 .. Len(Tail(s)) : i + 1 \in 1 .. Len(s)
                                           /\ Tail(s)[i] = s[i + 1]
OBVIOUS

\* Every step keeps the types.
LEMMA TypesStep ==
    TypeOK /\ TasksInv /\ [Next]_vars => TypeOK'
<1> SUFFICES ASSUME TypeOK, TasksInv, [Next]_vars
             PROVE  TypeOK'
  OBVIOUS
<1>0. running' \in BOOLEAN /\ stopping' \in BOOLEAN
  BY FlagsStep DEF TypeOK
<1> USE <1>0 DEF TypeOK, history
<1>1. CASE Start
  BY <1>1 DEF Start
<1>2. CASE Spawn
  BY <1>2, TaskAssumption DEF Spawn, In
<1>3. CASE StopBegin
  BY <1>3 DEF StopBegin
<1>4. CASE StopNotifies
  BY <1>4 DEF StopNotifies, Wakened, In
<1>5. CASE StopJoins
  BY <1>5 DEF StopJoins
<1>6. CASE StopReturns
  BY <1>6 DEF StopReturns
<1>7. ASSUME NEW s \in Submitters, NotifyOne(s) PROVE TypeOK'
  BY <1>7 DEF NotifyOne, In
<1>8. ASSUME NEW s \in Submitters, NEW t \in Tasks, Submit(s, t)
      PROVE  TypeOK'
  BY <1>8 DEF Submit
<1>9. ASSUME NEW w \in Workers, Sleep(w) PROVE TypeOK'
  BY <1>9 DEF Sleep
<1>10. ASSUME NEW w \in Workers, Exit(w) PROVE TypeOK'
  BY <1>10 DEF Exit
<1>11. ASSUME NEW w \in Workers, Take(w) PROVE TypeOK'
  BY <1>11, TakeFirst, TaskAssumption DEF Take
<1>12. ASSUME NEW w \in Workers, Finish(w) PROVE TypeOK'
  BY <1>12 DEF Finish, TasksInv
<1>13. CASE UNCHANGED vars
  BY <1>13 DEF vars
<1> QED BY <1>1, <1>2, <1>3, <1>4, <1>5, <1>6, <1>7, <1>8, <1>9, <1>10, <1>11,
           <1>12, <1>13 DEF Next, OwnerStep, WorkerStep

-----------------------------------------------------------------------------
(* Draining.                                                               *)

\* Every step keeps which threads exist in which phase of start() and stop().
LEMMA PhaseStep ==
    TypeOK /\ PhaseInv /\ GoneMeansDrained /\ [Next]_vars
        => PhaseInv' /\ GoneMeansDrained'
<1> SUFFICES ASSUME TypeOK, PhaseInv, GoneMeansDrained, [Next]_vars
             PROVE  PhaseInv' /\ GoneMeansDrained'
  OBVIOUS
<1> USE DEF TypeOK, PhaseInv, GoneMeansDrained, In
<1>1. CASE Start
  BY <1>1 DEF Start
<1>2. CASE Spawn
  BY <1>2 DEF Spawn
<1>3. CASE StopBegin
  BY <1>3 DEF StopBegin
<1>4. CASE StopNotifies
  BY <1>4 DEF StopNotifies, Wakened
<1>5. CASE StopJoins
  BY <1>5 DEF StopJoins
<1>6. CASE StopReturns
  BY <1>6, PoolAssumption DEF StopReturns
<1>7. ASSUME NEW s \in Submitters, NotifyOne(s)
      PROVE  PhaseInv' /\ GoneMeansDrained'
  BY <1>7 DEF NotifyOne
<1>8. ASSUME NEW s \in Submitters, NEW t \in Tasks, Submit(s, t)
      PROVE  PhaseInv' /\ GoneMeansDrained'
  BY <1>8 DEF Submit
<1>9. ASSUME NEW w \in Workers, Sleep(w)
      PROVE  PhaseInv' /\ GoneMeansDrained'
  BY <1>9 DEF Sleep
<1>10. ASSUME NEW w \in Workers, Exit(w)
       PROVE  PhaseInv' /\ GoneMeansDrained'
  BY <1>10 DEF Exit, MayExit
<1>11. ASSUME NEW w \in Workers, Take(w)
       PROVE  PhaseInv' /\ GoneMeansDrained'
  BY <1>11 DEF Take
<1>12. ASSUME NEW w \in Workers, Finish(w)
       PROVE  PhaseInv' /\ GoneMeansDrained'
  BY <1>12 DEF Finish
<1>13. CASE UNCHANGED vars
  BY <1>13 DEF vars
<1> QED BY <1>1, <1>2, <1>3, <1>4, <1>5, <1>6, <1>7, <1>8, <1>9, <1>10, <1>11,
           <1>12, <1>13 DEF Next, OwnerStep, WorkerStep

\* No step loses a task: submit() queues it, a worker takes it, then finishes it.
LEMMA TasksStep ==
    TypeOK /\ TasksInv /\ [Next]_vars => TasksInv'
<1> SUFFICES ASSUME TypeOK, TasksInv, [Next]_vars
             PROVE  TasksInv'
  OBVIOUS
<1>1. CASE UNCHANGED <<tasks, task, accepted, finished>>
  BY <1>1 DEF TasksInv, Queued, Held
<1>2. ASSUME NEW s \in Submitters, NEW t \in Tasks, Submit(s, t)
      PROVE  TasksInv'
  <2>1. CASE ~running \/ stopping
    BY <1>2, <2>1 DEF Submit, TasksInv, Queued, Held
  <2>2. CASE ~(~running \/ stopping)
    <3>1. /\ tasks' = Append(tasks, t) /\ accepted' = accepted \union {t}
          /\ finished' = finished /\ task' = task
      BY <1>2, <2>2 DEF Submit
    <3>2. /\ Len(tasks') = Len(tasks) + 1 /\ tasks'[Len(tasks')] = t
          /\ \A i \in 1 .. Len(tasks) : tasks'[i] = tasks[i]
          /\ Len(tasks) \in Nat
      BY <3>1 DEF TypeOK
    <3> QED BY <3>1, <3>2 DEF TasksInv, Queued, Held
  <2> QED BY <2>1, <2>2
<1>3. ASSUME NEW w \in Workers, Take(w)
      PROVE  TasksInv'
  <2>1. /\ tasks \in Seq(Tasks) /\ tasks # <<>>
        /\ tasks' = Tail(tasks) /\ task' = [task EXCEPT ![w] = Head(tasks)]
        /\ accepted' = accepted /\ finished' = finished
        /\ task[w] = NoTask
    BY <1>3 DEF TypeOK, Take, history
  <2>2. /\ Head(tasks) = tasks[1] /\ 1 \in 1 .. Len(tasks)
        /\ Len(tasks') = Len(tasks) - 1 /\ Len(tasks) \in Nat
        /\ \A i \in 1 .. Len(tasks') : i + 1 \in 1 .. Len(tasks)
                                       /\ tasks'[i] = tasks[i + 1]
    BY <2>1, TakeFirst
  <2>3. ASSUME NEW t \in accepted
        PROVE  t \in finished \/ Queued(t)' \/ Held(t)'
    <3>1. CASE Queued(t)
      <4>1. PICK i \in 1 .. Len(tasks) : tasks[i] = t
        BY <3>1 DEF Queued
      <4>2. CASE i = 1
        BY <2>1, <2>2, <4>1, <4>2 DEF Held, TypeOK
      <4>3. CASE i # 1
        <5>1. i - 1 \in 1 .. Len(tasks') /\ tasks'[i - 1] = t
          BY <2>2, <4>1, <4>3
        <5> QED BY <5>1 DEF Queued
      <4> QED BY <4>2, <4>3
    <3>2. CASE Held(t)
      <4>1. PICK v \in Workers : task[v] = t
        BY <3>2 DEF Held
      <4>2. v # w
        BY <2>1, <4>1, TaskAssumption DEF TypeOK
      <4> QED BY <2>1, <4>1, <4>2 DEF Held, TypeOK
    <3> QED BY <3>1, <3>2 DEF TasksInv
  <2>4. \A i \in 1 .. Len(tasks') : tasks'[i] \in accepted
    BY <2>2 DEF TasksInv
  <2>5. \A v \in Workers : task'[v] # NoTask => task'[v] \in accepted
    BY <2>1, <2>2 DEF TasksInv, TypeOK
  <2> QED BY <2>1, <2>3, <2>4, <2>5 DEF TasksInv
<1>4. ASSUME NEW w \in Workers, Finish(w)
      PROVE  TasksInv'
  <2>1. /\ tasks' = tasks /\ task' = [task EXCEPT ![w] = NoTask]
        /\ accepted' = accepted /\ finished' = finished \union {task[w]}
    BY <1>4 DEF Finish, history
  <2>2. ASSUME NEW t \in accepted
        PROVE  t \in finished' \/ Queued(t)' \/ Held(t)'
    <3>1. CASE Held(t)
      BY <2>1, <3>1 DEF Held, TypeOK
    <3> QED BY <2>1, <3>1 DEF TasksInv, Queued
  <2> QED BY <2>1, <2>2 DEF TasksInv, TypeOK
<1> QED BY <1>1, <1>2, <1>3, <1>4 DEF Next, OwnerStep, WorkerStep, Start,
       Spawn, StopBegin, StopNotifies, StopJoins, StopReturns, NotifyOne,
       Sleep, Exit, vars, history

-----------------------------------------------------------------------------
(* Counting.                                                               *)

\* The threads in a given place are finitely many.
LEMMA FiniteCounts ==
    ASSUME NEW state
    PROVE  /\ IsFiniteSet(In(state)) /\ Cardinality(In(state)) \in Nat
           /\ IsFiniteSet(Notifying) /\ Cardinality(Notifying) \in Nat
<1>1. In(state) \in SUBSET Workers /\ Notifying \in SUBSET Submitters
  BY DEF In, Notifying
<1>2. IsFiniteSet(In(state)) /\ IsFiniteSet(Notifying)
  BY <1>1, FS_Subset, PoolAssumption, SubmittersAssumption
<1> QED BY <1>2, FS_CardinalityType

\* The same, after a step.
LEMMA FiniteCountsNext ==
    ASSUME NEW state
    PROVE  /\ IsFiniteSet(In(state)') /\ Cardinality(In(state)') \in Nat
           /\ IsFiniteSet(Notifying') /\ Cardinality(Notifying') \in Nat
<1>1. In(state)' \in SUBSET Workers /\ Notifying' \in SUBSET Submitters
  BY DEF In, Notifying
<1>2. IsFiniteSet(In(state)') /\ IsFiniteSet(Notifying')
  BY <1>1, FS_Subset, PoolAssumption, SubmittersAssumption
<1> QED BY <1>2, FS_CardinalityType

\* A worker that comes to the test of the queue.
LEMMA OneMoreChecks ==
    ASSUME TypeOK, NEW w \in Workers, pc[w] # "check",
           pc' = [pc EXCEPT ![w] = "check"]
    PROVE  Cardinality(In("check")') = Cardinality(In("check")) + 1
<1>1. In("check")' = In("check") \union {w} /\ w \notin In("check")
  BY DEF TypeOK, In
<1> QED BY <1>1, FiniteCounts, FS_AddElement

\* A worker that leaves the test of the queue.
LEMMA OneFewerChecks ==
    ASSUME TypeOK, NEW w \in Workers, pc[w] = "check", NEW state,
           state # "check", pc' = [pc EXCEPT ![w] = state]
    PROVE  Cardinality(In("check")') = Cardinality(In("check")) - 1
<1>1. In("check")' = In("check") \ {w} /\ w \in In("check")
  BY DEF TypeOK, In
<1> QED BY <1>1, FiniteCounts, FS_RemoveElement

\* Work conservation is inductive: a task that is queued brings a notification
\* of its own, a notification turns into a worker at the queue while one sleeps,
\* and a worker falls asleep only on an empty queue.
LEMMA BacklogStep ==
    TypeOK /\ NoSleepOverBacklog /\ [Next]_vars => NoSleepOverBacklog'
<1> SUFFICES ASSUME TypeOK, NoSleepOverBacklog, [Next]_vars
             PROVE  NoSleepOverBacklog'
  OBVIOUS
<1> DEFINE checks == Cardinality(In("check"))
           notes == Cardinality(Notifying)
<1>0. /\ Len(tasks) \in Nat /\ checks \in Nat /\ notes \in Nat
      /\ checks' \in Nat /\ notes' \in Nat
      /\ Len(tasks) > checks + notes => In("asleep") = {}
  BY FiniteCounts, FiniteCountsNext DEF TypeOK, NoSleepOverBacklog
<1> SUFFICES Len(tasks') > checks' + notes' => In("asleep")' = {}
  BY DEF NoSleepOverBacklog
<1>1. CASE UNCHANGED <<tasks, pc, spc>>
  <2>1. checks' = checks /\ notes' = notes /\ In("asleep")' = In("asleep")
    BY <1>1 DEF In, Notifying
  <2> QED BY <1>0, <1>1, <2>1
<1>2. CASE Spawn
  <2>1. PICK w \in In("none") : pc' = [pc EXCEPT ![w] = "check"]
    BY <1>2 DEF Spawn
  <2>2. checks' = checks + 1
    BY <2>1, OneMoreChecks DEF In
  <2>3. In("asleep")' = In("asleep") /\ notes' = notes /\ tasks' = tasks
    BY <1>2, <2>1 DEF Spawn, In, Notifying, TypeOK
  <2> QED BY <1>0, <2>2, <2>3
<1>3. CASE StopNotifies
  BY <1>3 DEF StopNotifies, Wakened, In
<1>4. ASSUME NEW s \in Submitters, NotifyOne(s)
      PROVE  Len(tasks') > checks' + notes' => In("asleep")' = {}
  <2>1. notes' = notes - 1 /\ tasks' = tasks
    <3>1. Notifying' = Notifying \ {s} /\ s \in Notifying
      BY <1>4 DEF NotifyOne, Notifying, TypeOK
    <3> QED BY <1>4, <3>1, FiniteCounts, FS_RemoveElement DEF NotifyOne
  <2>2. CASE In("asleep") = {} /\ UNCHANGED pc
    BY <2>2 DEF In
  <2>3. ASSUME NEW w \in In("asleep"), pc' = [pc EXCEPT ![w] = "check"]
        PROVE  Len(tasks') > checks' + notes' => In("asleep")' = {}
    <3>1. checks' = checks + 1
      BY <2>3, OneMoreChecks DEF In
    <3>2. Len(tasks') <= checks' + notes'
      BY <1>0, <2>1, <2>3, <3>1
    <3> QED BY <1>0, <2>1, <3>1, <3>2
  <2> QED BY <1>4, <2>2, <2>3 DEF NotifyOne
<1>5. ASSUME NEW s \in Submitters, NEW t \in Tasks, Submit(s, t)
      PROVE  Len(tasks') > checks' + notes' => In("asleep")' = {}
  <2>1. CASE ~running \/ stopping
    BY <1>1, <1>5, <2>1 DEF Submit
  <2>2. CASE ~(~running \/ stopping)
    <3>1. Notifying' = Notifying \union {s} /\ s \notin Notifying
      BY <1>5, <2>2 DEF Submit, Notifying, TypeOK
    <3>2. notes' = notes + 1
      BY <3>1, FiniteCounts, FS_AddElement
    <3>3. Len(tasks') = Len(tasks) + 1
      BY <1>5, <2>2 DEF Submit, TypeOK
    <3>4. In("asleep")' = In("asleep") /\ checks' = checks
      BY <1>5 DEF Submit, In
    <3> QED BY <1>0, <3>2, <3>3, <3>4
  <2> QED BY <2>1, <2>2
<1>6. ASSUME NEW w \in Workers, Sleep(w) \/ Exit(w)
      PROVE  Len(tasks') > checks' + notes' => In("asleep")' = {}
  <2>1. Len(tasks') = 0
    BY <1>6 DEF Sleep, Exit, MayExit
  <2> QED BY <1>0, <2>1
<1>7. ASSUME NEW w \in Workers, Take(w)
      PROVE  Len(tasks') > checks' + notes' => In("asleep")' = {}
  <2>1. checks' = checks - 1
    BY <1>7, OneFewerChecks DEF Take
  <2>2. Len(tasks') = Len(tasks) - 1
    BY <1>7, TakeFirst DEF Take, TypeOK
  <2>3. In("asleep")' = In("asleep") /\ notes' = notes
    BY <1>7 DEF Take, In, Notifying, TypeOK
  <2> QED BY <1>0, <2>1, <2>2, <2>3
<1>8. ASSUME NEW w \in Workers, Finish(w)
      PROVE  Len(tasks') > checks' + notes' => In("asleep")' = {}
  <2>1. checks' = checks + 1
    BY <1>8, OneMoreChecks DEF Finish
  <2>2. In("asleep")' = In("asleep") /\ notes' = notes /\ tasks' = tasks
    BY <1>8 DEF Finish, In, Notifying, TypeOK
  <2> QED BY <1>0, <2>1, <2>2
<1> QED BY <1>1, <1>2, <1>3, <1>4, <1>5, <1>6, <1>7, <1>8 DEF Next, OwnerStep,
       WorkerStep, Start, StopBegin, StopJoins, StopReturns, vars, history

-----------------------------------------------------------------------------
(* The theorems.                                                           *)

\* A pool that was not started.
LEMMA InitInv == Init => IndInv
<1> SUFFICES ASSUME Init
             PROVE  IndInv
  OBVIOUS
<1>1. running \in BOOLEAN /\ stopping \in BOOLEAN
  BY Zenon DEF Init
<1>2. TypeOK
  BY <1>1 DEF Init, TypeOK
<1>3. PhaseInv /\ GoneMeansDrained /\ TasksInv
  BY DEF Init, PhaseInv, GoneMeansDrained, TasksInv
<1>4. NoSleepOverBacklog
  BY DEF Init, NoSleepOverBacklog, In
<1> QED BY <1>2, <1>3, <1>4 DEF IndInv, DrainInv

\* The inductive invariant of the pool, for any number of workers, submitters and
\* tasks and any sequence of start(), submit() and stop().
THEOREM Invariance == Spec => []IndInv
<1>1. IndInv /\ [Next]_vars => IndInv'
  BY TypesStep, PhaseStep, TasksStep, BacklogStep DEF IndInv, DrainInv
<1> QED BY InitInv, <1>1, PTL DEF Spec

\* When stop() has returned, every accepted task has run and no worker is left.
THEOREM DrainSafety == Spec => []StopDrains
<1>1. IndInv => StopDrains
  <2> SUFFICES ASSUME IndInv
               PROVE  StopDrains
    OBVIOUS
  <2> USE DEF IndInv, DrainInv
  <2>1. ASSUME ~running, NEW t \in accepted
        PROVE  t \in finished
    <3>1. ~Queued(t)
      BY <2>1 DEF PhaseInv, Queued
    <3>2. t \in Tasks
      BY DEF TypeOK
    <3>3. ~Held(t)
      BY <2>1, <3>2, TaskAssumption DEF PhaseInv, TypeOK, Held
    <3> QED BY <3>1, <3>3 DEF TasksInv
  <2> QED BY <2>1 DEF StopDrains, PhaseInv, In
<1> QED BY Invariance, <1>1, PTL

\* No worker sleeps while more tasks are queued than workers and notifications
\* are on their way to the queue.
THEOREM WorkConservation == Spec => []NoSleepOverBacklog
<1>1. IndInv => NoSleepOverBacklog
  BY DEF IndInv
<1> QED BY Invariance, <1>1, PTL

=============================================================================
