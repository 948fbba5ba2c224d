----------------------------- MODULE ThreadPool -----------------------------
(***************************************************************************)
(* The worker pool (src/thread_pool.cpp): one owner that calls start() and *)
(* stop(), threads that call submit(), and workers on a mutex and a        *)
(* condition variable.  A worker that waits is "asleep" until a            *)
(* notification takes it back to its test of the queue ("check").  Each    *)
(* scope of the lock and each notification is one action.  A task is a     *)
(* model value that is submitted once and ends.                            *)
(***************************************************************************)
EXTENDS Integers, Sequences, FiniteSets

CONSTANTS
    Workers,     \* the threads start() creates: threadCount_ of them
    Submitters,  \* threads that call submit()
    Tasks,       \* the tasks they submit
    NoTask,
    MaxStarts    \* bound: how often start() is called

\* A pool of no threads would accept tasks and run none.
ASSUME PoolAssumption == Workers # {} /\ IsFiniteSet(Workers)
ASSUME SubmittersAssumption == IsFiniteSet(Submitters)
ASSUME TaskAssumption == NoTask \notin Tasks
ASSUME StartsAssumption == MaxStarts \in Nat

VARIABLES
    running,     \* running_
    stopping,    \* stopping_
    tasks,       \* tasks_, the queue
    pc,          \* per worker: "none", "check", "asleep", "run"
    task,        \* per worker: the task it runs
    owner,       \* "idle", "spawning", "notifying", "joining", "resetting"
    spc,         \* per submitter: "idle" or "notify"
    starts,      \* calls of start() so far
    offered,     \* tasks submit() was called with
    accepted,    \* tasks it took
    finished     \* tasks that were run

vars == <<running, stopping, tasks, pc, task, owner, spc, starts, offered,
          accepted, finished>>
history == <<offered, accepted>>

In(state) == {w \in Workers : pc[w] = state}
Notifying == {s \in Submitters : spc[s] = "notify"}

Init ==
    /\ running = FALSE /\ stopping = FALSE /\ tasks = <<>>
    /\ pc = [w \in Workers |-> "none"] /\ task = [w \in Workers |-> NoTask]
    /\ owner = "idle" /\ spc = [s \in Submitters |-> "idle"]
    /\ starts = 0 /\ offered = {} /\ accepted = {}
    /\ finished = {}

-----------------------------------------------------------------------------
(* The owner.                                                              *)

\* start() sets the flags, without the lock ...
Start ==
    /\ owner = "idle" /\ ~running /\ starts < MaxStarts
    /\ starts' = starts + 1
    /\ running' = TRUE /\ stopping' = FALSE
    /\ owner' = "spawning"
    /\ UNCHANGED <<tasks, pc, task, spc, history, finished>>

\* ... and creates the workers one by one while tasks may already come in.
Spawn ==
    /\ owner = "spawning"
    /\ \E w \in In("none") :
         /\ pc' = [pc EXCEPT ![w] = "check"]
         /\ owner' = IF In("none") = {w} THEN "idle" ELSE "spawning"
    /\ UNCHANGED <<running, stopping, tasks, task, spc, starts, history,
                   finished>>

\* stop(), or the destructor: its first critical section.
StopBegin ==
    /\ owner = "idle" /\ running
    /\ stopping' = TRUE
    /\ owner' = "notifying"
    /\ UNCHANGED <<running, tasks, pc, task, spc, starts, history, finished>>

\* Whom notify_all() wakes.
Wakened == In("asleep")

StopNotifies ==
    /\ owner = "notifying"
    /\ pc' = [w \in Workers |-> IF w \in Wakened THEN "check" ELSE pc[w]]
    /\ owner' = "joining"
    /\ UNCHANGED <<running, stopping, tasks, task, spc, starts, history,
                   finished>>

\* join() of all workers, then workers_.clear().
StopJoins ==
    /\ owner = "joining" /\ In("none") = Workers
    /\ owner' = "resetting"
    /\ UNCHANGED <<running, stopping, tasks, pc, task, spc, starts, history,
                   finished>>

StopReturns ==
    /\ owner = "resetting"
    /\ running' = FALSE /\ stopping' = FALSE
    /\ owner' = "idle"
    /\ UNCHANGED <<tasks, pc, task, spc, starts, history, finished>>

-----------------------------------------------------------------------------
(* Submitters.                                                             *)

\* submit() up to the unlock: the task is queued, or silently refused.
Submit(s, t) ==
    /\ spc[s] = "idle" /\ t \notin offered
    /\ offered' = offered \union {t}
    /\ IF ~running \/ stopping
       THEN UNCHANGED <<tasks, accepted, spc>>
       ELSE /\ tasks' = Append(tasks, t)
            /\ accepted' = accepted \union {t}
            /\ spc' = [spc EXCEPT ![s] = "notify"]
    /\ UNCHANGED <<running, stopping, pc, task, owner, starts, finished>>

\* Mutant of NotifyOne: only the first task of a backlog is announced.
NotifyOne_IfFirst(s) ==
    /\ spc[s] = "notify"
    /\ spc' = [spc EXCEPT ![s] = "idle"]
    /\ \/ (In("asleep") = {} \/ Len(tasks) # 1) /\ UNCHANGED pc
       \/ /\ Len(tasks) = 1
          /\ \E w \in In("asleep") : pc' = [pc EXCEPT ![w] = "check"]
    /\ UNCHANGED <<running, stopping, tasks, task, owner, starts, history,
                   finished>>

\* submit() after the unlock: condition_.notify_one().
NotifyOne(s) ==
    /\ spc[s] = "notify"
    /\ spc' = [spc EXCEPT ![s] = "idle"]
    /\ \/ In("asleep") = {} /\ UNCHANGED pc
       \/ \E w \in In("asleep") : pc' = [pc EXCEPT ![w] = "check"]
    /\ UNCHANGED <<running, stopping, tasks, task, owner, starts, history,
                   finished>>

-----------------------------------------------------------------------------
(* Workers: workerLoop().                                                  *)

\* condition_.wait: nothing to do and not stopping.
Sleep(w) ==
    /\ pc[w] = "check" /\ ~stopping /\ tasks = <<>>
    /\ pc' = [pc EXCEPT ![w] = "asleep"]
    /\ UNCHANGED <<running, stopping, tasks, task, owner, spc, starts, history,
                   finished>>

\* Mutant of MayExit: a stopping pool leaves its backlog behind.
MayExit_AtOnce == stopping

MayExit == stopping /\ tasks = <<>>

Exit(w) ==
    /\ pc[w] = "check" /\ MayExit
    /\ pc' = [pc EXCEPT ![w] = "none"]
    /\ UNCHANGED <<running, stopping, tasks, task, owner, spc, starts, history,
                   finished>>

\* Mutant of Take: off by one, the last task is left in the queue.
Take_NotLast(w) ==
    /\ pc[w] = "check" /\ Len(tasks) > 1
    /\ task' = [task EXCEPT ![w] = Head(tasks)]
    /\ tasks' = Tail(tasks)
    /\ pc' = [pc EXCEPT ![w] = "run"]
    /\ UNCHANGED <<running, stopping, owner, spc, starts, history, finished>>

Take(w) ==
    /\ pc[w] = "check" /\ tasks # <<>>
    /\ task' = [task EXCEPT ![w] = Head(tasks)]
    /\ tasks' = Tail(tasks)
    /\ pc' = [pc EXCEPT ![w] = "run"]
    /\ UNCHANGED <<running, stopping, owner, spc, starts, history, finished>>

\* task() returns.
Finish(w) ==
    /\ pc[w] = "run"
    /\ finished' = finished \union {task[w]}
    /\ task' = [task EXCEPT ![w] = NoTask]
    /\ pc' = [pc EXCEPT ![w] = "check"]
    /\ UNCHANGED <<running, stopping, tasks, owner, spc, starts, history>>

-----------------------------------------------------------------------------
OwnerStep == Start \/ Spawn \/ StopBegin \/ StopNotifies \/ StopJoins \/ StopReturns
WorkerStep(w) == Sleep(w) \/ Exit(w) \/ Take(w) \/ Finish(w)

Next == \/ OwnerStep
        \/ \E s \in Submitters : NotifyOne(s) \/ \E t \in Tasks : Submit(s, t)
        \/ \E w \in Workers : WorkerStep(w)

Spec == Init /\ [][Next]_vars

\* Threads that can run do run; nobody has to call start(), stop() or submit().
\* A sleeping worker runs only when notified: there is no fairness for it.
Fairness ==
    /\ WF_vars(Spawn) /\ WF_vars(StopNotifies) /\ WF_vars(StopJoins)
    /\ WF_vars(StopReturns)
    /\ \A s \in Submitters : WF_vars(NotifyOne(s))
    /\ \A w \in Workers : WF_vars(WorkerStep(w))

FairSpec == Spec /\ Fairness

-----------------------------------------------------------------------------
(* Properties.                                                             *)

\* Types; a worker holds a task exactly while it runs one, and only tasks that
\* submit() took are run.
TypeOK ==
    /\ running \in BOOLEAN /\ stopping \in BOOLEAN
    /\ tasks \in Seq(Tasks)
    /\ pc \in [Workers -> {"none", "check", "asleep", "run"}]
    /\ task \in [Workers -> Tasks \union {NoTask}]
    /\ \A w \in Workers : pc[w] = "run" <=> task[w] # NoTask
    /\ owner \in {"idle", "spawning", "notifying", "joining", "resetting"}
    /\ spc \in [Submitters -> {"idle", "notify"}]
    /\ starts \in Nat
    /\ offered \subseteq Tasks /\ accepted \subseteq offered
    /\ finished \subseteq accepted

\* stop() drains: when it has returned, every task that submit() took has been
\* run to its end, including those queued while it was called, and no worker is
\* left.
StopDrains ==
    /\ TypeOK
    /\ ~running => /\ tasks = <<>> /\ In("none") = Workers
                   /\ accepted \subseteq finished

\* Work conservation: no worker sleeps while there are more queued tasks than
\* workers on their way to the queue and notifications still to be sent.
NoSleepOverBacklog ==
    Len(tasks) > Cardinality(In("check")) + Cardinality(Notifying)
        => In("asleep") = {}

\* Nothing waits for ever: every accepted task is run, whether or not the pool
\* is stopped meanwhile, and stop() comes back, as notify_all reaches every
\* sleeping worker.
NothingWaitsForever ==
    /\ \A t \in Tasks : t \in accepted ~> t \in finished
    /\ owner = "notifying" ~> owner = "idle"

=============================================================================
