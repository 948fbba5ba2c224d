-------------------------- MODULE DeviceScheduler --------------------------
(***************************************************************************)
(* DeviceScheduler (src/device_scheduler.cpp): periodic tasks, one Timer   *)
(* each, on an EventLoop.                                                  *)
(*                                                                         *)
(* The program is an application that owns a loop and a scheduler.  The    *)
(* class has no lock, so its functions are called where the loop's thread  *)
(* is: before and after run(), and in a task's callback, which may call    *)
(* any number of them, on its own task too.  A callback whose own closure  *)
(* has been destroyed or replaced (by removeTask, or by stop and start)    *)
(* runs in freed memory; the model lets it do nothing but return.          *)
(***************************************************************************)
EXTENDS EventLoop

CONSTANTS
    MaxTasks,  \* bound: how many tasks are added
    MaxFaults  \* bound: how often timerfd_settime fails

ASSUME SchedulerAssumption ==
    MaxTasks \in Nat /\ MaxFaults \in Nat /\ 1 .. MaxTasks \subseteq Timers

VARIABLES
    tasks,       \* the keys of tasks_; each is also the name of its timer
    nextTaskId,  \* nextTaskId_
    scheduler,   \* running_: "stopped", "running"; "destroyed"; "none": this
                 \* process has no scheduler
    faults

schedulerVars == <<tasks, nextTaskId, scheduler, faults>>

SchedulerInit ==
    /\ tasks = {} /\ nextTaskId = 1 /\ scheduler = "stopped" /\ faults = 0

NoScheduler ==
    /\ tasks = {} /\ nextTaskId = 1 /\ scheduler = "none" /\ faults = 0

\* The loop's thread is in the application's code.
MayCall ==
    /\ scheduler \in {"stopped", "running"}
    /\ loop \in {"idle", "over"} \/ calling \in Timers

Fault == faults < MaxFaults /\ faults' = faults + 1

-----------------------------------------------------------------------------

\* Mutant of StartIfRunning: a task that is added late is not started.
StartIfRunning_Never(id) == UNCHANGED <<armed, expired, calling>>

\* addTask() on a scheduler that runs starts the task at once.
StartIfRunning(id) ==
    IF scheduler = "running" THEN StartPeriodic({id})
                             ELSE UNCHANGED <<armed, expired, calling>>

AddTask ==
    /\ MayCall /\ nextTaskId <= MaxTasks
    /\ CreateTimer(nextTaskId)
    /\ tasks' = tasks \union {nextTaskId} /\ nextTaskId' = nextTaskId + 1
    /\ StartIfRunning(nextTaskId)
    /\ UNCHANGED <<loopVars, scheduler, faults>>

\* The task cannot be started and is erased again; its id is used up.  (When
\* its timer cannot be created nothing changes at all.)
AddTaskFails ==
    /\ MayCall /\ nextTaskId <= MaxTasks /\ FreeFds # {}
    /\ scheduler = "running" /\ Fault
    /\ nextTaskId' = nextTaskId + 1
    /\ UNCHANGED <<eventLoopVars, tasks, scheduler>>

RemoveTask(id) ==
    /\ MayCall /\ id \in tasks
    /\ DestroyTimers({id})
    /\ tasks' = tasks \ {id}
    /\ UNCHANGED <<loopVars, nextTaskId, scheduler, faults>>

\* start(); on a scheduler that runs it returns at once.
Start ==
    /\ MayCall /\ scheduler = "stopped"
    /\ StartPeriodic(tasks)
    /\ scheduler' = "running"
    /\ UNCHANGED <<channels, loopVars, tasks, nextTaskId, faults>>

\* Mutant of StopAgain: the tasks started before the failure go on.
StopAgain_Skipped(tried) ==
    \E failed \in tried :
        armed' = armed \union (tried \ {failed}) /\ expired' = expired \ tried

\* start() fails at one of the tasks, after it has started others (any: the
\* table is a hash map); then all timers are stopped.
StopAgain(tried) == StopTimers(tasks)

StartFails ==
    /\ MayCall /\ scheduler = "stopped" /\ Fault
    /\ \E tried \in SUBSET tasks \ {{}} :
          StopAgain(tried) /\ ClosuresGo(tried)
    /\ UNCHANGED <<channels, loopVars, tasks, nextTaskId, scheduler>>

Stop ==
    /\ MayCall
    /\ StopTimers(tasks)
    /\ scheduler' = "stopped"
    /\ UNCHANGED <<channels, loopVars, calling, tasks, nextTaskId, faults>>

\* ~DeviceScheduler(), outside the loop.
DestroyScheduler ==
    /\ scheduler \in {"stopped", "running"} /\ loop \in {"idle", "over"}
    /\ DestroyTimers(tasks)
    /\ tasks' = {} /\ scheduler' = "destroyed"
    /\ UNCHANGED <<loopVars, nextTaskId, faults>>

\* The callback returns; nothing of the timer is used after that.
TaskReturns ==
    /\ calling # NoTimer
    /\ calling' = NoTimer
    /\ UNCHANGED <<timerVars, loopVars, schedulerVars>>

SchedulerCall ==
    \/ AddTask \/ AddTaskFails \/ Start \/ StartFails \/ Stop \/ DestroyScheduler
    \/ \E id \in tasks : RemoveTask(id)

ApplicationNext ==
    \/ SchedulerCall \/ TaskReturns
    \/ (Run \/ LoopStep \/ StoreStop \/ WakeUp) /\ UNCHANGED schedulerVars
    \/ \E t \in Timers : Expire(t) /\ UNCHANGED schedulerVars

applicationVars == <<eventLoopVars, schedulerVars>>

ApplicationSpec ==
    EventLoopInit /\ SchedulerInit /\ [][ApplicationNext]_applicationVars

-----------------------------------------------------------------------------
(* Properties.                                                             *)

\* The tables of scheduler, loop and kernel agree after any sequence of calls,
\* failed ones too: every task has one timer with one registered descriptor,
\* there is no other, the timers are set exactly while the scheduler runs
\* ("启动当前已注册的所有周期任务"), a destroyed scheduler leaves nothing, and the
\* closure that runs belongs to a task that exists.
SchedulerAgrees ==
    scheduler # "none" =>
        /\ tasks \subseteq 1 .. nextTaskId - 1 /\ nextTaskId \in 1 .. MaxTasks + 1
        /\ Alive = tasks
        /\ \A fd, other \in Fds : channels[fd] = channels[other] /\ fd # other
                                    => channels[fd] = NoTimer
        /\ armed = IF scheduler = "running" THEN tasks ELSE {}
        /\ expired \subseteq armed
        /\ calling \in tasks \union {NoTimer, Destroyed}

\* A task is called only when it is registered, the scheduler runs and its own
\* time has come since it was last started, although the batch may hold events
\* from before a stop(), a restart or a removal, and the descriptor of a
\* removed task may belong to another one by now.
QuietAfterStop ==
    [][scheduler # "none" /\ calling = NoTimer /\ calling' # NoTimer =>
          calling' \in tasks /\ scheduler = "running" /\ calling' \in expired]_applicationVars

\* While the loop runs and the scheduler runs, each of its tasks is called
\* again and again, also one that was added by a callback; nothing that other
\* callbacks do starves it.
TimersAreServed ==
    \A t \in 1 .. MaxTasks :
        (Active /\ t \in tasks /\ scheduler = "running")
            ~> (calling = t \/ t \notin tasks \/ scheduler # "running" \/ ~Active)

=============================================================================
