-------------------------- MODULE EventLoop_proofs --------------------------
(***************************************************************************)
(* Safety of the two programs that own an EventLoop: the application with  *)
(* a DeviceScheduler, for any number of tasks and faults, and edgelinkd    *)
(* with its SystemMonitor.                                                 *)
(*                                                                         *)
(* What both rest on is said first, of the operations of Timer: creating   *)
(* one takes a descriptor nobody has (LowestFree exists because the        *)
(* descriptors are natural numbers), and destroying some takes exactly     *)
(* those out of channels_.  SchedulerAgrees is inductive once the types    *)
(* are added (SchedulerInv), and QuietAfterStop follows from it at the one *)
(* step that starts a callback.  For edgelinkd the invariant is a table of *)
(* main()'s statements: at each one, which services are up (UpInv), what   *)
(* systemd was told (NotifiedInv) and which timers exist (TimersInv).  For *)
(* the monitor it is which readings the baseline and the usage come from   *)
(* (BaselineInv), on top of the exactness of the checked sums.             *)
(***************************************************************************)
EXTENDS DeviceScheduler, Gateway, SystemMonitor, WellFoundedInduction, TLAPS

Injective ==
    \A fd, other \in Fds : channels[fd] = channels[other] /\ fd # other
                             => channels[fd] = NoTimer

\* A nonempty set of naturals has a smallest element, so LowestFree exists.
LEMMA LowestFreeIsFree ==
    ASSUME FreeFds # {}
    PROVE  LowestFree \in FreeFds
<1>1. FreeFds \subseteq Nat
  BY FdAssumption DEF FreeFds
<1>2. PICK x \in FreeFds :
         \A y \in FreeFds : ~(<<y, x>> \in OpToRel(<, Nat))
  BY <1>1, NatLessThanWellFounded, WFMin, Zenon
<1>3. \A y \in FreeFds : ~(y < x)
  BY <1>1, <1>2, Zenon DEF OpToRel
<1>4. \A y \in FreeFds : x <= y
  BY <1>1, <1>3
<1> QED BY <1>4 DEF LowestFree

-----------------------------------------------------------------------------
(* Timer.                                                                  *)

\* The constructor adds its timer and nothing else, on a descriptor of its own.
LEMMA CreateAdds ==
    ASSUME NEW t \in Nat \ {0}, CreateTimer(t), Injective, t \notin Alive,
           channels \in [Fds -> Nat]
    PROVE  /\ channels' \in [Fds -> Nat]
           /\ Alive' = Alive \union {t}
           /\ Injective'
<1>1. PICK f \in Fds : channels[f] = NoTimer /\ channels' = [channels EXCEPT ![f] = t]
  BY LowestFreeIsFree DEF CreateTimer, FreeFds
<1>2. \A fd \in Fds : channels[fd] # t
  BY DEF Alive, NoTimer
<1>3. Alive' = Alive \union {t}
  BY <1>1, <1>2 DEF Alive, NoTimer
<1>4. Injective'
  BY <1>1, <1>2 DEF Injective, NoTimer
<1> QED BY <1>1, <1>3, <1>4

\* The destructor takes its timer out of channels_ and leaves the others.
LEMMA DestroyRemoves ==
    ASSUME NEW S, DestroyTimers(S), Injective, channels \in [Fds -> Nat]
    PROVE  /\ channels' \in [Fds -> Nat]
           /\ Alive' = Alive \ S
           /\ Injective'
<1> USE DEF DestroyTimers, NoTimer
<1>1. channels' \in [Fds -> Nat]
  OBVIOUS
<1>2. Alive' = Alive \ S
  BY DEF Alive
<1>3. Injective'
  BY DEF Injective
<1> QED BY <1>1, <1>2, <1>3

-----------------------------------------------------------------------------
(* The scheduler.                                                          *)

SchedulerInv ==
    /\ channels \in [Fds -> Nat] /\ Injective
    /\ scheduler \in {"stopped", "running", "destroyed"}
    /\ nextTaskId \in 1 .. MaxTasks + 1 /\ tasks \subseteq 1 .. nextTaskId - 1
    /\ Alive = tasks
    /\ armed = (IF scheduler = "running" THEN tasks ELSE {})
    /\ expired \subseteq armed
    /\ calling \in tasks \union {NoTimer, Destroyed}

\* Every call of the scheduler, also from inside a callback, and every step of the
\* loop keeps the tables of scheduler, loop and kernel in agreement.
LEMMA SchedulerStep ==
    SchedulerInv /\ [ApplicationNext]_applicationVars => SchedulerInv'
<1> SUFFICES ASSUME SchedulerInv, [ApplicationNext]_applicationVars
             PROVE  SchedulerInv'
  OBVIOUS
<1> USE SchedulerAssumption DEF SchedulerInv, NoTimer, Destroyed
<1>0. tasks \subseteq Nat \ {0} /\ 0 \notin tasks /\ -1 \notin tasks
  OBVIOUS
<1>1. CASE AddTask
  <2>1. nextTaskId \in Nat \ {0} /\ nextTaskId \notin tasks
    OBVIOUS
  <2>2. /\ channels' \in [Fds -> Nat] /\ Injective'
        /\ Alive' = Alive \union {nextTaskId}
    BY <1>1, <2>1, CreateAdds DEF AddTask
  <2>3. calling # nextTaskId
    BY <1>0, <2>1
  <2>4. calling' = calling /\ expired' = expired \ {nextTaskId}
    BY <1>1, <2>3 DEF AddTask, StartIfRunning, StartPeriodic, ClosuresGo
  <2>5. armed' = IF scheduler = "running" THEN armed \union {nextTaskId} ELSE armed
    BY <1>1 DEF AddTask, StartIfRunning, StartPeriodic
  <2>6. /\ tasks' = tasks \union {nextTaskId} /\ nextTaskId' = nextTaskId + 1
        /\ scheduler' = scheduler /\ nextTaskId <= MaxTasks
    BY <1>1 DEF AddTask
  <2> QED BY <2>1, <2>2, <2>4, <2>5, <2>6
<1>2. CASE AddTaskFails
  BY <1>2 DEF AddTaskFails, eventLoopVars, timerVars, Alive, Injective
<1>3. ASSUME NEW id \in tasks, RemoveTask(id)
      PROVE  SchedulerInv'
  <2>1. /\ channels' \in [Fds -> Nat] /\ Injective' /\ Alive' = Alive \ {id}
    BY <1>3, DestroyRemoves DEF RemoveTask
  <2>2. /\ armed' = armed \ {id} /\ expired' = expired \ {id}
        /\ calling' = IF calling = id THEN Destroyed ELSE calling
        /\ tasks' = tasks \ {id} /\ UNCHANGED <<nextTaskId, scheduler>>
    BY <1>3 DEF RemoveTask, DestroyTimers, StopTimers, ClosuresGo
  <2> QED BY <2>1, <2>2
<1>4. CASE Start
  BY <1>0, <1>4 DEF Start, StartPeriodic, ClosuresGo, Alive, Injective
<1>5. CASE StartFails
  <2>1. PICK tried \in SUBSET tasks : ClosuresGo(tried) /\ StopTimers(tasks)
    BY <1>5 DEF StartFails, StopAgain
  <2> QED BY <1>0, <1>5, <2>1 DEF StartFails, StopTimers, ClosuresGo, Alive,
             Injective
<1>6. CASE Stop
  BY <1>6 DEF Stop, StopTimers, Alive, Injective
<1>7. CASE DestroyScheduler
  <2>1. /\ channels' \in [Fds -> Nat] /\ Injective' /\ Alive' = {}
    BY <1>7, DestroyRemoves DEF DestroyScheduler
  <2> QED BY <1>0, <1>7, <2>1 DEF DestroyScheduler, DestroyTimers, StopTimers,
             ClosuresGo
<1>8. CASE TaskReturns
  BY <1>8 DEF TaskReturns, timerVars, schedulerVars, Alive, Injective
<1>9. ASSUME NEW t, Expire(t), UNCHANGED schedulerVars
      PROVE  SchedulerInv'
  BY <1>9 DEF Expire, schedulerVars, Alive, Injective
<1>10. ASSUME NEW fd \in Fds, DispatchTimer(fd), UNCHANGED schedulerVars
       PROVE  SchedulerInv'
  <2>1. channels[fd] # NoTimer => channels[fd] \in tasks
    BY DEF Alive
  <2>2. /\ expired' \subseteq expired
        /\ calling' = calling \/ calling' \in tasks
    BY <1>10, <2>1 DEF DispatchTimer, HandleTimerRead
  <2>3. UNCHANGED <<channels, armed, tasks, nextTaskId, scheduler>>
    BY <1>10 DEF DispatchTimer, schedulerVars
  <2>4. Alive' = Alive /\ (Injective <=> Injective')
    BY <2>3 DEF Alive, Injective
  <2> QED BY <2>2, <2>3, <2>4
<1>11. CASE UNCHANGED <<timerVars, calling, schedulerVars>>
  BY <1>11 DEF timerVars, schedulerVars, Alive, Injective
<1> QED
  BY <1>1, <1>2, <1>3, <1>4, <1>5, <1>6, <1>7, <1>8, <1>9, <1>10, <1>11
     DEF ApplicationNext, SchedulerCall, LoopStep, Run, TestRunning, EpollWait,
         DispatchWakeup, BatchDone, StoreStop, WakeUp, applicationVars,
         eventLoopVars

\* A scheduler without tasks on a new loop.
LEMMA SchedulerInitInv == EventLoopInit /\ SchedulerInit => SchedulerInv
  BY SchedulerAssumption DEF EventLoopInit, SchedulerInit, SchedulerInv,
     Injective, Alive, NoTimer

\* SchedulerInv holds throughout a run of the application.
LEMMA SchedulerInvariance == ApplicationSpec => []SchedulerInv
  BY SchedulerInitInv, SchedulerStep, PTL DEF ApplicationSpec

\* The tables of scheduler, loop and kernel agree after any sequence of calls,
\* whoever makes them from which callback, and whichever of them fail.
THEOREM SchedulerSafety == ApplicationSpec => []SchedulerAgrees
<1>1. SchedulerInv => SchedulerAgrees
  BY DEF SchedulerInv, SchedulerAgrees, Injective
<1> QED BY SchedulerInvariance, <1>1, PTL

\* Only a registered task of a running scheduler whose own time has come is
\* called, however old the batch of events is.
THEOREM NoStaleCallback == ApplicationSpec => QuietAfterStop
<1> DEFINE Quiet ==
      scheduler # "none" /\ calling = NoTimer /\ calling' # NoTimer =>
          calling' \in tasks /\ scheduler = "running" /\ calling' \in expired
<1>1. SchedulerInv /\ [ApplicationNext]_applicationVars
        => [Quiet]_applicationVars
  <2> SUFFICES ASSUME SchedulerInv, ApplicationNext,
                      calling = NoTimer, calling' # NoTimer
               PROVE  calling' \in tasks /\ scheduler = "running"
                      /\ calling' \in expired
    OBVIOUS
  <2>1. 0 \notin tasks /\ 0 # nextTaskId
    BY DEF SchedulerInv
  <2>2. ~SchedulerCall
    BY <2>1 DEF SchedulerCall, AddTask, AddTaskFails, StartIfRunning,
       StartPeriodic, ClosuresGo, RemoveTask, DestroyTimers, Start, StartFails,
       Stop, DestroyScheduler, NoTimer, eventLoopVars
  <2>3. PICK fd \in Fds : DispatchTimer(fd)
    BY <2>2 DEF ApplicationNext, TaskReturns, LoopStep, Run, TestRunning,
       EpollWait, DispatchWakeup, BatchDone, StoreStop, WakeUp, Expire
  <2>4. calling' \in expired
    BY <2>3 DEF DispatchTimer, HandleTimerRead
  <2> QED BY <2>4 DEF SchedulerInv
<1> QED BY SchedulerInvariance, <1>1, PTL DEF ApplicationSpec, QuietAfterStop

-----------------------------------------------------------------------------
(* edgelinkd.                                                              *)

\* The statements of main(), in three stretches.
BeforeServices == {"config", "open", "attachStorage", "attachMqtt", "connect",
                   "tcp", "control"}
WhileServing == {"signalTimer", "watchdogTimer", "monitorTimer", "ready", "run",
                 "running", "stopControl"}
AfterServing == {"stopTcp", "disconnect", "detachMqtt", "detachStorage", "close"}
Ended == {"unwind", "exited", "aborted"}

\* Which services are up at which statement.
UpInv ==
    /\ main \in BeforeServices \union WhileServing \union AfterServing \union Ended
    /\ up \subseteq Services
    /\ main \notin Ended =>
          /\ "storage" \in up <=> main \notin {"config", "open"}
          /\ "history" \in up <=>
                main \notin {"config", "open", "attachStorage", "close"}
          /\ "forwarding" \in up <=>
                main \notin {"config", "open", "attachStorage", "attachMqtt",
                             "detachStorage", "close"}
          /\ "mqtt" \in up =>
                main \notin {"config", "open", "attachStorage", "attachMqtt",
                             "connect", "detachMqtt", "detachStorage", "close"}
          /\ "tcp" \in up <=> main \in WhileServing \union {"control", "stopTcp"}
          /\ "control" \in up <=> main \in WhileServing
    /\ up \intersect {"history", "forwarding", "mqtt"} # {} => "storage" \in up
    /\ main \in {"exited", "aborted"} => up = {}

\* What systemd was told, and how the process will end.
NotifiedInv ==
    /\ main \in BeforeServices \union {"signalTimer", "watchdogTimer",
                                       "monitorTimer", "ready"}
          => notified = "none" /\ exitCode = 0
    /\ main \in {"run", "running"} => notified = "READY" /\ exitCode = 0
    /\ main \in AfterServing \union {"stopControl"}
          => notified = "STOPPING" /\ exitCode = 0
    /\ main \in {"unwind", "exited"} =>
          \/ notified = "none" /\ exitCode = 1
          \/ notified = "STOPPING" /\ exitCode = 0
    /\ main = "aborted" => notified = "none" /\ exitCode = 134

\* Which timers exist, and which are set.
TimersInv ==
    /\ channels \in [Fds -> Nat] /\ Injective /\ enabled \subseteq MainTimers
    /\ main \in BeforeServices \union {"signalTimer", "exited", "aborted"}
          => Alive = {} /\ armed = {}
    /\ main = "watchdogTimer" =>
          Alive = {SignalTimer} /\ armed = enabled \intersect Alive
    /\ main = "monitorTimer" =>
          Alive = {SignalTimer, WatchdogTimer} /\ armed = enabled \intersect Alive
    /\ main \in {"ready", "run", "running", "stopControl"} \union AfterServing
          => Alive = MainTimers /\ armed = enabled
    /\ main = "unwind" => armed \subseteq Alive

GatewayInv == UpInv /\ NotifiedInv /\ TimersInv

\* The destructors run last one first: the one that runs belongs to a service
\* that is up, and the storage's runs only when nobody needs it any more.
LEMMA DestroyedInOrder ==
    ASSUME UpInv, DestroyService
    PROVE  \E s \in up :
              /\ up' = up \ {s}
              /\ s = "storage" => up = {"storage"}
<1> DEFINE First(i) == /\ Destructors[i] \in up
                       /\ \A j \in 1 .. i - 1 : Destructors[j] \notin up
           first == CHOOSE i \in DOMAIN Destructors : First(i)
<1>0. /\ DOMAIN Destructors = 1 .. 6
      /\ Destructors[1] = "control" /\ Destructors[2] = "tcp"
      /\ Destructors[3] = "forwarding" /\ Destructors[4] = "mqtt"
      /\ Destructors[5] = "history" /\ Destructors[6] = "storage"
  BY DEF Destructors
<1>1. \E i \in DOMAIN Destructors : First(i)
  <2>1. CASE "control" \in up
    <3>1. First(1)
      BY <1>0, <2>1
    <3> QED BY <1>0, <3>1
  <2>2. CASE "control" \notin up /\ "tcp" \in up
    <3>1. First(2)
      BY <1>0, <2>2
    <3> QED BY <1>0, <3>1
  <2>3. CASE up \intersect {"control", "tcp"} = {} /\ "forwarding" \in up
    <3>1. First(3)
      BY <1>0, <2>3
    <3> QED BY <1>0, <3>1
  <2>4. CASE up \intersect {"control", "tcp", "forwarding"} = {} /\ "mqtt" \in up
    <3>1. First(4)
      BY <1>0, <2>4
    <3> QED BY <1>0, <3>1
  <2>5. CASE /\ up \intersect {"control", "tcp", "forwarding", "mqtt"} = {}
             /\ "history" \in up
    <3>1. First(5)
      BY <1>0, <2>5
    <3> QED BY <1>0, <3>1
  <2>6. CASE up = {"storage"}
    <3>1. First(6)
      BY <1>0, <2>6
    <3> QED BY <1>0, <3>1
  <2> QED BY <2>1, <2>2, <2>3, <2>4, <2>5, <2>6
          DEF UpInv, DestroyService, Services
<1>2. first \in DOMAIN Destructors /\ First(first)
  BY <1>1
<1>3. up' = up \ {Destructors[first]}
  BY DEF DestroyService
<1>4. ASSUME Destructors[first] = "storage"
      PROVE  up = {"storage"}
  <2>1. first = 6
    BY <1>0, <1>2, <1>4
  <2>2. \A j \in 1 .. 5 : Destructors[j] \notin up
    BY <1>2, <2>1
  <2>3. /\ "control" \notin up /\ "tcp" \notin up /\ "forwarding" \notin up
        /\ "mqtt" \notin up /\ "history" \notin up
    BY <1>0, <2>2
  <2> QED BY <1>2, <1>4, <2>3 DEF UpInv, Services
<1> QED BY <1>2, <1>3, <1>4

\* The steps of main() that start or stop a service keep the table of services.
LEMMA UpStep ==
    UpInv /\ [GatewayNext]_gatewayAllVars => UpInv'
<1> SUFFICES ASSUME UpInv, [GatewayNext]_gatewayAllVars
             PROVE  UpInv'
  OBVIOUS
<1> USE DEF UpInv, BeforeServices, WhileServing, AfterServing, Ended, Services,
            Statement, Begins, Fails, Ends
<1>1. CASE LoadConfig
  BY <1>1 DEF LoadConfig
<1>2. CASE OpenStorage
  BY <1>2 DEF OpenStorage
<1>3. CASE AttachStorage
  BY <1>3 DEF AttachStorage
<1>4. CASE AttachMqtt
  BY <1>4 DEF AttachMqtt
<1>5. CASE ConnectMqtt
  BY <1>5 DEF ConnectMqtt
<1>6. CASE StartTcp
  BY <1>6 DEF StartTcp
<1>7. CASE StartControl
  BY <1>7 DEF StartControl
<1>8. CASE CreateTimers
  BY <1>8 DEF CreateTimers, CreateMainTimer
<1>9. CASE TimerThrows
  BY <1>9 DEF TimerThrows
<1>10. CASE NotifyReady \/ RunLoop \/ NotifyStopping
  BY <1>10 DEF NotifyReady, RunLoop, NotifyStopping
<1>11. CASE StopServices
  <2>1. CASE Ends("control", "stopControl", "stopTcp")
    BY <2>1
  <2>2. CASE Ends("tcp", "stopTcp", "disconnect")
    BY <2>2
  <2>3. CASE Ends("mqtt", "disconnect", "detachMqtt")
    BY <2>3
  <2>4. CASE Ends("forwarding", "detachMqtt", "detachStorage")
    BY <2>4
  <2>5. CASE Ends("history", "detachStorage", "close")
    BY <2>5
  <2>6. CASE Ends("storage", "close", "unwind")
    BY <2>6
  <2> QED BY <1>11, <2>1, <2>2, <2>3, <2>4, <2>5, <2>6 DEF StopServices
<1>12. CASE DestroyService
  <2>1. PICK s \in up : up' = up \ {s} /\ (s = "storage" => up = {"storage"})
    BY <1>12, DestroyedInOrder
  <2> QED BY <1>12, <2>1 DEF DestroyService
<1>13. CASE Exit
  BY <1>13 DEF Exit
<1>14. CASE UNCHANGED <<main, up>>
  BY <1>14
<1> QED
  BY <1>1, <1>2, <1>3, <1>4, <1>5, <1>6, <1>7, <1>8, <1>9, <1>10, <1>11, <1>12,
     <1>13, <1>14
     DEF GatewayNext, MainStep, LoopRuns, SignalCallback, ReportCallback, Signal,
         DestroyMainTimers, gatewayVars, gatewayAllVars

\* The steps of main() keep the table of what systemd was told.
LEMMA NotifiedStep ==
    UpInv /\ NotifiedInv /\ [GatewayNext]_gatewayAllVars => NotifiedInv'
<1> SUFFICES ASSUME UpInv, NotifiedInv, [GatewayNext]_gatewayAllVars
             PROVE  NotifiedInv'
  OBVIOUS
<1> USE DEF NotifiedInv, BeforeServices, AfterServing, Statement, Begins, Fails,
            Ends
<1>1. CASE LoadConfig \/ OpenStorage \/ AttachStorage \/ AttachMqtt
           \/ ConnectMqtt \/ StartTcp \/ StartControl
  BY <1>1 DEF LoadConfig, OpenStorage, AttachStorage, AttachMqtt, ConnectMqtt,
     StartTcp, StartControl
<1>2. CASE CreateTimers \/ TimerThrows
  BY <1>2 DEF CreateTimers, CreateMainTimer, TimerThrows
<1>3. CASE NotifyReady \/ RunLoop \/ NotifyStopping
  BY <1>3 DEF NotifyReady, RunLoop, NotifyStopping
<1>4. CASE StopServices
  BY <1>4 DEF StopServices
<1>5. CASE DestroyService \/ Exit
  BY <1>5 DEF DestroyService, Exit
<1>6. CASE UNCHANGED <<main, notified, exitCode>>
  BY <1>6
<1> QED BY <1>1, <1>2, <1>3, <1>4, <1>5, <1>6
     DEF GatewayNext, MainStep, LoopRuns, SignalCallback, ReportCallback, Signal,
         DestroyMainTimers, gatewayVars, gatewayAllVars

\* The steps of main() keep the table of timers.
LEMMA TimersStep ==
    UpInv /\ TimersInv /\ [GatewayNext]_gatewayAllVars => TimersInv'
<1> SUFFICES ASSUME UpInv, TimersInv, [GatewayNext]_gatewayAllVars
             PROVE  TimersInv'
  OBVIOUS
<1> USE DEF TimersInv, BeforeServices, AfterServing, SignalTimer, WatchdogTimer,
            MonitorTimer, MainTimers
<1>1. ASSUME NEW t \in MainTimers, NEW at, NEW next, CreateMainTimer(t, at, next),
             t \notin Alive, armed = enabled \intersect Alive
      PROVE  /\ channels' \in [Fds -> Nat] /\ Injective'
             /\ Alive' = Alive \union {t}
             /\ armed' = enabled \intersect Alive'
             /\ enabled' = enabled
             /\ main = at /\ main' = next
  <2>1. /\ channels' \in [Fds -> Nat] /\ Injective' /\ Alive' = Alive \union {t}
    BY <1>1, CreateAdds DEF CreateMainTimer
  <2> QED BY <1>1, <2>1 DEF CreateMainTimer, StartPeriodic
<1>2. CASE CreateTimers
  <2>1. CASE CreateMainTimer(SignalTimer, "signalTimer", "watchdogTimer")
    <3>1. Alive = {} /\ armed = {}
      BY <2>1 DEF CreateMainTimer
    <3>2. /\ channels' \in [Fds -> Nat] /\ Injective' /\ enabled' = enabled
          /\ Alive' = Alive \union {1} /\ armed' = enabled \intersect Alive'
          /\ main' = "watchdogTimer"
      BY <1>1, <2>1, <3>1, Zenon
    <3>3. Alive' = {1}
      BY <3>1, <3>2
    <3> QED BY <3>2, <3>3
  <2>2. CASE CreateMainTimer(WatchdogTimer, "watchdogTimer", "monitorTimer")
    <3>1. Alive = {1} /\ armed = enabled \intersect Alive /\ 2 \notin Alive
      BY <2>2 DEF CreateMainTimer
    <3>2. /\ channels' \in [Fds -> Nat] /\ Injective' /\ enabled' = enabled
          /\ Alive' = Alive \union {2} /\ armed' = enabled \intersect Alive'
          /\ main' = "monitorTimer"
      BY <1>1, <2>2, <3>1, Zenon
    <3>3. Alive' = {1, 2}
      BY <3>1, <3>2
    <3> QED BY <3>2, <3>3
  <2>3. CASE CreateMainTimer(MonitorTimer, "monitorTimer", "ready")
    <3>1. Alive = {1, 2} /\ armed = enabled \intersect Alive /\ 3 \notin Alive
      BY <2>3 DEF CreateMainTimer
    <3>2. /\ channels' \in [Fds -> Nat] /\ Injective' /\ enabled' = enabled
          /\ Alive' = Alive \union {3} /\ armed' = enabled \intersect Alive'
          /\ main' = "ready"
      BY <1>1, <2>3, <3>1, Zenon
    <3>3. Alive' = {1, 2, 3}
      BY <3>1, <3>2
    <3> QED BY <3>2, <3>3
  <2> QED BY <1>2, <2>1, <2>2, <2>3 DEF CreateTimers
<1>3. CASE TimerThrows
  <2>1. /\ channels' \in [Fds -> Nat] /\ Injective' /\ Alive' = {}
    BY <1>3, DestroyRemoves DEF TimerThrows
  <2> QED BY <1>3, <2>1 DEF TimerThrows, DestroyTimers, StopTimers
<1>4. CASE DestroyMainTimers
  <2>1. /\ channels' \in [Fds -> Nat] /\ Injective' /\ Alive' = {}
    BY <1>4, DestroyRemoves DEF DestroyMainTimers
  <2> QED BY <1>4, <2>1 DEF DestroyMainTimers, DestroyTimers, StopTimers,
             gatewayVars
<1>5. ASSUME UNCHANGED <<channels, armed, enabled>>
      PROVE  /\ Alive' = Alive /\ (Injective' <=> Injective)
             /\ channels' = channels /\ armed' = armed /\ enabled' = enabled
  BY <1>5 DEF Alive, Injective
<1> USE DEF Statement, Begins, Fails, Ends, eventLoopVars, timerVars
<1>6. CASE LoadConfig \/ OpenStorage \/ AttachStorage \/ AttachMqtt
           \/ ConnectMqtt \/ StartTcp \/ StartControl
  BY <1>5, <1>6 DEF LoadConfig, OpenStorage, AttachStorage, AttachMqtt,
     ConnectMqtt, StartTcp, StartControl
<1>7. CASE NotifyReady \/ RunLoop \/ NotifyStopping
  BY <1>5, <1>7 DEF NotifyReady, RunLoop, Run, NotifyStopping
<1>8. CASE StopServices
  BY <1>5, <1>8 DEF StopServices
<1>9. CASE Exit
  BY <1>5, <1>9 DEF Exit
<1>10. CASE UNCHANGED <<main, channels, armed, enabled>>
  BY <1>5, <1>10
<1> QED BY <1>2, <1>3, <1>4, <1>6, <1>7, <1>8, <1>9, <1>10
     DEF GatewayNext, MainStep, LoopRuns, LoopStep, TestRunning, EpollWait,
         DispatchTimer, DispatchWakeup, BatchDone, SignalCallback,
         ReportCallback, Signal, DestroyService, Expire, gatewayVars,
         gatewayAllVars

\* edgelinkd before its first statement: nothing is up, nobody was told.
LEMMA GatewayInitInv == EventLoopInit /\ GatewayInit => GatewayInv
<1> SUFFICES ASSUME EventLoopInit, GatewayInit
             PROVE  GatewayInv
  OBVIOUS
<1>1. UpInv /\ NotifiedInv
  BY DEF GatewayInit, UpInv, NotifiedInv, BeforeServices, AfterServing,
     WhileServing, Ended, Services
<1>2. enabled \subseteq MainTimers
  BY DEF GatewayInit, MainTimers
<1>3. channels \in [Fds -> Nat] /\ Injective /\ Alive = {} /\ armed = {}
  BY DEF EventLoopInit, Injective, Alive, NoTimer
<1> QED BY <1>1, <1>2, <1>3 DEF GatewayInv, GatewayInit, TimersInv,
        BeforeServices, AfterServing

\* The table of main()'s statements is right throughout a run of edgelinkd.
LEMMA GatewayInvariance == GatewaySpec => []GatewayInv
<1>1. GatewayInv /\ [GatewayNext]_gatewayAllVars => GatewayInv'
  BY UpStep, NotifiedStep, TimersStep DEF GatewayInv
<1> QED BY GatewayInitInv, <1>1, PTL DEF GatewaySpec

\* READY means that everything serves; the database outlives its users on every
\* way out of main(); an ended process has left nothing and its exit status
\* says whether it was ever ready.
THEOREM GatewaySafety == GatewaySpec => []ReadyMeansServing
<1>1. GatewayInv => ReadyMeansServing
  <2> SUFFICES ASSUME GatewayInv
               PROVE  ReadyMeansServing
    OBVIOUS
  <2> USE DEF GatewayInv
  <2>1. ASSUME notified = "READY"
        PROVE  main \in {"run", "running"}
    BY <2>1 DEF UpInv, NotifiedInv, BeforeServices, WhileServing, AfterServing,
       Ended
  <2>2. ASSUME main \in {"run", "running"}
        PROVE  Services \ {"mqtt"} \subseteq up /\ armed = enabled
    BY <2>2 DEF UpInv, TimersInv, Services, WhileServing, Ended
  <2>3. ASSUME main \in {"exited", "aborted"}
        PROVE  /\ up = {} /\ Alive = {} /\ armed = {}
               /\ exitCode = 0 <=> notified = "STOPPING"
    BY <2>3 DEF UpInv, NotifiedInv, TimersInv
  <2> QED BY <2>1, <2>2, <2>3 DEF ReadyMeansServing, UpInv
<1> QED BY GatewayInvariance, <1>1, PTL

-----------------------------------------------------------------------------
(* SystemMonitor: the numbers.                                             *)

\* The sums that are checked are exact when they are not given up.
LEMMA CheckedAddIsExact ==
    ASSUME NEW sum \in Words \union {Missing}, NEW value \in Words
    PROVE  /\ CheckedAdd(sum, value) \in Words \union {Missing}
           /\ CheckedAdd(sum, value) # Missing
                => sum # Missing /\ CheckedAdd(sum, value) = sum + value
BY WordAssumption DEF CheckedAdd, Words, Missing

\* The counters sampleCpu() keeps are the ones the kernel gave, or there are none.
LEMMA TimesAreTrue ==
    ASSUME NEW line \in CpuLines, Len(line) >= 4,
           TotalOf(line) # Missing, IdleOf(line) # Missing
    PROVE  /\ [total |-> TotalOf(line), idle |-> IdleOf(line)] = TrueTimes(line)
           /\ TrueTimes(line) \in [total : Nat, idle : Nat]
<1> DEFINE c(i) == Column(line, i)
           plus(sum, i) == CheckedAdd(sum, c(i))
           s1 == plus(0, 1)
           s2 == plus(s1, 2)
           s3 == plus(s2, 3)
           s4 == plus(s3, 4)
           s5 == plus(s4, 5)
           s6 == plus(s5, 6)
           s7 == plus(s6, 7)
           s8 == plus(s7, 8)
<1>1. \A i \in 1 .. 8 : c(i) \in Words
  BY FilesAssumption, WordAssumption DEF Column, Words
<1>2. TotalOf(line) = s8
  BY DEF TotalOf
<1> HIDE DEF c
<1>3. 0 \in Words \union {Missing}
  BY WordAssumption DEF Words
<1>4. \A i \in 1 .. 8, sum \in Words \union {Missing} :
         /\ plus(sum, i) \in Words \union {Missing}
         /\ plus(sum, i) # Missing => sum # Missing /\ plus(sum, i) = sum + c(i)
  BY <1>1, CheckedAddIsExact
<1> HIDE DEF plus
<1>5. /\ s1 \in Words \union {Missing} /\ s2 \in Words \union {Missing}
      /\ s3 \in Words \union {Missing} /\ s4 \in Words \union {Missing}
  BY <1>3, <1>4
<1>6. /\ s5 \in Words \union {Missing} /\ s6 \in Words \union {Missing}
      /\ s7 \in Words \union {Missing}
  BY <1>4, <1>5
<1>7. /\ s1 # Missing /\ s2 # Missing /\ s3 # Missing /\ s4 # Missing
      /\ s5 # Missing /\ s6 # Missing /\ s7 # Missing /\ s8 # Missing
  BY <1>2, <1>3, <1>4, <1>5, <1>6
<1>8. /\ s1 = 0 + c(1) /\ s2 = s1 + c(2) /\ s3 = s2 + c(3) /\ s4 = s3 + c(4)
  BY <1>3, <1>4, <1>5, <1>7
<1>9. /\ s5 = s4 + c(5) /\ s6 = s5 + c(6) /\ s7 = s6 + c(7) /\ s8 = s7 + c(8)
  BY <1>4, <1>5, <1>6, <1>7
<1>10. /\ c(1) \in Nat /\ c(2) \in Nat /\ c(3) \in Nat /\ c(4) \in Nat
       /\ c(5) \in Nat /\ c(6) \in Nat /\ c(7) \in Nat /\ c(8) \in Nat
  BY <1>1, WordAssumption DEF Words
<1> HIDE DEF s1, s2, s3, s4, s5, s6, s7, s8
<1>11. TotalOf(line) = c(1) + c(2) + c(3) + c(4) + c(5) + c(6) + c(7) + c(8)
  BY <1>2, <1>8, <1>9, <1>10
<1>12. /\ line[4] \in Words /\ c(4) = line[4] /\ Len(line) \in Nat
       /\ Len(line) > 4 => line[5] \in Words /\ c(5) = line[5]
       /\ ~(Len(line) > 4) => c(5) = 0
  BY FilesAssumption DEF c, Column
<1>13. IdleOf(line) = c(4) + c(5)
  <2>1. CASE Len(line) > 4
    BY <2>1, <1>12, CheckedAddIsExact DEF IdleOf
  <2>2. CASE ~(Len(line) > 4)
    BY <2>2, <1>10, <1>12 DEF IdleOf
  <2> QED BY <2>1, <2>2
<1>14. PICK total \in Nat :
          total = c(1) + c(2) + c(3) + c(4) + c(5) + c(6) + c(7) + c(8)
  <2>1. s8 \in Nat
    BY <1>4, <1>6, <1>7, WordAssumption DEF s8, Words, Missing
  <2> QED BY <1>2, <1>11, <2>1, Zenon
<1>15. PICK idle \in Nat : idle = c(4) + c(5)
  BY <1>10
<1>16. TrueTimes(line) = [total |-> total, idle |-> idle]
  BY <1>14, <1>15, Zenon DEF TrueTimes, c
<1>17. TotalOf(line) = total /\ IdleOf(line) = idle
  BY <1>11, <1>13, <1>14, <1>15, Zenon
<1>18. TrueTimes(line) \in [total : Nat, idle : Nat]
  BY <1>16
<1> QED BY <1>16, <1>17, <1>18, Zenon

\* A size that fits is the exact number of bytes, and conversion keeps the order.
LEMMA BytesAreExact ==
    ASSUME NEW k \in Words \union {Missing}, KibibytesToBytes(k) # Missing
    PROVE  /\ k \in Words
           /\ KibibytesToBytes(k) = k * BytesPerKibibyte
           /\ KibibytesToBytes(k) \in Words
<1>1. k \in Words /\ k <= MaxWord \div BytesPerKibibyte
      /\ KibibytesToBytes(k) = k * BytesPerKibibyte
  BY WordAssumption DEF KibibytesToBytes, Words, Missing
<1>2. PICK q : q = MaxWord \div BytesPerKibibyte
  OBVIOUS
<1>3. q \in Nat /\ BytesPerKibibyte * q <= MaxWord
  BY <1>2, WordAssumption
<1>4. k * BytesPerKibibyte \in Nat /\ k * BytesPerKibibyte <= BytesPerKibibyte * q
  BY <1>1, <1>2, <1>3, WordAssumption DEF Words
<1> QED BY <1>1, <1>3, <1>4, WordAssumption DEF Words

-----------------------------------------------------------------------------
(* SystemMonitor: the invariant.                                           *)

Times == [total : Nat, idle : Nat]

\* The baseline is the last reading that could be used, and what sampleCpu() has
\* put out is the usage since the one before it.
BaselineInv ==
    \/ readings = <<>> /\ previousCpuTimes = {} /\ cpuUsage = {}
    \/ \E now \in Times :
          readings = <<now>> /\ previousCpuTimes = {now} /\ cpuUsage = {}
    \/ \E before \in Times, now \in Times :
          /\ readings = <<before, now>> /\ previousCpuTimes = {now}
          /\ cpuUsage = UsageSince(before, now)

\* Nothing is left in metrics while it is being filled.
ReportInv ==
    /\ monitor = "memory" => metrics = {}
    /\ \A r \in metrics :
          /\ r.cpu = cpuUsage
          /\ r.total = r.kibibytes * BytesPerKibibyte
          /\ r.used \in 0 .. r.total /\ r.used + r.available = r.total

MonitorInv == BaselineInv /\ ReportInv

\* sampleCpu() moves the baseline, also when the sample fails after it.
LEMMA SampleCpuKeeps ==
    ASSUME BaselineInv, NEW line \in CpuLines, SampleCpu(line)
    PROVE  BaselineInv'
<1>1. PICK now : now = TrueTimes(line)
  OBVIOUS
<1>2. now \in Times /\ [total |-> TotalOf(line), idle |-> IdleOf(line)] = now
  BY <1>1, TimesAreTrue DEF SampleCpu, Times
<1>3. /\ cpuUsage' = UNION {UsageSince(before, now) : before \in previousCpuTimes}
      /\ previousCpuTimes' = {now}
      /\ readings' = IF readings = <<>> THEN <<now>>
                     ELSE <<readings[Len(readings)], now>>
  BY <1>1, <1>2 DEF SampleCpu
<1>4. \A before : UNION {UsageSince(b, now) : b \in {before}} = UsageSince(before, now)
  BY Zenon
<1>5. CASE readings = <<>> /\ previousCpuTimes = {} /\ cpuUsage = {}
  <2>1. readings' = <<now>> /\ cpuUsage' = {}
    BY <1>3, <1>5
  <2> QED BY <1>2, <1>3, <2>1 DEF BaselineInv
<1>6. ASSUME NEW last \in Times, readings = <<last>>, previousCpuTimes = {last}
      PROVE  BaselineInv'
  <2>1. readings' = <<last, now>>
    BY <1>3, <1>6
  <2>2. cpuUsage' = UsageSince(last, now)
    BY <1>3, <1>4, <1>6
  <2> QED BY <1>2, <1>3, <2>1, <2>2 DEF BaselineInv
<1>7. ASSUME NEW first \in Times, NEW last \in Times,
             readings = <<first, last>>, previousCpuTimes = {last}
      PROVE  BaselineInv'
  <2>1. readings' = <<last, now>>
    BY <1>3, <1>7
  <2>2. cpuUsage' = UsageSince(last, now)
    BY <1>3, <1>4, <1>7
  <2> QED BY <1>2, <1>3, <2>1, <2>2 DEF BaselineInv
<1> QED BY <1>5, <1>6, <1>7 DEF BaselineInv

\* Available memory is at most the total, whichever way it was found.
LEMMA AvailableFits ==
    ASSUME NEW info \in MemoryInfos
    PROVE  /\ AvailableOf(info) \in Words \union {Missing}
           /\ AvailableOf(info) # Missing => AvailableOf(info) <= info.total
<1>1. /\ info.total \in Words /\ info.available \in Words \union {Missing}
      /\ info.free \in Words /\ info.buffers \in Words /\ info.cached \in Words
  BY FilesAssumption
<1>2. \A n \in Words : n \in Words \union {Missing}
  OBVIOUS
<1>3. CheckedAdd(info.free, info.buffers) \in Words \union {Missing}
  BY <1>1, <1>2, CheckedAddIsExact
<1>4. PICK sum \in Words \union {Missing} :
         sum = CheckedAdd(CheckedAdd(info.free, info.buffers), info.cached)
  BY <1>1, <1>3, CheckedAddIsExact
<1>5. PICK available \in Words \union {Missing} :
         AvailableOf(info) = IF available > info.total THEN info.total ELSE available
  BY <1>1, <1>4 DEF AvailableOf
<1> QED BY <1>1, <1>5, WordAssumption DEF Words, Missing

\* sampleMemory() reports what adds up, or nothing.
LEMMA SampleMemoryKeeps ==
    ASSUME NEW info \in MemoryInfos, SampleMemory(info), ReportInv
    PROVE  ReportInv'
<1> DEFINE total == KibibytesToBytes(info.total)
           available == KibibytesToBytes(AvailableOf(info))
<1>1. CASE metrics' = {}
  BY <1>1 DEF ReportInv
<1>2. CASE metrics' # {}
  <2>1. /\ total # Missing /\ available # Missing
        /\ monitor' = "idle" /\ cpuUsage' = cpuUsage
        /\ metrics' = {[cpu |-> cpuUsage, total |-> total, available |-> available,
                        used |-> (total - available) % (MaxWord + 1),
                        kibibytes |-> info.total]}
    BY <1>2 DEF SampleMemory
  <2>2. info.total \in Words /\ total = info.total * BytesPerKibibyte /\ total \in Words
    BY <2>1, BytesAreExact, FilesAssumption
  <2>3. PICK k : k = AvailableOf(info)
    OBVIOUS
  <2>4. /\ k \in Words /\ available = k * BytesPerKibibyte /\ available \in Words
        /\ k <= info.total
    BY <2>1, <2>3, BytesAreExact, AvailableFits DEF Words, Missing
  <2> HIDE DEF total, available
  <2>5. available <= total
    BY <2>2, <2>4, WordAssumption DEF Words
  <2>6. PICK used \in 0 .. total :
           used = (total - available) % (MaxWord + 1) /\ used + available = total
    <3>1. PICK used \in 0 .. total : used = total - available /\ used + available = total
      BY <2>2, <2>4, <2>5 DEF Words
    <3>2. used \in 0 .. MaxWord
      BY <2>2, WordAssumption DEF Words
    <3>3. used % (MaxWord + 1) = used
      BY <3>2, WordAssumption
    <3> QED BY <3>1, <3>3, Zenon
  <2>7. \A r \in metrics' :
           /\ r.cpu = cpuUsage' /\ r.total = r.kibibytes * BytesPerKibibyte
           /\ r.used \in 0 .. r.total /\ r.used + r.available = r.total
    BY <2>1, <2>2, <2>6
  <2> QED BY <2>1, <2>7 DEF ReportInv
<1> QED BY <1>1, <1>2

\* Every step of sample() keeps the invariant.
LEMMA MonitorStep ==
    ASSUME MonitorInv, [MonitorNext]_monitorVars
    PROVE  MonitorInv'
<1> USE DEF MonitorInv
<1>1. CASE SampleCpuFails
  BY <1>1 DEF SampleCpuFails, BaselineInv, ReportInv
<1>2. CASE SampleMemoryFails
  BY <1>2 DEF SampleMemoryFails, BaselineInv, ReportInv
<1>3. ASSUME NEW line \in CpuLines, SampleCpu(line)
      PROVE  MonitorInv'
  <2>1. ReportInv'
    BY <1>3 DEF SampleCpu, ReportInv
  <2> QED BY <1>3, <2>1, SampleCpuKeeps
<1>4. ASSUME NEW info \in MemoryInfos, SampleMemory(info)
      PROVE  MonitorInv'
  <2>1. BaselineInv'
    BY <1>4 DEF SampleMemory, BaselineInv
  <2> QED BY <1>4, <2>1, SampleMemoryKeeps
<1>5. CASE UNCHANGED monitorVars
  BY <1>5 DEF monitorVars, BaselineInv, ReportInv
<1> QED BY <1>1, <1>2, <1>3, <1>4, <1>5 DEF MonitorNext

\* What sample() reports is true of the numbers the kernel gave, for counters of
\* any width and any contents of the two files: SystemMonitor's figures neither
\* wrap nor mix readings, whatever failed in between.
THEOREM MetricsSafety == MonitorSpec => []MetricsAreTrue
<1>1. MonitorInit => MonitorInv
  BY DEF MonitorInit, MonitorInv, BaselineInv, ReportInv
<1>2. MonitorInv /\ [MonitorNext]_monitorVars => MonitorInv'
  BY MonitorStep
<1>3. MonitorInv => MetricsAreTrue
  <2> SUFFICES ASSUME MonitorInv, NEW r \in metrics
               PROVE  /\ cpuUsage =
                           IF /\ Len(readings) = 2
                              /\ readings[2].total - readings[1].total > 0
                              /\ readings[2].idle - readings[1].idle
                                   \in 0 .. (readings[2].total - readings[1].total)
                           THEN {[busy |-> readings[2].total - readings[1].total
                                             - (readings[2].idle - readings[1].idle),
                                  of |-> readings[2].total - readings[1].total]}
                           ELSE {}
    BY DEF MetricsAreTrue, MonitorInv, ReportInv
  <2>1. CASE readings = <<>> /\ cpuUsage = {}
    BY <2>1
  <2>2. ASSUME NEW now \in Times, readings = <<now>>, cpuUsage = {}
        PROVE  Len(readings) # 2
    BY <2>2
  <2>3. ASSUME NEW before \in Times, NEW now \in Times,
               readings = <<before, now>>, cpuUsage = UsageSince(before, now)
        PROVE  /\ Len(readings) = 2 /\ readings[1] = before /\ readings[2] = now
               /\ cpuUsage = UsageSince(before, now)
    BY <2>3
  <2> QED BY <2>1, <2>2, <2>3 DEF MonitorInv, BaselineInv, UsageSince
<1> QED BY <1>1, <1>2, <1>3, PTL DEF MonitorSpec

=============================================================================
