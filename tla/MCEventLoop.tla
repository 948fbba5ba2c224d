---------------------------- MODULE MCEventLoop ----------------------------
(* The two programs that own an EventLoop, each in a process of its own: an *)
(* application with a DeviceScheduler, and edgelinkd; and the SystemMonitor *)
(* of edgelinkd, seen for itself, as nothing else depends on it.            *)
EXTENDS DeviceScheduler, Gateway, SystemMonitor

vars == <<eventLoopVars, schedulerVars, gatewayVars, monitorVars>>

Init ==
    /\ EventLoopInit
    /\ \/ SchedulerInit /\ NoGateway /\ NoMonitor
       \/ NoScheduler /\ GatewayInit /\ NoMonitor
       \/ NoScheduler /\ NoGateway /\ MonitorInit

ApplicationStep ==
    scheduler # "none" /\ ApplicationNext /\ UNCHANGED <<gatewayVars, monitorVars>>
GatewayStep ==
    main # "none" /\ GatewayNext /\ UNCHANGED <<schedulerVars, monitorVars>>
MonitorStep ==
    monitor # "none" /\ MonitorNext
    /\ UNCHANGED <<eventLoopVars, schedulerVars, gatewayVars>>

Next == ApplicationStep \/ GatewayStep \/ MonitorStep

\* Threads that can run do, callbacks return, and set timers expire.
FairSpec ==
    /\ Init /\ [][Next]_vars
    /\ WF_vars(scheduler # "none" /\ (LoopStep \/ WakeUp)
               /\ UNCHANGED <<schedulerVars, gatewayVars, monitorVars>>)
    /\ WF_vars(scheduler # "none" /\ TaskReturns
               /\ UNCHANGED <<gatewayVars, monitorVars>>)
    /\ WF_vars(main # "none" /\ MainStep /\ UNCHANGED <<schedulerVars, monitorVars>>)
    /\ \A t \in Timers :
          WF_vars(Expire(t) /\ UNCHANGED <<schedulerVars, gatewayVars, monitorVars>>)

MCTimers == 1 .. 3

\* Counters at both ends of the type, and where kibibytes no longer fit in bytes.
MCValues == {0, 1, MaxWord \div BytesPerKibibyte, MaxWord}

MCCpuLines ==
    {SubSeq(<<user, 0, 0, idle, iowait, 0, 0, 0, guest, 0>>, 1, columns) :
        user \in MCValues, idle \in MCValues, iowait \in MCValues, guest \in {0, 1},
        columns \in {3, 4, 5, 10}}

MCMemoryInfos ==
    [total : MCValues, available : {Missing}, free : MCValues, buffers : {0, 1},
     cached : MCValues]
        \union
    [total : MCValues, available : MCValues, free : {0}, buffers : {0}, cached : {0}]
=============================================================================
