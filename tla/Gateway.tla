------------------------------ MODULE Gateway ------------------------------
(***************************************************************************)
(* The daemon edgelinkd: main() (src/main.cpp), the signal handler         *)
(* (src/signal_handler.cpp) and what main() does with the loop and its     *)
(* three timers.                                                           *)
(*                                                                         *)
(* main() is one action per statement that starts or stops something.  The *)
(* services are seen from outside: up is the set of those that work; what  *)
(* each does while it works is in its own module.  `return 1` and the end  *)
(* of main() run the destructors of the locals in reverse order; an        *)
(* exception out of a Timer's constructor is caught by nobody and ends the *)
(* process without them.                                                   *)
(***************************************************************************)
EXTENDS EventLoop, Sequences

SignalTimer == 1
WatchdogTimer == 2
MonitorTimer == 3
MainTimers == {SignalTimer, WatchdogTimer, MonitorTimer}

ASSUME GatewayAssumption == MainTimers \subseteq Timers

VARIABLES
    main,       \* the next statement of main(); "none": another program
    up,         \* the services that work
    notified,   \* the last state sent to systemd: "none", "READY", "STOPPING"
    signalled,  \* gShutdownRequested
    enabled,    \* the timers that environment and configuration ask for
    exitCode

gatewayVars == <<main, up, notified, signalled, enabled, exitCode>>

\* storage: the database is open; history and forwarding: the storage and the
\* MQTT service are subscribed to the bus; mqtt: the client and its threads.
Services == {"storage", "history", "forwarding", "mqtt", "tcp", "control"}

\* SystemdNotifier(): the watchdog's period, in milliseconds, 0 for none.  A
\* variable that is not a number counts as not set, and usec as 0 then.
WatchdogInterval(pid, usec) ==
    IF pid = "other" THEN 0 ELSE usec \div 1000

GatewayInit ==
    /\ main = "config" /\ up = {} /\ notified = "none" /\ signalled = FALSE
    /\ \E pid \in {"unset", "own", "other"}, usec \in {0, 999, 1000}, monitored \in BOOLEAN :
          enabled = {SignalTimer}
                    \union (IF WatchdogInterval(pid, usec) > 0 THEN {WatchdogTimer} ELSE {})
                    \union (IF monitored THEN {MonitorTimer} ELSE {})
    /\ exitCode = 0

NoGateway ==
    /\ main = "none" /\ up = {} /\ notified = "none" /\ signalled = FALSE
    /\ enabled = {} /\ exitCode = 0

-----------------------------------------------------------------------------
(* Start.                                                                  *)

\* A statement of main() that leaves the loop alone.
Statement(at, next) ==
    /\ main = at /\ main' = next
    /\ UNCHANGED <<eventLoopVars, signalled, enabled>>

\* A service that is started, and what happens when that fails: the ones in
\* down are stopped, and main() returns 1.
Begins(service, at, next) ==
    /\ Statement(at, next)
    /\ up' = up \union {service}
    /\ UNCHANGED <<notified, exitCode>>

Fails(at, down) ==
    /\ Statement(at, "unwind")
    /\ up' = up \ down /\ exitCode' = 1
    /\ UNCHANGED notified

\* config.load() and the check of its values.
LoadConfig ==
    \/ Statement("config", "open") /\ UNCHANGED <<up, notified, exitCode>>
    \/ Fails("config", {})

OpenStorage == Begins("storage", "open", "attachStorage") \/ Fails("open", {})

AttachStorage ==
    \/ Begins("history", "attachStorage", "attachMqtt")
    \/ Fails("attachStorage", {})

AttachMqtt ==
    \/ Begins("forwarding", "attachMqtt", "connect")
    \/ Fails("attachMqtt", {})

\* connect(): a broker that does not answer leaves a client that goes on trying,
\* a library that cannot start leaves none; main() goes on in any case.
ConnectMqtt ==
    \/ Begins("mqtt", "connect", "tcp")
    \/ Statement("connect", "tcp") /\ UNCHANGED <<up, notified, exitCode>>

StartTcp == Begins("tcp", "tcp", "control") \/ Fails("tcp", {})

StartControl == Begins("control", "control", "signalTimer") \/ Fails("control", {"tcp"})

\* A Timer on the stack, started when it is asked for.
CreateMainTimer(t, at, next) ==
    /\ main = at /\ main' = next
    /\ CreateTimer(t)
    /\ IF t \in enabled THEN StartPeriodic({t}) ELSE UNCHANGED <<armed, expired, calling>>
    /\ UNCHANGED <<loopVars, up, notified, signalled, enabled, exitCode>>

\* timerfd_create or epoll_ctl fails: the constructor throws, std::terminate.
TimerThrows ==
    /\ main \in {"signalTimer", "watchdogTimer", "monitorTimer"}
    /\ main' = "aborted" /\ up' = {} /\ exitCode' = 134
    /\ DestroyTimers(Alive)
    /\ UNCHANGED <<loopVars, notified, signalled, enabled>>

CreateTimers ==
    \/ CreateMainTimer(SignalTimer, "signalTimer", "watchdogTimer")
    \/ CreateMainTimer(WatchdogTimer, "watchdogTimer", "monitorTimer")
    \/ CreateMainTimer(MonitorTimer, "monitorTimer", "ready")

NotifyReady ==
    /\ Statement("ready", "run")
    /\ notified' = "READY"
    /\ UNCHANGED <<up, exitCode>>

-----------------------------------------------------------------------------
(* The loop.                                                               *)

RunLoop ==
    /\ main = "run" /\ main' = "running"
    /\ Run
    /\ UNCHANGED <<up, notified, signalled, enabled, exitCode>>

LoopRuns == main = "running" /\ LoopStep /\ UNCHANGED gatewayVars

\* The callback of the signal timer: eventLoop.stop(), in the loop's thread.
SignalCallback ==
    /\ calling = SignalTimer /\ calling' = NoTimer
    /\ IF signalled THEN running' = FALSE /\ counter' = TRUE
                    ELSE UNCHANGED <<running, counter>>
    /\ UNCHANGED <<timerVars, loop, batch, asker, asked, gatewayVars>>

\* notifyWatchdog(), or a sample of the SystemMonitor for the log.
ReportCallback ==
    /\ calling \in {WatchdogTimer, MonitorTimer} /\ calling' = NoTimer
    /\ UNCHANGED <<timerVars, loopVars, gatewayVars>>

\* SIGINT or SIGTERM.  The handler sets the flag; epoll_wait ends with EINTR,
\* and the loop tests running_ again.
Signal ==
    /\ main \notin {"none", "exited", "aborted"} /\ ~signalled
    /\ signalled' = TRUE
    /\ loop' = IF loop = "wait" THEN "test" ELSE loop
    /\ UNCHANGED <<timerVars, running, batch, counter, asker, asked, calling,
                   main, up, notified, enabled, exitCode>>

-----------------------------------------------------------------------------
(* Shutdown.                                                               *)

NotifyStopping ==
    /\ loop = "over" /\ Statement("running", "stopControl")
    /\ notified' = "STOPPING"
    /\ UNCHANGED <<up, exitCode>>

Ends(service, at, next) ==
    /\ Statement(at, next)
    /\ up' = up \ {service}
    /\ UNCHANGED <<notified, exitCode>>

\* Mutant of StopServices: the database is closed before its users are gone.
StopServices_StorageFirst ==
    \/ Ends("control", "stopControl", "stopTcp")
    \/ Ends("tcp", "stopTcp", "close")
    \/ Ends("storage", "close", "disconnect")
    \/ Ends("mqtt", "disconnect", "detachMqtt")
    \/ Ends("forwarding", "detachMqtt", "detachStorage")
    \/ Ends("history", "detachStorage", "unwind")

StopServices ==
    \/ Ends("control", "stopControl", "stopTcp")
    \/ Ends("tcp", "stopTcp", "disconnect")
    \/ Ends("mqtt", "disconnect", "detachMqtt")
    \/ Ends("forwarding", "detachMqtt", "detachStorage")
    \/ Ends("history", "detachStorage", "close")
    \/ Ends("storage", "close", "unwind")

\* The destructors of the locals, last one first: the timers ...
DestroyMainTimers ==
    /\ main = "unwind" /\ Alive # {}
    /\ DestroyTimers(Alive)
    /\ UNCHANGED <<loopVars, gatewayVars>>

\* ... then the services: ~UnixDomainServer, ~TcpServer, ~MqttService (which
\* detaches and disconnects), ~StorageService (which detaches and closes).
Destructors == <<"control", "tcp", "forwarding", "mqtt", "history", "storage">>

DestroyService ==
    /\ main = "unwind" /\ Alive = {} /\ up # {}
    /\ LET first == CHOOSE i \in DOMAIN Destructors :
                       /\ Destructors[i] \in up
                       /\ \A j \in 1 .. i - 1 : Destructors[j] \notin up
       IN up' = up \ {Destructors[first]}
    /\ UNCHANGED <<eventLoopVars, main, notified, signalled, enabled, exitCode>>

\* ... and ~EventLoop, which calls stop() once more.
Exit ==
    /\ main = "unwind" /\ Alive = {} /\ up = {}
    /\ main' = "exited" /\ running' = FALSE /\ counter' = FALSE
    /\ UNCHANGED <<timerVars, loop, batch, asker, asked, calling, up, notified,
                   signalled, enabled, exitCode>>

MainStep ==
    \/ LoadConfig \/ OpenStorage \/ AttachStorage \/ AttachMqtt \/ ConnectMqtt
    \/ StartTcp \/ StartControl \/ CreateTimers \/ TimerThrows \/ NotifyReady
    \/ RunLoop \/ LoopRuns \/ SignalCallback \/ ReportCallback
    \/ NotifyStopping \/ StopServices \/ DestroyMainTimers \/ DestroyService \/ Exit

GatewayNext ==
    \/ MainStep \/ Signal
    \/ \E t \in Timers : Expire(t) /\ UNCHANGED gatewayVars

gatewayAllVars == <<eventLoopVars, gatewayVars>>

GatewaySpec == EventLoopInit /\ GatewayInit /\ [][GatewayNext]_gatewayAllVars

-----------------------------------------------------------------------------
(* Properties.                                                             *)

\* systemd is told READY only when every service that must work does, and the
\* timer that looks for signals is set; nothing is taken away before systemd is
\* told that too.  The database stays open as long as anybody may write to it
\* or read from it, on every way out of main().  When the process has ended,
\* whichever way it went, no service and no timer is left, and it failed
\* exactly if it never was READY.
ReadyMeansServing ==
    main # "none" =>
        /\ notified = "READY" =>
              /\ Services \ {"mqtt"} \subseteq up
              /\ armed = enabled
        /\ up \intersect {"history", "forwarding", "mqtt"} # {} => "storage" \in up
        /\ main \in {"exited", "aborted"} =>
              /\ up = {} /\ Alive = {} /\ armed = {}
              /\ exitCode = 0 <=> notified = "STOPPING"

\* "按 Ctrl+C 可正常退出": a SIGINT or SIGTERM, whenever it comes, ends the
\* process; and a stop() of another thread ends a loop that runs, also one that
\* sleeps in epoll_wait and has no timer that would wake it.
ShutdownCompletes ==
    /\ signalled ~> main \in {"exited", "aborted"}
    /\ asked ~> ~Active

=============================================================================
