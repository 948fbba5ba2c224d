----------------------------- MODULE EventLoop -----------------------------
(***************************************************************************)
(* The epoll loop (src/event_loop.cpp, src/channel.cpp) with the two kinds *)
(* of descriptor that belong to the library itself: timers (src/timer.cpp) *)
(* and the eventfd of Wakeup (src/wakeup.cpp).  Sockets on the same loop   *)
(* are the subject of TcpServer and UnixDomainServer.                      *)
(*                                                                         *)
(* One thread runs the loop.  epoll_wait fills a batch, and the callbacks  *)
(* of the batch run one after the other while time goes on; a callback may *)
(* stop, restart, create and destroy timers whose events are still in the  *)
(* batch.  Only stop() is meant for other threads: it is a store and then  *)
(* a write to the eventfd.                                                 *)
(*                                                                         *)
(* The kernel is external: a timerfd that is armed expires again and       *)
(* again, expirations nobody has read are merged, timerfd_settime forgets  *)
(* them, and a new descriptor is the lowest one that is free.              *)
(*                                                                         *)
(* This module has the loop's state and steps.  The programs that own a    *)
(* loop (DeviceScheduler, Gateway) extend it and say when its owner acts.  *)
(***************************************************************************)
EXTENDS Integers, FiniteSets

CONSTANTS
    Timers,  \* Timer objects
    Fds      \* descriptors left to timers; WakeupFd is not one of them

NoTimer == 0
Destroyed == -1
WakeupFd == 0

\* epoll_wait is given room for 32 events, more than there are descriptors.
ASSUME TimerAssumption == Timers \subseteq Nat \ {0}
ASSUME FdAssumption ==
    Fds \subseteq Nat \ {0} /\ IsFiniteSet(Fds) /\ Cardinality(Fds) < 32

VARIABLES
    running,   \* running_
    loop,      \* run(): "idle", "test", "wait", "dispatch", "over"
    batch,     \* descriptors epoll_wait has reported, not dispatched yet
    channels,  \* channels_ and epoll: per descriptor, the timer behind it
    counter,   \* the eventfd is not zero
    armed,     \* timers whose timerfd is set
    expired,   \* timers with expirations nobody has read
    calling,   \* the timer whose callback runs; Destroyed: its closure is gone
    asker,     \* another thread in stop(): "no", "stored", "done"
    asked      \* stop() has stored while run() was under way

timerVars == <<channels, armed, expired>>
loopVars == <<running, loop, batch, counter, asker, asked>>
eventLoopVars == <<timerVars, loopVars, calling>>

EventLoopInit ==
    /\ running = FALSE /\ loop = "idle" /\ batch = {} /\ counter = FALSE
    /\ channels = [fd \in Fds |-> NoTimer]
    /\ armed = {} /\ expired = {} /\ calling = NoTimer
    /\ asker = "no" /\ asked = FALSE

\* run() has begun and has not returned.
Active == loop \in {"test", "wait", "dispatch"}

Alive == {channels[fd] : fd \in Fds} \ {NoTimer}

-----------------------------------------------------------------------------
(* Timer.  The operations take a set, for owners that go through several.  *)

FreeFds == {fd \in Fds : channels[fd] = NoTimer}

LowestFree == CHOOSE fd \in FreeFds : \A other \in FreeFds : fd <= other

\* The constructor.  When timerfd_create or epoll_ctl fails, it throws and
\* leaves nothing behind.
CreateTimer(t) ==
    /\ FreeFds # {}
    /\ channels' = [channels EXCEPT ![LowestFree] = t]

\* A running closure that is replaced or destroyed is gone; all it can do is
\* to return.
ClosuresGo(S) == calling' = IF calling \in S THEN Destroyed ELSE calling

\* startPeriodic(), when timerfd_settime succeeds.
StartPeriodic(S) ==
    /\ armed' = armed \union S /\ expired' = expired \ S
    /\ ClosuresGo(S)

StopTimers(S) == armed' = armed \ S /\ expired' = expired \ S

\* ~Timer(): stop(), removeChannel() and close().
DestroyTimers(S) ==
    /\ StopTimers(S)
    /\ channels' = [fd \in Fds |-> IF channels[fd] \in S THEN NoTimer
                                   ELSE channels[fd]]
    /\ ClosuresGo(S)

\* The kernel: the time of t has come (again).
Expire(t) ==
    /\ t \in armed /\ t \notin expired
    /\ expired' = expired \union {t}
    /\ UNCHANGED <<channels, armed, loopVars, calling>>

-----------------------------------------------------------------------------
(* EventLoop::run().                                                       *)

Run ==
    /\ loop = "idle"
    /\ running' = TRUE /\ loop' = "test"
    /\ UNCHANGED <<timerVars, batch, counter, asker, asked, calling>>

\* while (running_); after the loop running_ is false in any case.
TestRunning ==
    /\ loop = "test"
    /\ loop' = IF running THEN "wait" ELSE "over"
    /\ UNCHANGED <<timerVars, running, batch, counter, asker, asked, calling>>

ReadyFds ==
    {fd \in Fds : channels[fd] \in expired} \union (IF counter THEN {WakeupFd} ELSE {})

EpollWait ==
    /\ loop = "wait" /\ ReadyFds # {}
    /\ loop' = "dispatch" /\ batch' = ReadyFds
    /\ UNCHANGED <<timerVars, running, counter, asker, asked, calling>>

\* Mutant of HandleTimerRead: the callback runs whatever read() returned.
HandleTimerRead_Unchecked(t) ==
    /\ calling' = t /\ expired' = expired \ {t}

\* Timer::handleRead(): a timerfd without expirations gives EAGAIN, and then
\* the callback is not called.
HandleTimerRead(t) ==
    IF t \in expired THEN calling' = t /\ expired' = expired \ {t}
                     ELSE UNCHANGED <<calling, expired>>

\* One event of the batch: its descriptor is looked up in channels_ now, and
\* may belong to nobody, or to another timer than the one that expired.
DispatchTimer(fd) ==
    /\ loop = "dispatch" /\ calling = NoTimer /\ fd \in batch \ {WakeupFd}
    /\ batch' = batch \ {fd}
    /\ IF channels[fd] = NoTimer THEN UNCHANGED <<calling, expired>>
       ELSE HandleTimerRead(channels[fd])
    /\ UNCHANGED <<channels, armed, running, loop, counter, asker, asked>>

\* Wakeup::handleRead()
DispatchWakeup ==
    /\ loop = "dispatch" /\ calling = NoTimer /\ WakeupFd \in batch
    /\ batch' = batch \ {WakeupFd} /\ counter' = FALSE
    /\ UNCHANGED <<timerVars, running, loop, asker, asked, calling>>

BatchDone ==
    /\ loop = "dispatch" /\ calling = NoTimer /\ batch = {}
    /\ loop' = "test"
    /\ UNCHANGED <<timerVars, running, batch, counter, asker, asked, calling>>

LoopStep ==
    \/ TestRunning \/ EpollWait \/ DispatchWakeup \/ BatchDone
    \/ \E fd \in Fds : DispatchTimer(fd)

-----------------------------------------------------------------------------
(* EventLoop::stop(), called by another thread at any time.  run() sets    *)
(* running_ itself, so a stop() that comes before it is forgotten; asked   *)
(* remembers the ones that come in time.                                   *)

StoreStop ==
    /\ asker = "no"
    /\ running' = FALSE /\ asker' = "stored" /\ asked' = Active
    /\ UNCHANGED <<timerVars, loop, batch, counter, calling>>

\* Mutant of WakeUp: nothing is written to the eventfd.
WakeUp_NoWrite ==
    /\ asker = "stored"
    /\ asker' = "done"
    /\ UNCHANGED <<timerVars, running, loop, batch, counter, asked, calling>>

\* Wakeup::wakeup()
WakeUp ==
    /\ asker = "stored"
    /\ counter' = TRUE /\ asker' = "done"
    /\ UNCHANGED <<timerVars, running, loop, batch, asked, calling>>

=============================================================================
