--------------------------- MODULE ControlSocket ---------------------------
(***************************************************************************)
(* The path of the control socket: UnixDomainServer::start() and stop()    *)
(* (src/unix_domain_server.cpp) of gateways that are given the same path.  *)
(*                                                                         *)
(* start() looks at the path, probes a socket it finds there, removes it   *)
(* when nobody listens, and then creates its own: one action per system    *)
(* call, because another gateway may act between any two.  The path names  *)
(* nothing, something that is not a socket ("file"), the socket an         *)
(* instance has created, closed or not, or one whose process is gone       *)
(* ("dead").  The file system and the kernel's sockets are external.       *)
(***************************************************************************)
EXTENDS Naturals, FiniteSets

CONSTANTS
    Instances,   \* the gateways
    MaxStarts,   \* bound: how often each of them is started
    MaxCrashes,  \* bound: how often one of them dies without stop()
    MaxFaults    \* bound: how often listen() or addChannel() fails

ASSUME InstancesAssumption ==
    Instances # {} /\ Instances \intersect {"none", "file", "dead"} = {}
ASSUME BoundsAssumption ==
    MaxStarts \in Nat /\ MaxCrashes \in Nat /\ MaxFaults \in Nat

VARIABLES
    path,     \* what the path names
    pc,       \* per instance: the next call of start(); "running"; "stopping" or
              \* "failing" (start() has failed), the path not yet unlinked; "off";
              \* "refused" (the last start() returned false)
    socket,   \* per instance, its listenFd_: "none", "bound", "listening"
    owns,     \* per instance: ownsSocketPath_
    starts, crashes, faults

counters == <<starts, crashes, faults>>
vars == <<path, pc, socket, owns, counters>>

Init ==
    /\ path \in {"none", "file", "dead"}
    /\ pc = [i \in Instances |-> "off"]
    /\ socket = [i \in Instances |-> "none"]
    /\ owns = [i \in Instances |-> FALSE]
    /\ starts = [i \in Instances |-> 0] /\ crashes = 0 /\ faults = 0

Goto(i, where) == pc' = [pc EXCEPT ![i] = where]

-----------------------------------------------------------------------------
(* start()                                                                 *)

Start(i) ==
    /\ pc[i] \in {"off", "refused"} /\ starts[i] < MaxStarts
    /\ starts' = [starts EXCEPT ![i] = @ + 1]
    /\ Goto(i, "lstat")
    /\ UNCHANGED <<path, socket, owns, crashes, faults>>

\* lstat: nothing there, something that is not a socket, or a socket.
Lstat(i) ==
    /\ pc[i] = "lstat"
    /\ Goto(i, IF path = "none" THEN "bind"
               ELSE IF path = "file" THEN "refused" ELSE "probe")
    /\ UNCHANGED <<path, socket, owns, counters>>

\* Mutant of IsStale: a socket that refuses connections counts as in use.
IsStale_Never == FALSE

\* isStaleSocketPath(): connect ends in ECONNREFUSED.  So it does on a socket
\* that does not listen yet or is closed already, and on a file that is no
\* socket; on a path that is gone it ends in ENOENT.
IsStale == \/ path \in {"dead", "file"}
           \/ path \in Instances /\ socket[path] # "listening"

Probe(i) ==
    /\ pc[i] = "probe"
    /\ Goto(i, IF IsStale THEN "unlink" ELSE "refused")
    /\ UNCHANGED <<path, socket, owns, counters>>

\* unlink removes whatever the path names by now.
Unlink(i) ==
    /\ pc[i] = "unlink"
    /\ path' = "none"
    /\ Goto(i, IF path = "none" THEN "refused" ELSE "bind")
    /\ UNCHANGED <<socket, owns, counters>>

\* bind creates the path, or fails with EADDRINUSE.
Bind(i) ==
    /\ pc[i] = "bind"
    /\ IF path = "none"
       THEN /\ path' = i /\ Goto(i, "listen")
            /\ socket' = [socket EXCEPT ![i] = "bound"]
            /\ owns' = [owns EXCEPT ![i] = TRUE]
       ELSE Goto(i, "refused") /\ UNCHANGED <<path, socket, owns>>
    /\ UNCHANGED counters

\* listen: from here on the kernel takes connections.
Listen(i) ==
    /\ pc[i] = "listen"
    /\ socket' = [socket EXCEPT ![i] = "listening"]
    /\ Goto(i, "register")
    /\ UNCHANGED <<path, owns, counters>>

\* addChannel
Register(i) ==
    /\ pc[i] = "register"
    /\ Goto(i, "running")
    /\ UNCHANGED <<path, socket, owns, counters>>

-----------------------------------------------------------------------------
(* stop() closes the socket, and then removes the path; in between another *)
(* gateway finds a socket that refuses connections.                        *)

CloseSocket(i) == socket' = [socket EXCEPT ![i] = "none"]

\* Mutant of UnlinkOwned: the path is removed by every stop().
UnlinkOwned_Always(i) ==
    path' = "none" /\ owns' = [owns EXCEPT ![i] = FALSE]

\* The end of stop(): whatever the path names by now is unlinked, if this
\* instance once created it.
UnlinkOwned(i) ==
    /\ path' = IF owns[i] THEN "none" ELSE path
    /\ owns' = [owns EXCEPT ![i] = FALSE]

\* listen or addChannel fails, and start() calls stop().
StartFails(i) ==
    /\ pc[i] \in {"listen", "register"}
    /\ faults < MaxFaults /\ faults' = faults + 1
    /\ CloseSocket(i)
    /\ Goto(i, "failing")
    /\ UNCHANGED <<path, owns, starts, crashes>>

Stop(i) ==
    /\ pc[i] = "running"
    /\ CloseSocket(i)
    /\ Goto(i, "stopping")
    /\ UNCHANGED <<path, owns, counters>>

StopEnds(i) ==
    /\ pc[i] \in {"stopping", "failing"}
    /\ UnlinkOwned(i)
    /\ Goto(i, IF pc[i] = "stopping" THEN "off" ELSE "refused")
    /\ UNCHANGED <<socket, counters>>

\* stop() without a socket: the destructor's, after a stop() or a start() that
\* returned false.
StopAgain(i) ==
    /\ pc[i] \in {"off", "refused"}
    /\ UnlinkOwned(i)
    /\ Goto(i, "off")
    /\ UNCHANGED <<socket, counters>>

-----------------------------------------------------------------------------
(* The rest of the world.                                                  *)

\* The process dies; the name of its socket stays.
Crash(i) ==
    /\ pc[i] \notin {"off", "refused"} /\ crashes < MaxCrashes
    /\ crashes' = crashes + 1
    /\ path' = IF path = i THEN "dead" ELSE path
    /\ CloseSocket(i)
    /\ owns' = [owns EXCEPT ![i] = FALSE]
    /\ Goto(i, "off")
    /\ UNCHANGED <<starts, faults>>

\* Another program creates a file where the path is free.
PutFile ==
    /\ path = "none" /\ path' = "file"
    /\ UNCHANGED <<pc, socket, owns, counters>>

-----------------------------------------------------------------------------
StartStep(i) == Lstat(i) \/ Probe(i) \/ Unlink(i) \/ Bind(i) \/ Listen(i) \/ Register(i)

\* What closes the socket, and what leaves it as it is.
Ends(i) == StartFails(i) \/ Stop(i) \/ Crash(i)
GoesOn(i) == Start(i) \/ StartStep(i) \/ StopEnds(i) \/ StopAgain(i)

Next == PutFile \/ \E i \in Instances : GoesOn(i) \/ Ends(i)

Spec == Init /\ [][Next]_vars

-----------------------------------------------------------------------------
(* Properties.                                                             *)

\* Types; ownsSocketPath_ is set from bind to the end of stop(), and the socket
\* is where start() and stop() say.
TypeOK ==
    /\ path \in {"none", "file", "dead"} \union Instances
    /\ pc \in [Instances -> {"off", "refused", "lstat", "probe", "unlink", "bind",
                             "listen", "register", "running", "stopping", "failing"}]
    /\ socket \in [Instances -> {"none", "bound", "listening"}]
    /\ owns \in [Instances -> BOOLEAN]
    /\ starts \in [Instances -> 0 .. MaxStarts]
    /\ crashes \in 0 .. MaxCrashes /\ faults \in 0 .. MaxFaults
    /\ \A i \in Instances :
         /\ owns[i] <=> pc[i] \in {"listen", "register", "running", "stopping", "failing"}
         /\ socket[i] = "bound" <=> pc[i] = "listen"
         /\ socket[i] = "listening" <=> pc[i] \in {"register", "running"}

\* Starting together does not lock everybody out, and neither does a socket
\* that a crash has left behind: when every instance was refused, a file is in
\* the way or a call has failed.
NotAllRefused ==
    (\A i \in Instances : pc[i] = "refused") => path = "file" \/ faults > 0

\* Where an instance has not seen a socket at the path that it may remove, and
\* has not created one.
Harmless == {"off", "refused", "lstat", "bind"}

\* A file that nobody is on the way to unlink.
FileIsSafe == path = "file" /\ \A i \in Instances : pc[i] \in Harmless

\* An instance that listens at the path, and nobody is on the way to unlink it.
SocketIsSafe(j) ==
    /\ path = j /\ pc[j] \in {"register", "running"}
    /\ \A i \in Instances \ {j} : pc[i] \in Harmless \union {"probe"}

\* What start() and stop() guarantee, in spite of RunningIsReachable: a file
\* ("绝不能覆盖同名普通文件") or a listening socket that nobody was already on the
\* way to unlink is never taken away, by any number of gateways that start, are
\* refused, stop, are destroyed or crash, until the socket's own gateway ends;
\* and a gateway that has come to rest has left no socket behind: only a crash
\* does.
PathIsRespected ==
    /\ [](\A i \in Instances : pc[i] \in {"off", "refused"} => path # i)
    /\ [][/\ FileIsSafe => FileIsSafe'
          /\ \A j \in Instances : SocketIsSafe(j) =>
                SocketIsSafe(j)' \/ pc'[j] \notin {"register", "running"}]_vars

\* "能连接或无法确认状态时都拒绝删除，避免破坏另一个正在运行的实例"
\* (src/unix_domain_server.cpp:118): the path of a running instance is not
\* taken away from it.
RunningIsReachable ==
    \A i \in Instances : pc[i] = "running" => path = i

=============================================================================
