----------------------------- MODULE TcpServer -----------------------------
(***************************************************************************)
(* The TCP echo service of the gateway (src/tcp_server.cpp) on the epoll   *)
(* event loop (src/event_loop.cpp, src/channel.cpp).                       *)
(*                                                                         *)
(* The server is one thread.  epoll_wait takes a batch of events, level    *)
(* triggered, and the loop then dispatches them one by one, while the      *)
(* peers go on; an event may be out of date when its turn comes.  Each     *)
(* client handler is one action: a recv loop up to EAGAIN, end of stream   *)
(* or error, then a send loop up to EAGAIN, completion or error.  The      *)
(* accept loop is one action per round.                                    *)
(*                                                                         *)
(* A byte of a peer is its position in the peer's stream.  The kernel's    *)
(* socket buffers, epoll and the peers are external.                       *)
(***************************************************************************)
EXTENDS Integers, Sequences, FiniteSets

CONSTANTS
    Peers,       \* the remote ends; each connects once
    NoPeer,
    Fds,         \* descriptors left to the process: a set of naturals
    SendBuffer,  \* how many bytes a kernel send buffer takes
    MaxBytes,    \* bound: how many bytes a peer sends
    MaxFaults    \* bound: how often epoll_ctl(EPOLL_CTL_ADD) fails

ASSUME PeerAssumption == NoPeer \notin Peers
ASSUME FdAssumption == Fds \subseteq Nat
ASSUME SizeAssumption == SendBuffer \in Nat \ {0}
ASSUME BoundsAssumption == MaxBytes \in Nat /\ MaxFaults \in Nat

VARIABLES
    listening,  \* listenFd_ >= 0, its channel is registered
    clients,    \* the keys of clients_
    outputBuffer, writeOffset,  \* per descriptor, the ClientState
    watched,    \* per descriptor, the events registered; {}: not in channels_
    batch,      \* events of epoll_wait still to be dispatched: [fd, revents]
    accepting,  \* inside the loop of handleAccept()
    owner,      \* per descriptor, the peer it is connected to (kernel)
    queue,      \* peers waiting for accept4
    peer,       \* per peer: "new", "open", "shut" (sends no more), "reset"
    sent,       \* per peer, how many bytes it has sent
    inbox,      \* per peer, bytes the server has not received
    sendbuf,    \* per peer, bytes the server has sent
    received,   \* per peer, bytes that came back
    faults

serverVars == <<listening, clients, outputBuffer, writeOffset, watched>>
loopVars == <<batch, accepting>>
kernelVars == <<owner, queue>>
peerVars == <<peer, sent, inbox, sendbuf, received>>
vars == <<serverVars, loopVars, kernelVars, peerVars, faults>>

\* The listening socket in a batch; no descriptor of Fds.
ListenFd == -1

Init ==
    /\ listening = FALSE /\ clients = {}
    /\ outputBuffer = [fd \in Fds |-> <<>>] /\ writeOffset = [fd \in Fds |-> 0]
    /\ watched = [fd \in Fds |-> {}]
    /\ batch = {} /\ accepting = FALSE
    /\ owner = [fd \in Fds |-> NoPeer] /\ queue = <<>>
    /\ peer = [p \in Peers |-> "new"] /\ sent = [p \in Peers |-> 0]
    /\ inbox = [p \in Peers |-> <<>>] /\ sendbuf = [p \in Peers |-> <<>>]
    /\ received = [p \in Peers |-> <<>>]
    /\ faults = 0

Free == {fd \in Fds : owner[fd] = NoPeer}
AddFails == faults < MaxFaults /\ faults' = faults + 1

-----------------------------------------------------------------------------
(* start() and stop(), called outside the loop.                            *)

Start ==
    /\ ~listening /\ batch = {} /\ ~accepting
    /\ listening' = TRUE
    /\ UNCHANGED <<clients, outputBuffer, writeOffset, watched, loopVars,
                   kernelVars, peerVars, faults>>

\* stop() closes every client and then the listening socket.
Stop ==
    /\ listening /\ batch = {} /\ ~accepting
    /\ listening' = FALSE /\ clients' = {}
    /\ outputBuffer' = [fd \in Fds |-> <<>>] /\ writeOffset' = [fd \in Fds |-> 0]
    /\ watched' = [fd \in Fds |-> {}]
    /\ owner' = [fd \in Fds |-> NoPeer] /\ queue' = <<>>
    /\ UNCHANGED <<loopVars, peerVars, faults>>

-----------------------------------------------------------------------------
(* EventLoop::run().                                                       *)

\* What epoll reports of a registered descriptor.
Ready(fd) ==
    LET p == owner[fd]
    IN IF watched[fd] = {} THEN {}
       ELSE (IF peer[p] = "reset" THEN {"err"} ELSE {}) \union
            (IF inbox[p] # <<>> \/ peer[p] = "shut" THEN {"in"} ELSE {}) \union
            (IF "out" \in watched[fd] /\ Len(sendbuf[p]) < SendBuffer
             THEN {"out"} ELSE {})

ReadyEvents ==
    {[fd |-> fd, revents |-> Ready(fd)] : fd \in {f \in Fds : Ready(f) # {}}}
      \union (IF listening /\ queue # <<>>
              THEN {[fd |-> ListenFd, revents |-> {"in"}]} ELSE {})

EpollWait ==
    /\ listening /\ batch = {} /\ ~accepting /\ ReadyEvents # {}
    /\ batch' = ReadyEvents
    /\ UNCHANGED <<serverVars, accepting, kernelVars, peerVars, faults>>

\* The next event to dispatch: any, epoll promises no order.  Its descriptor is
\* looked up in channels_; that the lookup of a client succeeds (only its own
\* event removes it) is part of what the absence of deadlock shows.
Taken(e) == ~accepting /\ e \in batch /\ batch' = batch \ {e}

-----------------------------------------------------------------------------
(* The handlers.                                                           *)

\* Mutant of RemoveClient: the channel stays in the event loop.
RemoveClient_KeepsChannel(fd) ==
    /\ clients' = clients \ {fd}
    /\ outputBuffer' = [outputBuffer EXCEPT ![fd] = <<>>]
    /\ writeOffset' = [writeOffset EXCEPT ![fd] = 0]
    /\ owner' = [owner EXCEPT ![fd] = NoPeer]
    /\ UNCHANGED watched

\* removeClient(): channel, descriptor and state go together.
RemoveClient(fd) ==
    /\ clients' = clients \ {fd}
    /\ outputBuffer' = [outputBuffer EXCEPT ![fd] = <<>>]
    /\ writeOffset' = [writeOffset EXCEPT ![fd] = 0]
    /\ watched' = [watched EXCEPT ![fd] = {}]
    /\ owner' = [owner EXCEPT ![fd] = NoPeer]

\* Mutant of EventsFor: EPOLLOUT is never asked for.
EventsFor_NoOut(blocked) == {"in"}

\* The events updateClientEvents() is given.
EventsFor(blocked) == IF blocked THEN {"in", "out"} ELSE {"in"}

\* Mutant of OffsetAfter: a blocked send begins again at the front.
OffsetAfter_Forgotten(blocked, offset) == 0

\* writeOffset at the end of the send loop.
OffsetAfter(blocked, offset) == IF blocked THEN offset ELSE 0

\* The send loop of handleClientWrite() over buffer, and updateClientEvents():
\* the channel is removed and added again.
HandleClientWrite(fd, buffer) ==
    LET p == owner[fd]
        room == SendBuffer - Len(sendbuf[p])
        remaining == Len(buffer) - writeOffset[fd]
        blocked == remaining > room
        offset == writeOffset[fd] + (IF blocked THEN room ELSE remaining)
    IN /\ sendbuf' = [sendbuf EXCEPT ![p] =
                        @ \o SubSeq(buffer, writeOffset[fd] + 1, offset)]
       /\ \/ /\ outputBuffer' = [outputBuffer EXCEPT ![fd] =
                                   IF blocked THEN buffer ELSE <<>>]
             /\ writeOffset' = [writeOffset EXCEPT ![fd] =
                                  OffsetAfter(blocked, offset)]
             /\ watched' = [watched EXCEPT ![fd] = EventsFor(blocked)]
             /\ UNCHANGED <<clients, owner, faults>>
          \/ AddFails /\ RemoveClient(fd)

\* The error callback, and the ends of the two loops that remove the client.
OnError(e) ==
    /\ Taken(e) /\ e.fd \in clients
    /\ \/ "err" \in e.revents \* EPOLLERR, EPOLLHUP
       \/ peer[owner[e.fd]] = "reset" \* recv or send fails
    /\ RemoveClient(e.fd)
    /\ UNCHANGED <<listening, accepting, queue, peerVars, faults>>

\* The read callback: everything received goes to the output buffer; the end
\* of the stream drops client and buffer, otherwise it is sent.
OnRead(e) ==
    LET p == owner[e.fd]
    IN /\ Taken(e) /\ e.fd \in clients
       /\ "err" \notin e.revents /\ "in" \in e.revents
       /\ peer[p] # "reset"
       /\ inbox' = [inbox EXCEPT ![p] = <<>>]
       /\ IF peer[p] = "shut"
          THEN RemoveClient(e.fd) /\ UNCHANGED <<sendbuf, faults>>
          ELSE HandleClientWrite(e.fd, outputBuffer[e.fd] \o inbox[p])
       /\ UNCHANGED <<listening, accepting, queue, peer, sent, received>>

\* The write callback.
OnWrite(e) ==
    /\ Taken(e) /\ e.fd \in clients
    /\ e.revents = {"out"} /\ peer[owner[e.fd]] # "reset"
    /\ HandleClientWrite(e.fd, outputBuffer[e.fd])
    /\ UNCHANGED <<listening, accepting, queue, peer, sent, inbox, received>>

\* The listening socket: handleAccept() is entered ...
OnAccept(e) ==
    /\ Taken(e) /\ e.fd = ListenFd
    /\ accepting' = TRUE
    /\ UNCHANGED <<serverVars, kernelVars, peerVars, faults>>

\* ... accepts one client with the lowest free descriptor, or closes it again
\* when the channel cannot be added ...
Accept ==
    /\ accepting /\ queue # <<>>
    /\ queue' = Tail(queue)
    /\ \E fd \in Free :
         /\ \A other \in Free : fd <= other
         /\ \/ /\ clients' = clients \union {fd}
               /\ watched' = [watched EXCEPT ![fd] = {"in"}]
               /\ owner' = [owner EXCEPT ![fd] = Head(queue)]
               /\ UNCHANGED faults
            \/ AddFails /\ UNCHANGED <<clients, watched, owner>>
    /\ UNCHANGED <<listening, outputBuffer, writeOffset, loopVars, peerVars>>

\* ... and returns when accept4 has nothing more (EAGAIN) or fails (EMFILE).
AcceptReturns ==
    /\ accepting /\ (queue = <<>> \/ Free = {})
    /\ accepting' = FALSE
    /\ UNCHANGED <<serverVars, batch, kernelVars, peerVars, faults>>

-----------------------------------------------------------------------------
(* The peers.                                                              *)

Connect(p) ==
    /\ peer[p] = "new" /\ listening
    /\ peer' = [peer EXCEPT ![p] = "open"]
    /\ queue' = Append(queue, p)
    /\ UNCHANGED <<serverVars, loopVars, owner, sent, inbox, sendbuf, received,
                   faults>>

Send(p) ==
    /\ peer[p] = "open" /\ sent[p] < MaxBytes
    /\ sent' = [sent EXCEPT ![p] = @ + 1]
    /\ inbox' = [inbox EXCEPT ![p] = Append(@, sent[p] + 1)]
    /\ UNCHANGED <<serverVars, loopVars, kernelVars, peer, sendbuf, received,
                   faults>>

\* shutdown(SHUT_WR) or close
ShutDown(p) ==
    /\ peer[p] = "open"
    /\ peer' = [peer EXCEPT ![p] = "shut"]
    /\ UNCHANGED <<serverVars, loopVars, kernelVars, sent, inbox, sendbuf,
                   received, faults>>

\* The connection is reset: both buffers are lost.
ResetByPeer(p) ==
    /\ peer[p] \in {"open", "shut"}
    /\ peer' = [peer EXCEPT ![p] = "reset"]
    /\ inbox' = [inbox EXCEPT ![p] = <<>>]
    /\ sendbuf' = [sendbuf EXCEPT ![p] = <<>>]
    /\ UNCHANGED <<serverVars, loopVars, kernelVars, sent, received, faults>>

Receive(p) ==
    /\ sendbuf[p] # <<>>
    /\ received' = [received EXCEPT ![p] = Append(@, Head(sendbuf[p]))]
    /\ sendbuf' = [sendbuf EXCEPT ![p] = Tail(@)]
    /\ UNCHANGED <<serverVars, loopVars, kernelVars, peer, sent, inbox, faults>>

-----------------------------------------------------------------------------
Dispatch == \E e \in batch : OnError(e) \/ OnRead(e) \/ OnWrite(e) \/ OnAccept(e)
LoopStep == EpollWait \/ Dispatch \/ Accept \/ AcceptReturns

Next == \/ Start \/ Stop \/ LoopStep
        \/ \E p \in Peers : \/ Connect(p) \/ Send(p) \/ ShutDown(p)
                            \/ ResetByPeer(p) \/ Receive(p)

Spec == Init /\ [][Next]_vars

\* The loop runs, and the peers read what they are sent.
FairSpec == Spec /\ WF_vars(LoopStep) /\ \A p \in Peers : WF_vars(Receive(p))

-----------------------------------------------------------------------------
(* Properties.                                                             *)

Bytes == Seq(Nat)

\* Types; a write offset never passes the end of its buffer.
TypeOK ==
    /\ listening \in BOOLEAN /\ accepting \in BOOLEAN
    /\ clients \subseteq Fds
    /\ outputBuffer \in [Fds -> Bytes] /\ writeOffset \in [Fds -> Nat]
    /\ \A fd \in Fds : writeOffset[fd] <= Len(outputBuffer[fd])
    /\ watched \in [Fds -> SUBSET {"in", "out"}]
    /\ batch \subseteq [fd : Fds \union {ListenFd},
                       revents : SUBSET {"err", "in", "out"}]
    /\ owner \in [Fds -> Peers \union {NoPeer}] /\ queue \in Seq(Peers)
    /\ peer \in [Peers -> {"new", "open", "shut", "reset"}]
    /\ sent \in [Peers -> 0 .. MaxBytes]
    /\ inbox \in [Peers -> Bytes] /\ sendbuf \in [Peers -> Bytes]
    /\ received \in [Peers -> Bytes]
    /\ faults \in 0 .. MaxFaults

\* What the server still has to send on a descriptor.
Pending(fd) == SubSeq(outputBuffer[fd], writeOffset[fd] + 1, Len(outputBuffer[fd]))

\* Nothing is lost, doubled or reordered on a connection: what came back, what
\* is on its way back, what is buffered and what is on its way in are together
\* exactly what the peer has sent, through any number of partial sends.
EchoIsExact ==
    \A fd \in Fds : owner[fd] # NoPeer /\ peer[owner[fd]] # "reset" =>
        LET p == owner[fd]
        IN received[p] \o sendbuf[p] \o Pending(fd) \o inbox[p]
             = [i \in 1 .. sent[p] |-> i]

\* clients_, the loop's channels_ and the open descriptors agree after every
\* handler, so no descriptor leaks and no event reaches a dead client; and
\* EPOLLOUT is watched exactly while output is pending (the level triggered
\* loop would spin otherwise).
TablesAgree ==
    /\ TypeOK
    /\ \A fd \in clients : "out" \in watched[fd] <=> Pending(fd) # <<>>
    /\ clients = {fd \in Fds : owner[fd] # NoPeer}
    /\ clients = {fd \in Fds : watched[fd] # {}}
    /\ \A fd, other \in clients : owner[fd] = owner[other] => fd = other

\* A byte comes back, unless the connection ends: the loop never forgets a
\* client with output, however its events come together in batches.
BytesComeBack ==
    \A p \in Peers : \A i \in 1 .. MaxBytes :
        (sent[p] >= i /\ \E fd \in Fds : owner[fd] = p)
            ~> (Len(received[p]) >= i \/ peer[p] # "open"
                \/ ~\E fd \in Fds : owner[fd] = p)

=============================================================================
