-------------------------- MODULE UnixDomainServer --------------------------
(***************************************************************************)
(* The control interface of the gateway: the clients of                    *)
(* UnixDomainServer (src/unix_domain_server.cpp), on top of the path       *)
(* protocol of ControlSocket.  A client connects to whatever gateway the   *)
(* path leads to, and stays with it when the path is taken away.           *)
(*                                                                         *)
(* Each handler is one action: a recv loop up to EAGAIN, end of stream or  *)
(* error, then a send loop up to EAGAIN or completion.  An event may be    *)
(* older than what the handler finds.  The socket keeps the boundaries of  *)
(* messages, so requests and responses are values.  A client connects      *)
(* once; its name stands for its descriptor.  Sockets and clients are      *)
(* external.                                                               *)
(***************************************************************************)
EXTENDS ControlSocket, Integers, Sequences

CONSTANTS
    Clients,      \* programs that use the control interface
    Requests,     \* what they send
    SendBuffer,   \* how many responses a kernel send buffer takes
    MaxRequests   \* bound: how many requests a client sends

\* What ControlCommandProcessor::process() answers to a command.
Process == [PING |-> "PONG", STATUS |-> "RUNNING", HELP |-> "COMMANDS",
            blank |-> "EMPTY_COMMAND", other |-> "UNKNOWN_COMMAND"]

ASSUME ClientsAssumption == IsFiniteSet(Clients)
ASSUME RequestAssumption == Requests \subseteq DOMAIN Process \union {"huge", "empty"}
ASSUME ClientBoundsAssumption == SendBuffer \in Nat \ {0} /\ MaxRequests \in Nat

VARIABLES
    stage,     \* per client: "new", "queued", "open" (in clients_), "gone"
    server,    \* per client: the instance it is connected to
    end,       \* per client, what it did to its end: "open", "shut", "closed"
    requests,  \* per client, all it has sent
    inbox,     \* per client, those the server has not received
    outputMessages,  \* per client, responses not yet sent
    watched,   \* per client, the events of its channel, {} without one
    sendbuf,   \* per client, responses sent and not yet read
    received   \* per client, responses it has read

serverSide == <<stage, outputMessages, watched>>
clientVars == <<serverSide, server, end, requests, inbox, sendbuf, received>>
allVars == <<vars, clientVars>>

NoServer == "none"

ServerInit ==
    /\ Init
    /\ stage = [c \in Clients |-> "new"] /\ server = [c \in Clients |-> NoServer]
    /\ end = [c \in Clients |-> "open"]
    /\ requests = [c \in Clients |-> <<>>] /\ inbox = [c \in Clients |-> <<>>]
    /\ outputMessages = [c \in Clients |-> <<>>]
    /\ watched = [c \in Clients |-> {}]
    /\ sendbuf = [c \in Clients |-> <<>>] /\ received = [c \in Clients |-> <<>>]

Fails == faults < MaxFaults /\ faults' = faults + 1

-----------------------------------------------------------------------------
(* The clients.                                                            *)

Connect(c) ==
    /\ stage[c] = "new" /\ path \in Instances /\ socket[path] = "listening"
    /\ stage' = [stage EXCEPT ![c] = "queued"]
    /\ server' = [server EXCEPT ![c] = path]
    /\ UNCHANGED <<vars, outputMessages, watched, end, requests, inbox, sendbuf,
                   received>>

Request(c, r) ==
    /\ stage[c] \in {"queued", "open"} /\ end[c] = "open"
    /\ Len(requests[c]) < MaxRequests
    /\ requests' = [requests EXCEPT ![c] = Append(@, r)]
    /\ inbox' = [inbox EXCEPT ![c] = Append(@, r)]
    /\ UNCHANGED <<vars, serverSide, server, end, sendbuf, received>>

\* shutdown(SHUT_WR): it still reads.
ShutDown(c) ==
    /\ stage[c] \in {"queued", "open"} /\ end[c] = "open"
    /\ end' = [end EXCEPT ![c] = "shut"]
    /\ UNCHANGED <<vars, serverSide, server, requests, inbox, sendbuf, received>>

Close(c) ==
    /\ stage[c] \in {"queued", "open"} /\ end[c] # "closed"
    /\ end' = [end EXCEPT ![c] = "closed"]
    /\ sendbuf' = [sendbuf EXCEPT ![c] = <<>>]
    /\ UNCHANGED <<vars, serverSide, server, requests, inbox, received>>

Receive(c) ==
    /\ end[c] # "closed" /\ sendbuf[c] # <<>>
    /\ received' = [received EXCEPT ![c] = Append(@, Head(sendbuf[c]))]
    /\ sendbuf' = [sendbuf EXCEPT ![c] = Tail(@)]
    /\ UNCHANGED <<vars, serverSide, server, end, requests, inbox>>

-----------------------------------------------------------------------------
(* The server.                                                             *)

ClientsOf(i, where) == {c \in Clients : server[c] = i /\ stage[c] \in where}

\* The loop of handleAccept() of instance i.  It ends with an empty queue, or
\* early when accept4 fails; a client whose channel cannot be added is closed.
HandleAccept(i) ==
    LET queued == ClientsOf(i, {"queued"})
    IN /\ pc[i] = "running" /\ queued # {}
       /\ \E taken \in SUBSET queued : \E failed \in SUBSET taken :
            /\ faults' = faults + Cardinality(failed) + (IF taken = queued THEN 0 ELSE 1)
            /\ faults' <= MaxFaults
            /\ stage' = [c \in Clients |-> IF c \in failed THEN "gone"
                                           ELSE IF c \in taken THEN "open"
                                           ELSE stage[c]]
            /\ watched' = [c \in Clients |->
                             IF c \in taken \ failed THEN {"in"} ELSE watched[c]]
       /\ UNCHANGED <<path, pc, socket, owns, starts, crashes, outputMessages,
                      server, end, requests, inbox, sendbuf, received>>

\* removeClient(): channel, descriptor and queue of responses go together.
RemoveClients(gone) ==
    /\ stage' = [c \in Clients |-> IF c \in gone THEN "gone" ELSE stage[c]]
    /\ outputMessages' = [c \in Clients |->
                            IF c \in gone THEN <<>> ELSE outputMessages[c]]
    /\ watched' = [c \in Clients |-> IF c \in gone THEN {} ELSE watched[c]]

\* What handleClientRead() queues for a request: always something, also for
\* one that recv has cut off (MSG_TRUNC).  An empty packet is no request to it,
\* but the end of the stream.
Response(r) ==
    IF r = "huge" THEN "TOO_LARGE" ELSE IF r = "empty" THEN "END" ELSE Process[r]

\* recv returns 0, with or without requests before it.
StreamEnds(c) == end[c] # "open" \/ \E n \in 1 .. Len(inbox[c]) : inbox[c][n] = "empty"

\* Mutant of Responses: an oversized request is skipped.
Responses_SkipsHuge(s) ==
    LET taken == SelectSeq(s, LAMBDA r : r # "huge")
    IN [n \in 1 .. Len(taken) |-> Response(taken[n])]

\* The responses to the requests of one receive loop, in their order.
Responses(s) == [n \in 1 .. Len(s) |-> Response(s[n])]

\* Mutant of EventsFor: EPOLLOUT is never asked for.
EventsFor_NoOut(rest) == {"in"}

\* The events updateClientEvents() is given.
EventsFor(rest) == IF rest = <<>> THEN {"in"} ELSE {"in", "out"}

\* The send loop of handleClientWrite() over messages, and updateClientEvents():
\* the channel is only touched when the events change, and the client is lost
\* when it cannot be added again.
SendLoop(c, messages) ==
    LET room == SendBuffer - Len(sendbuf[c])
        n == IF room < Len(messages) THEN room ELSE Len(messages)
        rest == SubSeq(messages, n + 1, Len(messages))
    IN /\ sendbuf' = [sendbuf EXCEPT ![c] = @ \o SubSeq(messages, 1, n)]
       /\ \/ /\ outputMessages' = [outputMessages EXCEPT ![c] = rest]
             /\ watched' = [watched EXCEPT ![c] = EventsFor(rest)]
             /\ UNCHANGED <<stage, faults>>
          \/ watched[c] # EventsFor(rest) /\ Fails /\ RemoveClients({c})

\* The read callback: the requests are answered and sent; at the end of the
\* stream the client goes with all that was not sent.
HandleClientRead(c) ==
    /\ stage[c] = "open" /\ (inbox[c] # <<>> \/ end[c] # "open")
    /\ inbox' = [inbox EXCEPT ![c] = <<>>]
    /\ IF StreamEnds(c)
       THEN RemoveClients({c}) /\ UNCHANGED <<sendbuf, faults>>
       ELSE SendLoop(c, outputMessages[c] \o Responses(inbox[c]))
    /\ UNCHANGED <<path, pc, socket, owns, starts, crashes, server, end, requests,
                   received>>

\* The write callback; send fails when the client has closed.
HandleClientWrite(c) ==
    /\ stage[c] = "open" /\ "out" \in watched[c]
    /\ Len(sendbuf[c]) < SendBuffer
    /\ IF end[c] = "closed"
       THEN RemoveClients({c}) /\ UNCHANGED <<sendbuf, faults>>
       ELSE SendLoop(c, outputMessages[c])
    /\ UNCHANGED <<path, pc, socket, owns, starts, crashes, server, end, requests,
                   inbox, received>>

\* The error callback: EPOLLHUP.
HandleError(c) ==
    /\ stage[c] = "open" /\ end[c] = "closed"
    /\ RemoveClients({c})
    /\ UNCHANGED <<vars, server, end, requests, inbox, sendbuf, received>>

\* Mutant of CloseClients: only the listening socket is closed.
CloseClients_Forgotten(i) == UNCHANGED clientVars

\* stop() closes the accepted clients, and the listening socket those that
\* wait; so does the kernel when the process dies.
CloseClients(i) ==
    /\ RemoveClients(ClientsOf(i, {"queued", "open"}))
    /\ UNCHANGED <<server, end, requests, inbox, sendbuf, received>>

-----------------------------------------------------------------------------
ClientStep(c) == \/ Connect(c) \/ ShutDown(c) \/ Close(c) \/ Receive(c)
                 \/ \E r \in Requests : Request(c, r)
Handler(c) == HandleClientRead(c) \/ HandleClientWrite(c) \/ HandleError(c)

ServerNext ==
    \/ (PutFile \/ \E i \in Instances : GoesOn(i)) /\ UNCHANGED clientVars
    \/ \E i \in Instances : Ends(i) /\ CloseClients(i)
    \/ \E i \in Instances : HandleAccept(i)
    \/ \E c \in Clients : ClientStep(c) \/ Handler(c)

ServerSpec == ServerInit /\ [][ServerNext]_allVars

\* A call of start() goes on, the event loop runs, and clients read what they are
\* sent.  Nobody has to start, stop, connect or send.
FairServerSpec ==
    /\ ServerSpec
    /\ \A i \in Instances : /\ WF_allVars(StartStep(i) /\ UNCHANGED clientVars)
                             /\ WF_allVars(HandleAccept(i))
    /\ \A c \in Clients : WF_allVars(Handler(c)) /\ WF_allVars(Receive(c))

-----------------------------------------------------------------------------
(* Properties.                                                             *)

Connected(c) == stage[c] \in {"queued", "open"}

\* Types; a channel exists exactly for an accepted client, and a client that
\* is gone has left nothing behind.
ServerTypeOK ==
    /\ TypeOK
    /\ stage \in [Clients -> {"new", "queued", "open", "gone"}]
    /\ server \in [Clients -> Instances \union {NoServer}]
    /\ end \in [Clients -> {"open", "shut", "closed"}]
    /\ watched \in [Clients -> SUBSET {"in", "out"}]
    /\ \A c \in Clients :
         /\ Len(requests[c]) <= MaxRequests
         /\ inbox[c] \in Seq(Requests) /\ Len(sendbuf[c]) <= SendBuffer
         /\ stage[c] = "open" <=> watched[c] # {}
         /\ stage[c] # "open" => outputMessages[c] = <<>>

\* Every request is answered, once and in order: what the client has read, what
\* is on its way, what is queued and the answers to what was not received yet
\* are together one answer to each request it has sent, whoever takes the path
\* away meanwhile.
OneAnswerEach ==
    \A c \in Clients : Connected(c) /\ end[c] # "closed" =>
        /\ Len(received[c]) + Len(sendbuf[c]) + Len(outputMessages[c])
             + Len(inbox[c]) = Len(requests[c])
        /\ received[c] \o sendbuf[c] \o outputMessages[c] \o Responses(inbox[c])
             = Responses(requests[c])

\* Nobody is connected to a gateway that is gone, and nobody is left waiting in
\* the queue of one that has stopped.
ServedByLiving ==
    /\ ServerTypeOK
    /\ \A c \in Clients : Connected(c) =>
          server[c] \in Instances /\ socket[server[c]] = "listening"

\* A request is answered unless the connection ends, also by a gateway that
\* has lost its path to another one.
AnswersArrive ==
    \A c \in Clients : \A k \in 1 .. MaxRequests :
        Len(requests[c]) >= k
            ~> (Len(received[c]) >= k \/ end[c] # "open" \/ ~Connected(c))

=============================================================================
