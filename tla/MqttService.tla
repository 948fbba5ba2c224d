---------------------------- MODULE MqttService ----------------------------
(***************************************************************************)
(* The MQTT client of the gateway (src/mqtt_service.cpp) together with the *)
(* SQLite outbox it fills and drains (src/storage_service.cpp).            *)
(*                                                                         *)
(* Four kinds of thread meet on MqttService::mutex_: the thread that calls *)
(* connect() and disconnect(), the threads that publish on the MessageBus  *)
(* and so run forwardMessage(), the replay thread, and libmosquitto's      *)
(* network thread, which runs the three callbacks.  Each scope of a lock   *)
(* (mutex_ or the storage's own mutex) is one action.  A message of a      *)
(* forwarder is an opaque value of Messages; topics, JSON and the RETAIN   *)
(* flag are abstracted.                                                    *)
(*                                                                         *)
(* libmosquitto and the broker are external.  A publish handed to the      *)
(* library is a record [mid, row, msg]: row is the outbox id a QoS 1       *)
(* replay carries, 0 marks a direct QoS 0 publish.  The library gives mids *)
(* in increasing order, so "lowest mid first" is its FIFO order; that the  *)
(* 16-bit mid does not wrap between a publish and its PUBACK is assumed.   *)
(***************************************************************************)
EXTENDS Integers, FiniteSets

CONSTANTS
    Forwarders,  \* threads that publish on the MessageBus
    Messages,    \* the tag updates they publish, each of them once
    NoMsg,       \* stands for "no message"
    FaultKinds,  \* which of AllFaultKinds may happen
    MaxFaults,   \* bound: how many faults may happen in a behaviour
    MaxCalls     \* bound: how many connect()/setOfflineStorage() calls

\* "link": the TCP session dies; "connect": the library cannot start;
\* "ack": a PUBACK is later than publishAckTimeoutMs on a healthy link;
\* "library": mosquitto_publish fails for another reason than the link;
\* "enqueue", "load", "remove": that SQLite statement fails; "crash": the
\* process dies and is started again.
AllFaultKinds ==
    {"link", "connect", "ack", "library", "enqueue", "load", "remove", "crash"}

ASSUME BoundsAssumption == MaxFaults \in Nat /\ MaxCalls \in Nat
ASSUME NoMsgAssumption == NoMsg \notin Messages
ASSUME FaultsAssumption == FaultKinds \subseteq AllFaultKinds

VARIABLES
    mainPc,          \* "idle", or where connect()/disconnect() stands
    calls,           \* API calls made so far (bounded by MaxCalls)
    offlineStorage,  \* offlineStorage_ # nullptr
    client,          \* client_ # nullptr; loopRunning_ always equals it
    connected,       \* connected_
    initialConnectionCompleted,
    stopping,        \* stopping_
    rpc,             \* where the replay thread stands; "none": no thread
    row,             \* the outbox row it loaded, or NoRow
    replayRequested, \* replayRequested_
    replaying,       \* replaying_
    replayMessageId, \* replayMessageId_, 0 when none
    replayPublishAcknowledged,
    replayNotified,  \* replayCondition_ was notified since the last check
    fwd,             \* per forwarder: [pc, msg, storage]
    forwarded,       \* messages forwardMessage() was called with
    dropped,         \* messages given up with a logged warning
    outbox,          \* rows of table mqtt_outbox: [id, msg]
    nextId,          \* next AUTOINCREMENT id
    session,         \* "none" (no network thread), "down", "up", "broken"
    lastMid,         \* last message id the library has given
    outgoing,        \* publishes the broker has not got in this session
    unacked,         \* QoS 1 publishes it got, PUBACK not yet processed
    received,        \* messages the broker has got
    receivedRows,    \* outbox ids the broker has got
    faults           \* faults so far (bounded by MaxFaults)

mainVars   == <<mainPc, calls, offlineStorage>>
connVars   == <<client, connected, initialConnectionCompleted, stopping>>
flagVars   == <<replayRequested, replaying, replayNotified>>
ackVars    == <<replayMessageId, replayPublishAcknowledged>>
threadVars == <<rpc, row>>
fwdVars    == <<fwd, forwarded, dropped>>
storeVars  == <<outbox, nextId>>
netVars    == <<session, lastMid, outgoing, unacked>>
brokerVars == <<received, receivedRows>>
vars == <<mainVars, connVars, flagVars, ackVars, threadVars, fwdVars,
          storeVars, netVars, brokerVars, faults>>

NoRow == [id |-> 0, msg |-> NoMsg]
IdleForwarder == [pc |-> "idle", msg |-> NoMsg, storage |-> FALSE]

Rows == [id : Nat \ {0}, msg : Messages]
Publishes == [mid : Nat \ {0}, row : Nat, msg : Messages]

\* A fault of kind k happens in this step.
Fault(k) == k \in FaultKinds /\ faults < MaxFaults /\ faults' = faults + 1

\* The element the library handles next: the lowest mid.
IsFirst(p, S) == p \in S /\ \A q \in S : p.mid <= q.mid

-----------------------------------------------------------------------------
(* State of the process right after main() has opened the storage.         *)

VolatileInit ==
    /\ mainPc = "idle" /\ offlineStorage = FALSE
    /\ client = FALSE /\ connected = FALSE
    /\ initialConnectionCompleted = FALSE /\ stopping = FALSE
    /\ rpc = "none" /\ row = NoRow
    /\ replayRequested = FALSE /\ replaying = FALSE /\ replayNotified = FALSE
    /\ replayMessageId = 0 /\ replayPublishAcknowledged = FALSE
    /\ fwd = [f \in Forwarders |-> IdleForwarder]
    /\ session = "none" /\ lastMid = 0 /\ outgoing = {} /\ unacked = {}

Init ==
    /\ VolatileInit
    /\ calls = 0 /\ faults = 0
    /\ forwarded = {} /\ dropped = {}
    /\ outbox = {} /\ nextId = 1
    /\ received = {} /\ receivedRows = {}

-----------------------------------------------------------------------------
(* The thread that owns the service: main().                               *)

\* setOfflineStorage(): a service that is already connected replays at once.
SetOfflineStorage(s) ==
    /\ mainPc = "idle" /\ calls < MaxCalls /\ offlineStorage # s
    /\ calls' = calls + 1
    /\ offlineStorage' = s
    /\ replayRequested' = (replayRequested \/ (connected /\ s))
    /\ replayNotified' = TRUE
    /\ UNCHANGED <<mainPc, connVars, replaying, ackVars,
                   threadVars, fwdVars, storeVars, netVars, brokerVars, faults>>

\* connect() whose client cannot be created (before stopping_ is cleared) or
\* whose connect_async / loop_start fails (after it): no client is kept.
ConnectFails ==
    /\ mainPc = "idle" /\ calls < MaxCalls /\ ~client
    /\ Fault("connect")
    /\ calls' = calls + 1
    /\ \/ /\ initialConnectionCompleted' = FALSE /\ stopping' = FALSE
       \/ UNCHANGED <<initialConnectionCompleted, stopping>>
    /\ UNCHANGED <<mainPc, offlineStorage, client, connected, flagVars, ackVars,
                   threadVars, fwdVars, storeVars, netVars, brokerVars>>

\* connect() up to its wait_for: network thread and replay thread run.  (On a
\* client that exists connect() only reports connected_.)
ConnectStart ==
    /\ mainPc = "idle" /\ calls < MaxCalls /\ ~client
    /\ calls' = calls + 1
    /\ mainPc' = "connecting"
    /\ client' = TRUE
    /\ initialConnectionCompleted' = FALSE /\ stopping' = FALSE
    /\ session' = "down"
    /\ replayRequested' = FALSE /\ replaying' = FALSE
    /\ rpc' = "wait" /\ replayNotified' = TRUE
    /\ UNCHANGED <<offlineStorage, connected, ackVars, row, fwdVars, storeVars,
                   lastMid, outgoing, unacked, brokerVars, faults>>

\* The wait ends with the first CONNACK or with connectTimeoutMs.
ConnectReturns ==
    /\ mainPc = "connecting"
    /\ mainPc' = "idle"
    /\ UNCHANGED <<calls, offlineStorage, connVars, flagVars, ackVars,
                   threadVars, fwdVars, storeVars, netVars, brokerVars, faults>>

\* disconnect(), its critical section and the two notifications.
DisconnectBegin ==
    /\ mainPc = "idle" /\ calls < MaxCalls
    /\ calls' = calls + 1
    /\ mainPc' = "joining"
    /\ stopping' = TRUE /\ connected' = FALSE
    /\ initialConnectionCompleted' = FALSE /\ client' = FALSE
    /\ replayRequested' = FALSE /\ replayNotified' = TRUE
    /\ UNCHANGED <<offlineStorage, replaying, ackVars, threadVars, fwdVars,
                   storeVars, netVars, brokerVars, faults>>

\* Mutant of DisconnectJoin: disconnect() does not join the replay thread.
DisconnectJoin_NoJoin ==
    /\ mainPc = "joining"
    /\ mainPc' = "teardown"
    /\ UNCHANGED <<calls, offlineStorage, connVars, flagVars,
                   ackVars, threadVars, fwdVars, storeVars, netVars,
                   brokerVars, faults>>

\* replayThread_.join()
DisconnectJoin ==
    /\ mainPc = "joining" /\ rpc = "none"
    /\ mainPc' = "teardown"
    /\ UNCHANGED <<calls, offlineStorage, connVars, flagVars,
                   ackVars, threadVars, fwdVars, storeVars, netVars,
                   brokerVars, faults>>

\* mosquitto_disconnect, mosquitto_loop_stop and mosquitto_destroy, or the
\* early return of a service that had no client.
DisconnectDestroy ==
    /\ mainPc = "teardown"
    /\ mainPc' = "idle"
    /\ session' = "none" /\ lastMid' = 0 /\ outgoing' = {} /\ unacked' = {}
    /\ UNCHANGED <<calls, offlineStorage, connVars, flagVars,
                   ackVars, threadVars, fwdVars, storeVars, brokerVars, faults>>

\* main() after disconnect(): StorageService::close().
CloseStorage ==
    /\ mainPc = "idle" /\ ~client /\ stopping
    /\ mainPc' = "closed"
    /\ UNCHANGED <<calls, offlineStorage, connVars, flagVars,
                   ackVars, threadVars, fwdVars, storeVars, netVars,
                   brokerVars, faults>>

\* The process ends, in order or by a crash, and is started again: of the
\* service only the SQLite file survives.
Restart ==
    /\ Fault("crash")
    /\ mainPc' = "idle" /\ offlineStorage' = FALSE
    /\ client' = FALSE /\ connected' = FALSE
    /\ initialConnectionCompleted' = FALSE /\ stopping' = FALSE
    /\ rpc' = "none" /\ row' = NoRow
    /\ replayRequested' = FALSE /\ replaying' = FALSE /\ replayNotified' = FALSE
    /\ replayMessageId' = 0 /\ replayPublishAcknowledged' = FALSE
    /\ fwd' = [f \in Forwarders |-> IdleForwarder]
    /\ session' = "none" /\ lastMid' = 0 /\ outgoing' = {} /\ unacked' = {}
    /\ UNCHANGED <<calls, forwarded, dropped, storeVars, brokerVars>>

-----------------------------------------------------------------------------
(* A forwarder: forwardMessage(), called by the MessageBus.                *)

\* enqueueMqttMessage() is only reached with a storage.
AfterPublish(s) == IF s THEN "enqueue" ELSE "idle"

\* The first critical section decides between sending and buffering.
Forward(f, m) ==
    /\ fwd[f].pc = "idle" /\ m \notin forwarded
    /\ forwarded' = forwarded \union {m}
    /\ LET shouldBuffer == ~connected \/ replaying
           pc == IF shouldBuffer THEN AfterPublish(offlineStorage) ELSE "publish"
       IN /\ fwd' = [fwd EXCEPT ![f] = IF pc = "idle" THEN IdleForwarder ELSE
                       [pc |-> pc, msg |-> m, storage |-> offlineStorage]]
          /\ dropped' = IF pc = "idle" THEN dropped \union {m} ELSE dropped
    /\ UNCHANGED <<mainVars, connVars, flagVars, ackVars, threadVars, storeVars,
                   netVars, brokerVars, faults>>

\* publish(): the library takes the QoS 0 message.  On a link that is dead
\* but not yet reported so it takes it all the same.
PublishAccepted(f) ==
    /\ fwd[f].pc = "publish" /\ connected /\ client
    /\ lastMid' = lastMid + 1
    /\ outgoing' = outgoing \union
                     {[mid |-> lastMid + 1, row |-> 0, msg |-> fwd[f].msg]}
    /\ fwd' = [fwd EXCEPT ![f] = IdleForwarder]
    /\ UNCHANGED <<mainVars, connVars, flagVars, ackVars, threadVars, forwarded,
                   dropped, storeVars, session, unacked, brokerVars, faults>>

\* publish() returns false: not connected any more, MOSQ_ERR_NO_CONN or
\* MOSQ_ERR_CONN_LOST (the socket is closed, the callback still to come), or
\* another error of the library.
PublishRefused(f) ==
    /\ fwd[f].pc = "publish"
    /\ \/ ~(connected /\ client) /\ UNCHANGED <<connected, faults>>
       \/ connected /\ client /\ session = "broken"
          /\ connected' = FALSE /\ UNCHANGED faults
       \/ connected /\ client /\ Fault("library") /\ UNCHANGED connected
    /\ LET pc == AfterPublish(fwd[f].storage)
       IN /\ fwd' = [fwd EXCEPT ![f] = IF pc = "idle" THEN IdleForwarder
                                       ELSE [@ EXCEPT !.pc = pc]]
          /\ dropped' = IF pc = "idle" THEN dropped \union {fwd[f].msg}
                                       ELSE dropped
    /\ UNCHANGED <<mainVars, client, initialConnectionCompleted, stopping,
                   flagVars, ackVars, threadVars, forwarded, storeVars, netVars,
                   brokerVars>>

\* Mutant of EnqueueMqttMessage: an insert that succeeded is retried.
EnqueueMqttMessage_Twice(f) ==
    /\ fwd[f].pc = "enqueue" /\ mainPc # "closed"
    /\ outbox' = outbox \union {[id |-> nextId, msg |-> fwd[f].msg],
                                [id |-> nextId + 1, msg |-> fwd[f].msg]}
    /\ nextId' = nextId + 2
    /\ fwd' = [fwd EXCEPT ![f].pc = "request"]
    /\ UNCHANGED <<mainVars, connVars, flagVars, ackVars, threadVars, forwarded,
                   dropped, netVars, brokerVars, faults>>

\* StorageService::enqueueMqttMessage() inserts the row.
EnqueueMqttMessage(f) ==
    /\ fwd[f].pc = "enqueue" /\ mainPc # "closed"
    /\ outbox' = outbox \union {[id |-> nextId, msg |-> fwd[f].msg]}
    /\ nextId' = nextId + 1
    /\ fwd' = [fwd EXCEPT ![f].pc = "request"]
    /\ UNCHANGED <<mainVars, connVars, flagVars, ackVars, threadVars, forwarded,
                   dropped, netVars, brokerVars, faults>>

\* It fails: the database is closed or the statement does not succeed.
EnqueueFails(f) ==
    /\ fwd[f].pc = "enqueue"
    /\ \/ mainPc = "closed" /\ UNCHANGED faults
       \/ Fault("enqueue")
    /\ dropped' = dropped \union {fwd[f].msg}
    /\ fwd' = [fwd EXCEPT ![f] = IdleForwarder]
    /\ UNCHANGED <<mainVars, connVars, flagVars, ackVars, threadVars, forwarded,
                   storeVars, netVars, brokerVars>>

\* Mutant of RequestedAfterEnqueue: the stored message is left for the next
\* reconnect.
RequestedAfterEnqueue_Never == replayRequested

RequestedAfterEnqueue == replayRequested \/ connected

\* The last critical section of forwardMessage(): the link may have come
\* back, or the replay may have ended, since the first one.
RequestReplay(f) ==
    /\ fwd[f].pc = "request"
    /\ replayRequested' = RequestedAfterEnqueue
    /\ replayNotified' = TRUE
    /\ fwd' = [fwd EXCEPT ![f] = IdleForwarder]
    /\ UNCHANGED <<mainVars, connVars, replaying, ackVars, threadVars, forwarded,
                   dropped, storeVars, netVars, brokerVars, faults>>

-----------------------------------------------------------------------------
(* The replay thread: replayLoop() and publishWithAcknowledgement().       *)

\* Mutant of ReplayWakes: the predicate forgets stopping_.
ReplayWakes_IgnoresStopping == connected /\ offlineStorage /\ replayRequested

\* The predicate of replayCondition_.wait
ReplayWakes == stopping \/ (connected /\ offlineStorage /\ replayRequested)

ReplayExits ==
    /\ rpc = "wait" /\ ReplayWakes /\ stopping
    /\ rpc' = "none" /\ row' = NoRow
    /\ UNCHANGED <<mainVars, connVars, flagVars, ackVars, fwdVars, storeVars,
                   netVars, brokerVars, faults>>

ReplayStarts ==
    /\ rpc = "wait" /\ ReplayWakes /\ ~stopping
    /\ replayRequested' = FALSE /\ replaying' = TRUE
    /\ rpc' = "check"
    /\ UNCHANGED <<mainVars, connVars, replayNotified, ackVars, row, fwdVars,
                   storeVars, netVars, brokerVars, faults>>

\* A notification that finds the predicate false is used up.
ReplaySleeps ==
    /\ rpc = "wait" /\ ~ReplayWakes /\ replayNotified
    /\ replayNotified' = FALSE
    /\ UNCHANGED <<mainVars, connVars, replayRequested, replaying, ackVars,
                   threadVars, fwdVars, storeVars, netVars, brokerVars, faults>>

\* while (isConnected())
ReplayChecks ==
    /\ rpc = "check"
    /\ rpc' = IF connected THEN "load" ELSE "finish"
    /\ UNCHANGED <<mainVars, connVars, flagVars, ackVars, row, fwdVars,
                   storeVars, netVars, brokerVars, faults>>

\* Mutant of IsOldest: the query has no ORDER BY.
IsOldest_AnyRow(r) == r \in outbox

\* loadPendingMqttMessages(1): ORDER BY id ASC LIMIT 1.
IsOldest(r) == r \in outbox /\ \A q \in outbox : r.id <= q.id

\* Mutant of ReplayLoads: pending.front() without the test for empty().
ReplayLoads_NoEmptyTest ==
    /\ rpc = "load"
    /\ \/ outbox = {} /\ rpc' = "publish" /\ row' = NoRow
       \/ \E r \in outbox : IsOldest(r) /\ row' = r /\ rpc' = "publish"
    /\ UNCHANGED <<mainVars, connVars, flagVars, ackVars, fwdVars, storeVars,
                   netVars, brokerVars, faults>>

ReplayLoads ==
    /\ rpc = "load"
    /\ \/ outbox = {} /\ rpc' = "finish" /\ UNCHANGED row
       \/ \E r \in outbox : IsOldest(r) /\ row' = r /\ rpc' = "publish"
    /\ UNCHANGED <<mainVars, connVars, flagVars, ackVars, fwdVars, storeVars,
                   netVars, brokerVars, faults>>

\* An SQLite error clears the result, which looks like an empty outbox.
ReplayLoadFails ==
    /\ rpc = "load" /\ Fault("load")
    /\ rpc' = "finish"
    /\ UNCHANGED <<mainVars, connVars, flagVars, ackVars, row, fwdVars,
                   storeVars, netVars, brokerVars>>

\* publishWithAcknowledgement(): mutex_ is held from the reset of the two
\* acknowledgement variables to the wait, so no PUBACK can slip in between.
ReplayPublishes ==
    /\ rpc = "publish" /\ connected /\ ~stopping /\ client
    /\ replayMessageId' = lastMid + 1 /\ replayPublishAcknowledged' = FALSE
    /\ lastMid' = lastMid + 1
    /\ outgoing' = outgoing \union
                     {[mid |-> lastMid + 1, row |-> row.id, msg |-> row.msg]}
    /\ rpc' = "await"
    /\ UNCHANGED <<mainVars, connVars, flagVars, row, fwdVars, storeVars,
                   session, unacked, brokerVars, faults>>

\* It returns false before the wait: no connection, or the library refuses.
ReplayPublishFails ==
    /\ rpc = "publish"
    /\ \/ ~(connected /\ ~stopping /\ client) /\ UNCHANGED <<ackVars, faults>>
       \/ /\ connected /\ ~stopping /\ client
          /\ \/ session = "broken" /\ UNCHANGED faults
             \/ Fault("library")
          /\ replayMessageId' = 0 /\ replayPublishAcknowledged' = FALSE
    /\ rpc' = "finish"
    /\ UNCHANGED <<mainVars, connVars, flagVars, row, fwdVars, storeVars,
                   netVars, brokerVars>>

\* Mutant of AwaitSucceeds: every end of the wait but a timeout is a success.
AwaitSucceeds_WhenWoken == stopping \/ ~connected \/ replayPublishAcknowledged

AwaitSucceeds == replayPublishAcknowledged

\* The wait ends because its predicate holds.  An acknowledgement that came
\* before the disconnect still counts.
ReplayAwaitEnds ==
    /\ rpc = "await"
    /\ stopping \/ ~connected \/ replayPublishAcknowledged
    /\ rpc' = IF AwaitSucceeds THEN "remove" ELSE "finish"
    /\ replayMessageId' = 0 /\ replayPublishAcknowledged' = FALSE
    /\ UNCHANGED <<mainVars, connVars, flagVars, row, fwdVars, storeVars,
                   netVars, brokerVars, faults>>

\* The wait ends with publishAckTimeoutMs.  A dead link is noticed later than
\* that (keepalive); on a healthy one a late PUBACK is a fault.
ReplayAwaitTimesOut ==
    /\ rpc = "await" /\ ~(stopping \/ ~connected \/ replayPublishAcknowledged)
    /\ \/ session = "broken" /\ UNCHANGED faults
       \/ Fault("ack")
    /\ rpc' = "finish"
    /\ replayMessageId' = 0 /\ replayPublishAcknowledged' = FALSE
    /\ UNCHANGED <<mainVars, connVars, flagVars, row, fwdVars, storeVars,
                   netVars, brokerVars>>

\* removePendingMqttMessage() deletes exactly one row ...
ReplayRemoves ==
    /\ rpc = "remove" /\ row \in outbox
    /\ outbox' = outbox \ {row}
    /\ rpc' = "check"
    /\ UNCHANGED <<mainVars, connVars, flagVars, ackVars, row, fwdVars, nextId,
                   netVars, brokerVars, faults>>

\* ... or fails, and the loop breaks.
ReplayRemoveFails ==
    /\ rpc = "remove"
    /\ \/ row \notin outbox /\ UNCHANGED faults
       \/ Fault("remove")
    /\ rpc' = "finish"
    /\ UNCHANGED <<mainVars, connVars, flagVars, ackVars, row, fwdVars,
                   storeVars, netVars, brokerVars>>

\* replaying_ is cleared; back at the wait the predicate is checked at once.
ReplayFinishes ==
    /\ rpc = "finish"
    /\ replaying' = FALSE
    /\ rpc' = "wait" /\ row' = NoRow /\ replayNotified' = TRUE
    /\ UNCHANGED <<mainVars, connVars, replayRequested, ackVars, fwdVars,
                   storeVars, netVars, brokerVars, faults>>

-----------------------------------------------------------------------------
(* libmosquitto's network thread with the callbacks, and the broker.  The  *)
(* thread runs from connect() to the end of disconnect(), so a callback    *)
(* may come when client_ is null already and must then be ignored.         *)

\* Mutant of ConnackIgnored: a late CONNACK is always believed.
ConnackIgnored_Never == FALSE

\* handleConnect() returns early for a client that was given up.
ConnackIgnored == ~client \/ stopping

RequestedOnConnect(accepted) == replayRequested \/ (accepted /\ offlineStorage)

\* handleConnect(): the broker accepts or rejects the connection.
HandleConnect(accepted) ==
    /\ session = "down"
    /\ session' = IF accepted THEN "up" ELSE "down"
    /\ IF ConnackIgnored
       THEN UNCHANGED <<connected, initialConnectionCompleted, replayRequested,
                        replayNotified>>
       ELSE /\ connected' = accepted
            /\ initialConnectionCompleted' = TRUE
            /\ replayRequested' = RequestedOnConnect(accepted)
            /\ replayNotified' = TRUE
    /\ UNCHANGED <<mainVars, client, stopping, replaying, ackVars, threadVars,
                   fwdVars, storeVars, lastMid, outgoing, unacked, brokerVars,
                   faults>>

\* handleDisconnect(): the dead link is noticed.  Queued QoS 0 publishes are
\* gone, QoS 1 publishes without a PUBACK are kept for the next session.
HandleDisconnect ==
    /\ session = "broken"
    /\ session' = "down"
    /\ outgoing' = unacked \union {p \in outgoing : p.row # 0}
    /\ unacked' = {}
    /\ IF ~client
       THEN UNCHANGED <<connected, replayNotified>>
       ELSE connected' = FALSE /\ replayNotified' = TRUE
    /\ UNCHANGED <<mainVars, client, initialConnectionCompleted, stopping,
                   replayRequested, replaying, ackVars, threadVars, fwdVars,
                   storeVars, lastMid, brokerVars, faults>>

\* Mutant of HandlePublish: the acknowledgement is not noted.
HandlePublish_Ignored(mid) == UNCHANGED ackVars

\* Mutant of HandlePublish: any completed publish counts as the awaited one.
HandlePublish_AnyId(mid) ==
    /\ replayPublishAcknowledged' =
         (replayPublishAcknowledged \/ (client /\ replayMessageId # 0))
    /\ UNCHANGED replayMessageId

\* What handlePublish(mid) does with a completed publish.
HandlePublish(mid) ==
    /\ replayPublishAcknowledged' =
         (replayPublishAcknowledged \/ (client /\ replayMessageId = mid))
    /\ UNCHANGED replayMessageId

\* The network thread writes the next publish and the broker gets it.  A QoS 0
\* publish is complete when written, so its callback comes now.
Transmit ==
    /\ session = "up"
    /\ \E p \in outgoing :
         /\ IsFirst(p, outgoing)
         /\ outgoing' = outgoing \ {p}
         /\ received' = received \union {p.msg}
         /\ IF p.row = 0
            THEN UNCHANGED <<unacked, receivedRows>> /\ HandlePublish(p.mid)
            ELSE /\ unacked' = unacked \union {p}
                 /\ receivedRows' = receivedRows \union {p.row}
                 /\ UNCHANGED ackVars
    /\ UNCHANGED <<mainVars, connVars, flagVars, threadVars, fwdVars, storeVars,
                   session, lastMid, faults>>

\* A PUBACK arrives: the library forgets the publish and runs the callback.
PubAck ==
    /\ session = "up"
    /\ \E p \in unacked : /\ IsFirst(p, unacked)
                          /\ unacked' = unacked \ {p}
                          /\ HandlePublish(p.mid)
    /\ UNCHANGED <<mainVars, connVars, flagVars, threadVars, fwdVars, storeVars,
                   session, lastMid, outgoing, brokerVars, faults>>

\* The TCP session dies; nobody knows yet.
LinkBreaks ==
    /\ session = "up" /\ Fault("link")
    /\ session' = "broken"
    /\ UNCHANGED <<mainVars, connVars, flagVars, ackVars, threadVars, fwdVars,
                   storeVars, lastMid, outgoing, unacked, brokerVars>>

-----------------------------------------------------------------------------
MainStep == \/ \E s \in BOOLEAN : SetOfflineStorage(s)
            \/ ConnectFails \/ ConnectStart \/ ConnectReturns
            \/ DisconnectBegin \/ DisconnectJoin \/ DisconnectDestroy
            \/ CloseStorage \/ Restart

ForwarderStep(f) == \/ PublishAccepted(f) \/ PublishRefused(f)
                    \/ EnqueueMqttMessage(f) \/ EnqueueFails(f)
                    \/ RequestReplay(f)

ReplayStep == \/ ReplayExits \/ ReplayStarts \/ ReplaySleeps \/ ReplayChecks
              \/ ReplayLoads \/ ReplayLoadFails
              \/ ReplayPublishes \/ ReplayPublishFails
              \/ ReplayAwaitEnds \/ ReplayAwaitTimesOut
              \/ ReplayRemoves \/ ReplayRemoveFails \/ ReplayFinishes

NetworkStep == \/ \E accepted \in BOOLEAN : HandleConnect(accepted)
               \/ HandleDisconnect \/ Transmit \/ PubAck \/ LinkBreaks

Next == \/ MainStep
        \/ \E f \in Forwarders : ForwarderStep(f) \/ \E m \in Messages : Forward(f, m)
        \/ ReplayStep
        \/ NetworkStep

Spec == Init /\ [][Next]_vars

(***************************************************************************)
(* Fairness.  Every thread that can run eventually runs; a thread asleep   *)
(* on replayCondition_ only has to run when it was notified.  A dead link  *)
(* is eventually noticed (keepalive), a broker eventually accepts          *)
(* (libmosquitto reconnects for ever) and answers what it got.  Nothing is *)
(* assumed of the callers of the API, of new messages or of faults.        *)
(***************************************************************************)
ReplayRuns == \/ rpc = "wait" /\ replayNotified /\ (ReplayExits \/ ReplayStarts)
              \/ rpc # "wait" /\ ReplayStep

Fairness ==
    /\ WF_vars(ConnectReturns) /\ WF_vars(DisconnectJoin)
    /\ WF_vars(DisconnectDestroy)
    /\ \A f \in Forwarders : WF_vars(ForwarderStep(f))
    /\ WF_vars(ReplayRuns)
    /\ WF_vars(HandleConnect(TRUE)) /\ WF_vars(HandleDisconnect)
    /\ WF_vars(Transmit) /\ WF_vars(PubAck)

FairSpec == Spec /\ Fairness

-----------------------------------------------------------------------------
(* Properties.                                                             *)

FlagTypes ==
    /\ offlineStorage \in BOOLEAN /\ client \in BOOLEAN /\ connected \in BOOLEAN
    /\ initialConnectionCompleted \in BOOLEAN /\ stopping \in BOOLEAN
    /\ replayRequested \in BOOLEAN /\ replaying \in BOOLEAN
    /\ replayNotified \in BOOLEAN /\ replayPublishAcknowledged \in BOOLEAN

StateTypes ==
    /\ mainPc \in {"idle", "connecting", "joining", "teardown", "closed"}
    /\ calls \in Nat /\ faults \in Nat
    /\ rpc \in {"none", "wait", "check", "load", "publish", "await", "remove",
                "finish"}
    /\ row \in Rows \union {NoRow}
    /\ replayMessageId \in Nat
    /\ forwarded \subseteq Messages /\ dropped \subseteq Messages
    /\ outbox \subseteq Rows /\ nextId \in Nat \ {0}
    /\ session \in {"none", "down", "up", "broken"}
    /\ lastMid \in Nat
    /\ outgoing \subseteq Publishes /\ unacked \subseteq Publishes
    /\ received \subseteq Messages /\ receivedRows \subseteq Nat

ForwarderTypes ==
    fwd \in [Forwarders ->
               [pc : {"idle"}, msg : {NoMsg}, storage : {FALSE}] \union
               [pc : {"publish", "enqueue", "request"}, msg : Messages,
                storage : BOOLEAN]]

\* Every variable has its type; a forwarder holds a message exactly while it
\* is inside forwardMessage().
TypeOK == FlagTypes /\ StateTypes /\ ForwarderTypes

\* Store and forward never loses a row: every id ever given by the outbox is
\* still stored or has reached the broker, whatever dies and whenever (the
\* removal at the end of replayLoop comes after the PUBACK of that very row).
NoRowLost ==
    \A i \in 1 .. nextId - 1 : i \in receivedRows \/ \E r \in outbox : r.id = i

\* The broker sees the backlog in AUTOINCREMENT order: a row arrives for the
\* first time only after all older rows ("按SQLite自增ID顺序补传").
RowsArriveInOrder ==
    \A i \in receivedRows : \A j \in 1 .. i - 1 : j \in receivedRows

\* replayLoop never asks to delete a row that is gone or unconfirmed, so
\* removePendingMqttMessage fails for SQLite's reasons only.
RemovesConfirmedRow == rpc = "remove" => row \in outbox /\ row.id \in receivedRows

\* connected_ and the session agree while the service owns its client:
\* a session that is up is known to be up, and a client that was given up
\* never counts as connected, although its callbacks still come.
ConnectedTracksSession ==
    /\ client /\ session = "up" => connected
    /\ connected => client /\ ~stopping /\ session \in {"up", "broken"}

\* Threads are torn down in order: while main() is past the join there is no
\* replay thread, and without a network thread there is no client.
ThreadLifetimes ==
    /\ mainPc \in {"teardown", "closed"} => rpc = "none"
    /\ client => session # "none" /\ rpc # "none"
    /\ session = "none" => rpc = "none" /\ outgoing = {} /\ unacked = {}

\* A backlog is never forgotten: when rows wait, the link is up and the replay
\* thread is at its wait, then replay is requested and the thread notified, or
\* a forwarder is about to do it.  (For faults that do not end a replay early.)
ReplayNotForgotten ==
    /\ outbox # {} /\ connected /\ session = "up" /\ offlineStorage
    /\ rpc = "wait"
    => \/ replayRequested /\ replayNotified
       \/ \E f \in Forwarders : fwd[f].pc = "request"

\* The whole service, seen from its outbox, is a persistent FIFO queue with
\* at-least-once delivery.
Queue == INSTANCE StoreAndForward
             WITH pending <- {r.id : r \in outbox},
                  delivered <- receivedRows,
                  next <- nextId

\* MqttService implements StoreAndForward: a row is stored once, first
\* delivered in order, and removed from the front after its delivery, across
\* crashes, reconnects, late acknowledgements and failed SQL statements.
ImplementsStoreAndForward == Queue!Spec

\* disconnect() comes back: the replay thread leaves whatever it is doing.
DisconnectReturns == mainPc = "joining" ~> mainPc = "idle"

\* The backlog drains: a stored row goes away (RemovesConfirmedRow: to the
\* broker) unless the owner disconnects or takes the storage away.
BacklogDrains ==
    \A i \in 1 .. Cardinality(Messages) :
        (\E r \in outbox : r.id = i)
            ~> (~(\E r \in outbox : r.id = i) \/ ~client \/ ~offlineStorage)
-----------------------------------------------------------------------------
(* The inductive invariant behind the safety properties.                   *)

\* Which thread lives when, and what connected_ means then.
ThreadInv ==
    /\ client => /\ mainPc \in {"idle", "connecting"}
                 /\ session # "none" /\ rpc # "none" /\ ~stopping
    /\ mainPc = "connecting" => client
    /\ rpc # "none" => session # "none" /\ (client \/ mainPc = "joining")
    /\ session # "none" => client \/ mainPc \in {"joining", "teardown"}
    /\ session = "none" => outgoing = {} /\ unacked = {}
    /\ connected => client /\ session \in {"up", "broken"}
    /\ client /\ session = "up" => connected

\* The outbox and what the broker has got of it.
RowInv ==
    /\ \A r \in outbox : r.id < nextId
    /\ \A q, r \in outbox : q.id = r.id => q = r
    /\ \A i \in receivedRows : i < nextId
    /\ NoRowLost
    /\ RowsArriveInOrder

\* The replay thread works on the oldest row, and an acknowledgement it has
\* seen, or acts upon, is one for that row.
ReplayInv ==
    /\ rpc \in {"publish", "await", "remove"} => IsOldest(row)
    /\ rpc = "remove" => row.id \in receivedRows
    /\ replayMessageId # 0 => rpc = "await"
    /\ replayPublishAcknowledged => rpc = "await" /\ row.id \in receivedRows

\* Publishes inside the library: the awaited mid belongs to the loaded row and
\* to nothing else, and what was published is not ahead of the rows delivered.
LibraryInv ==
    /\ replayMessageId <= lastMid
    /\ \A p \in outgoing \union unacked :
         p.mid <= lastMid /\ (p.mid = replayMessageId => p.row = row.id)
    /\ \A p \in unacked : p.row # 0 /\ p.row \in receivedRows
    /\ \A p \in outgoing : p.row # 0 =>
         p.row < nextId /\ \A j \in 1 .. p.row - 1 : j \in receivedRows

IndInv == TypeOK /\ ThreadInv /\ RowInv /\ ReplayInv /\ LibraryInv

-----------------------------------------------------------------------------
(* What a comment of the repository says and the code does not do.         *)

\* main(): "后续数据会落入SQLite并自动重连补传" (src/main.cpp:129): when the link
\* stays up in the end, everything in SQLite is replayed in the end.
OfflineDataIsReplayed ==
    <>[](connected /\ session = "up" /\ offlineStorage) => <>[](outbox = {})

=============================================================================
