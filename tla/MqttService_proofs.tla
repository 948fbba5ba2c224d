------------------------ MODULE MqttService_proofs ------------------------
(***************************************************************************)
(* Safety of MqttService for any number of forwarders, messages, faults    *)
(* and API calls.                                                          *)
(*                                                                         *)
(* NoRowLost and RowsArriveInOrder are not inductive: the step that counts *)
(* is the removal of a row, and that the row is confirmed there follows    *)
(* from a chain through the replay thread (ReplayInv: an acknowledgement   *)
(* seen is one for the loaded row) and the library (LibraryInv: only the   *)
(* loaded row's publish carries the awaited mid, and a publish that can be *)
(* acknowledged was received).  ThreadInv says that no thread outlives the *)
(* client it works for.  Each part is preserved in a lemma of its own,     *)
(* one step per action; IndInv puts them together.                         *)
(***************************************************************************)
EXTENDS MqttService, TLAPS

-----------------------------------------------------------------------------
(* Types.                                                                  *)

\* A forwarder inside forwardMessage() holds a message.
LEMMA ForwarderHoldsMessage ==
    ASSUME ForwarderTypes, NEW f \in Forwarders, fwd[f].pc # "idle"
    PROVE  fwd[f].msg \in Messages
BY DEF ForwarderTypes

\* The Boolean members of the service stay Boolean.
LEMMA FlagsStep ==
    FlagTypes /\ [Next]_vars => FlagTypes'
<1> SUFFICES ASSUME FlagTypes, [Next]_vars
             PROVE  FlagTypes'
  OBVIOUS
<1> USE DEF FlagTypes, mainVars, connVars, flagVars, ackVars, threadVars,
            fwdVars,
            storeVars, netVars, brokerVars
<1>1. CASE MainStep
  <2>1. ASSUME NEW s \in BOOLEAN, SetOfflineStorage(s) PROVE FlagTypes'
    BY <2>1, Zenon DEF SetOfflineStorage
  <2>2. CASE ConnectFails
    BY <2>2, Zenon DEF ConnectFails, Fault
  <2>3. CASE ConnectStart
    BY <2>3, Zenon DEF ConnectStart
  <2>4. CASE ConnectReturns
    BY <2>4, Zenon DEF ConnectReturns
  <2>5. CASE DisconnectBegin
    BY <2>5, Zenon DEF DisconnectBegin
  <2>6. CASE DisconnectJoin
    BY <2>6, Zenon DEF DisconnectJoin
  <2>7. CASE DisconnectDestroy
    BY <2>7, Zenon DEF DisconnectDestroy
  <2>8. CASE CloseStorage
    BY <2>8, Zenon DEF CloseStorage
  <2>9. CASE Restart
    BY <2>9, Zenon DEF Restart, Fault
  <2> QED BY <1>1, <2>1, <2>2, <2>3, <2>4, <2>5, <2>6, <2>7, <2>8,
             <2>9 DEF MainStep
<1>2. ASSUME NEW f \in Forwarders, NEW m \in Messages, Forward(f, m)
      PROVE  FlagTypes'
  BY <1>2, Zenon DEF Forward, AfterPublish
<1>3. ASSUME NEW f \in Forwarders, ForwarderStep(f) PROVE FlagTypes'
  <2>1. CASE PublishAccepted(f)
    BY <2>1, Zenon DEF PublishAccepted
  <2>2. CASE PublishRefused(f)
    BY <2>2, Zenon DEF PublishRefused, Fault
  <2>3. CASE EnqueueMqttMessage(f)
    BY <2>3, Zenon DEF EnqueueMqttMessage
  <2>4. CASE EnqueueFails(f)
    BY <2>4, Zenon DEF EnqueueFails, Fault
  <2>5. CASE RequestReplay(f)
    BY <2>5, Zenon DEF RequestReplay, RequestedAfterEnqueue
  <2> QED BY <1>3, <2>1, <2>2, <2>3, <2>4, <2>5 DEF ForwarderStep
<1>4. CASE ReplayStep
  <2>1. CASE ReplayExits
    BY <2>1, Zenon DEF ReplayExits
  <2>2. CASE ReplayStarts
    BY <2>2, Zenon DEF ReplayStarts
  <2>3. CASE ReplaySleeps
    BY <2>3, Zenon DEF ReplaySleeps
  <2>4. CASE ReplayChecks
    BY <2>4, Zenon DEF ReplayChecks
  <2>5. CASE ReplayLoads
    BY <2>5, Zenon DEF ReplayLoads
  <2>6. CASE ReplayLoadFails
    BY <2>6, Zenon DEF ReplayLoadFails, Fault
  <2>7. CASE ReplayPublishes
    BY <2>7, Zenon DEF ReplayPublishes
  <2>8. CASE ReplayPublishFails
    BY <2>8, Zenon DEF ReplayPublishFails, Fault
  <2>9. CASE ReplayAwaitEnds
    BY <2>9, Zenon DEF ReplayAwaitEnds
  <2>10. CASE ReplayAwaitTimesOut
    BY <2>10, Zenon DEF ReplayAwaitTimesOut, Fault
  <2>11. CASE ReplayRemoves
    BY <2>11, Zenon DEF ReplayRemoves
  <2>12. CASE ReplayRemoveFails
    BY <2>12, Zenon DEF ReplayRemoveFails, Fault
  <2>13. CASE ReplayFinishes
    BY <2>13, Zenon DEF ReplayFinishes
  <2> QED BY <1>4, <2>1, <2>2, <2>3, <2>4, <2>5, <2>6, <2>7, <2>8, <2>9,
             <2>10, <2>11, <2>12, <2>13 DEF ReplayStep
<1>5. CASE NetworkStep
  <2>1. ASSUME NEW a \in BOOLEAN, HandleConnect(a) PROVE FlagTypes'
    BY <2>1, Zenon DEF HandleConnect, RequestedOnConnect
  <2>2. CASE HandleDisconnect
    BY <2>2, Zenon DEF HandleDisconnect
  <2>3. CASE Transmit
    BY <2>3, Zenon DEF Transmit, HandlePublish
  <2>4. CASE PubAck
    BY <2>4, Zenon DEF PubAck, HandlePublish
  <2>5. CASE LinkBreaks
    BY <2>5, Zenon DEF LinkBreaks, Fault
  <2> QED BY <1>5, <2>1, <2>2, <2>3, <2>4, <2>5 DEF NetworkStep
<1>6. CASE UNCHANGED vars
  BY <1>6 DEF vars
<1> QED BY <1>1, <1>2, <1>3, <1>4, <1>5, <1>6 DEF Next

\* Counters, locations, the outbox and the library's sets keep their types; a
\* row is published only after it was loaded.
LEMMA StatesStep ==
    StateTypes /\ ForwarderTypes /\ ReplayInv /\ [Next]_vars => StateTypes'
<1> SUFFICES ASSUME StateTypes, ForwarderTypes, ReplayInv, [Next]_vars
             PROVE  StateTypes'
  OBVIOUS
<1> USE DEF StateTypes, mainVars, connVars, flagVars, ackVars, threadVars,
            fwdVars,
            storeVars, netVars, brokerVars
<1>1. CASE MainStep
  <2>1. ASSUME NEW s \in BOOLEAN, SetOfflineStorage(s) PROVE StateTypes'
    BY <2>1 DEF SetOfflineStorage
  <2>2. CASE ConnectFails
    BY <2>2 DEF ConnectFails, Fault
  <2>3. CASE ConnectStart
    BY <2>3 DEF ConnectStart
  <2>4. CASE ConnectReturns
    BY <2>4 DEF ConnectReturns
  <2>5. CASE DisconnectBegin
    BY <2>5 DEF DisconnectBegin
  <2>6. CASE DisconnectJoin
    BY <2>6 DEF DisconnectJoin
  <2>7. CASE DisconnectDestroy
    BY <2>7 DEF DisconnectDestroy
  <2>8. CASE CloseStorage
    BY <2>8 DEF CloseStorage
  <2>9. CASE Restart
    BY <2>9 DEF Restart, Fault
  <2> QED BY <1>1, <2>1, <2>2, <2>3, <2>4, <2>5, <2>6, <2>7, <2>8,
             <2>9 DEF MainStep
<1>2. ASSUME NEW f \in Forwarders, NEW m \in Messages, Forward(f, m)
      PROVE  StateTypes'
  BY <1>2 DEF Forward, AfterPublish
<1>3. ASSUME NEW f \in Forwarders, ForwarderStep(f) PROVE StateTypes'
  <2>1. CASE PublishAccepted(f)
    BY <2>1, ForwarderHoldsMessage DEF PublishAccepted, Publishes
  <2>2. CASE PublishRefused(f)
    BY <2>2, ForwarderHoldsMessage DEF PublishRefused, Fault
  <2>3. CASE EnqueueMqttMessage(f)
    BY <2>3, ForwarderHoldsMessage DEF EnqueueMqttMessage, Rows
  <2>4. CASE EnqueueFails(f)
    BY <2>4, ForwarderHoldsMessage DEF EnqueueFails, Fault
  <2>5. CASE RequestReplay(f)
    BY <2>5 DEF RequestReplay, RequestedAfterEnqueue
  <2> QED BY <1>3, <2>1, <2>2, <2>3, <2>4, <2>5 DEF ForwarderStep
<1>4. CASE ReplayStep
  <2>1. CASE ReplayExits
    BY <2>1 DEF ReplayExits
  <2>2. CASE ReplayStarts
    BY <2>2 DEF ReplayStarts
  <2>3. CASE ReplaySleeps
    BY <2>3 DEF ReplaySleeps
  <2>4. CASE ReplayChecks
    BY <2>4 DEF ReplayChecks
  <2>5. CASE ReplayLoads
    BY <2>5 DEF ReplayLoads, IsOldest
  <2>6. CASE ReplayLoadFails
    BY <2>6 DEF ReplayLoadFails, Fault
  <2>7. CASE ReplayPublishes
    BY <2>7 DEF ReplayPublishes, ReplayInv, IsOldest, Rows, Publishes
  <2>8. CASE ReplayPublishFails
    BY <2>8 DEF ReplayPublishFails, Fault
  <2>9. CASE ReplayAwaitEnds
    BY <2>9 DEF ReplayAwaitEnds
  <2>10. CASE ReplayAwaitTimesOut
    BY <2>10 DEF ReplayAwaitTimesOut, Fault
  <2>11. CASE ReplayRemoves
    BY <2>11 DEF ReplayRemoves
  <2>12. CASE ReplayRemoveFails
    BY <2>12 DEF ReplayRemoveFails, Fault
  <2>13. CASE ReplayFinishes
    BY <2>13 DEF ReplayFinishes
  <2> QED BY <1>4, <2>1, <2>2, <2>3, <2>4, <2>5, <2>6, <2>7, <2>8, <2>9,
             <2>10, <2>11, <2>12, <2>13 DEF ReplayStep
<1>5. CASE NetworkStep
  <2>1. ASSUME NEW a \in BOOLEAN, HandleConnect(a) PROVE StateTypes'
    BY <2>1 DEF HandleConnect, RequestedOnConnect
  <2>2. CASE HandleDisconnect
    BY <2>2 DEF HandleDisconnect
  <2>3. CASE Transmit
    <3>1. PICK p \in outgoing :
            /\ outgoing' = outgoing \ {p}
            /\ received' = received \union {p.msg}
            /\ unacked' = unacked \/ unacked' = unacked \union {p}
            /\ receivedRows' = receivedRows \/ receivedRows' = receivedRows \union {p.row}
      BY <2>3 DEF Transmit
    <3>2. p.msg \in Messages /\ p.row \in Nat
      BY DEF Publishes
    <3>3. replayMessageId' = replayMessageId
      BY <2>3 DEF Transmit, HandlePublish
    <3> QED BY <2>3, <3>1, <3>2, <3>3 DEF Transmit
  <2>4. CASE PubAck
    BY <2>4 DEF PubAck, HandlePublish
  <2>5. CASE LinkBreaks
    BY <2>5 DEF LinkBreaks, Fault
  <2> QED BY <1>5, <2>1, <2>2, <2>3, <2>4, <2>5 DEF NetworkStep
<1>6. CASE UNCHANGED vars
  BY <1>6 DEF vars
<1> QED BY <1>1, <1>2, <1>3, <1>4, <1>5, <1>6 DEF Next

\* The local state of a forwarder keeps its type through forwardMessage().
LEMMA ForwardersStep ==
    FlagTypes /\ ForwarderTypes /\ [Next]_vars => ForwarderTypes'
<1> SUFFICES ASSUME FlagTypes, ForwarderTypes, [Next]_vars
             PROVE  ForwarderTypes'
  OBVIOUS
<1> USE DEF ForwarderTypes, IdleForwarder, mainVars, connVars, flagVars,
            ackVars, threadVars, fwdVars,
            storeVars, netVars, brokerVars
<1>1. CASE MainStep
  <2>1. ASSUME NEW s \in BOOLEAN, SetOfflineStorage(s) PROVE ForwarderTypes'
    BY <2>1 DEF SetOfflineStorage
  <2>2. CASE ConnectFails
    BY <2>2 DEF ConnectFails, Fault
  <2>3. CASE ConnectStart
    BY <2>3 DEF ConnectStart
  <2>4. CASE ConnectReturns
    BY <2>4 DEF ConnectReturns
  <2>5. CASE DisconnectBegin
    BY <2>5 DEF DisconnectBegin
  <2>6. CASE DisconnectJoin
    BY <2>6 DEF DisconnectJoin
  <2>7. CASE DisconnectDestroy
    BY <2>7 DEF DisconnectDestroy
  <2>8. CASE CloseStorage
    BY <2>8 DEF CloseStorage
  <2>9. CASE Restart
    BY <2>9 DEF Restart, Fault
  <2> QED BY <1>1, <2>1, <2>2, <2>3, <2>4, <2>5, <2>6, <2>7, <2>8,
             <2>9 DEF MainStep
<1>2. ASSUME NEW f \in Forwarders, NEW m \in Messages, Forward(f, m)
      PROVE  ForwarderTypes'
  BY <1>2 DEF Forward, AfterPublish, FlagTypes
<1>3. ASSUME NEW f \in Forwarders, ForwarderStep(f) PROVE ForwarderTypes'
  <2>1. CASE PublishAccepted(f)
    BY <2>1 DEF PublishAccepted
  <2>2. CASE PublishRefused(f)
    BY <2>2 DEF PublishRefused, Fault, AfterPublish
  <2>3. CASE EnqueueMqttMessage(f)
    BY <2>3 DEF EnqueueMqttMessage
  <2>4. CASE EnqueueFails(f)
    BY <2>4 DEF EnqueueFails, Fault
  <2>5. CASE RequestReplay(f)
    BY <2>5 DEF RequestReplay, RequestedAfterEnqueue
  <2> QED BY <1>3, <2>1, <2>2, <2>3, <2>4, <2>5 DEF ForwarderStep
<1>4. CASE ReplayStep
  <2>1. CASE ReplayExits
    BY <2>1 DEF ReplayExits
  <2>2. CASE ReplayStarts
    BY <2>2 DEF ReplayStarts
  <2>3. CASE ReplaySleeps
    BY <2>3 DEF ReplaySleeps
  <2>4. CASE ReplayChecks
    BY <2>4 DEF ReplayChecks
  <2>5. CASE ReplayLoads
    BY <2>5 DEF ReplayLoads
  <2>6. CASE ReplayLoadFails
    BY <2>6 DEF ReplayLoadFails, Fault
  <2>7. CASE ReplayPublishes
    BY <2>7 DEF ReplayPublishes
  <2>8. CASE ReplayPublishFails
    BY <2>8 DEF ReplayPublishFails, Fault
  <2>9. CASE ReplayAwaitEnds
    BY <2>9 DEF ReplayAwaitEnds
  <2>10. CASE ReplayAwaitTimesOut
    BY <2>10 DEF ReplayAwaitTimesOut, Fault
  <2>11. CASE ReplayRemoves
    BY <2>11 DEF ReplayRemoves
  <2>12. CASE ReplayRemoveFails
    BY <2>12 DEF ReplayRemoveFails, Fault
  <2>13. CASE ReplayFinishes
    BY <2>13 DEF ReplayFinishes
  <2> QED BY <1>4, <2>1, <2>2, <2>3, <2>4, <2>5, <2>6, <2>7, <2>8, <2>9,
             <2>10, <2>11, <2>12, <2>13 DEF ReplayStep
<1>5. CASE NetworkStep
  <2>1. ASSUME NEW a \in BOOLEAN, HandleConnect(a) PROVE ForwarderTypes'
    BY <2>1 DEF HandleConnect, RequestedOnConnect
  <2>2. CASE HandleDisconnect
    BY <2>2 DEF HandleDisconnect
  <2>3. CASE Transmit
    BY <2>3 DEF Transmit, HandlePublish
  <2>4. CASE PubAck
    BY <2>4 DEF PubAck, HandlePublish
  <2>5. CASE LinkBreaks
    BY <2>5 DEF LinkBreaks, Fault
  <2> QED BY <1>5, <2>1, <2>2, <2>3, <2>4, <2>5 DEF NetworkStep
<1>6. CASE UNCHANGED vars
  BY <1>6 DEF vars
<1> QED BY <1>1, <1>2, <1>3, <1>4, <1>5, <1>6 DEF Next

-----------------------------------------------------------------------------
(* The four parts of the inductive invariant.                              *)

\* connect(), disconnect(), the callbacks and the loss of a link keep threads,
\* client and connected_ in step.
LEMMA ThreadsStep ==
    FlagTypes /\ StateTypes /\ ThreadInv /\ [Next]_vars => ThreadInv'
<1> SUFFICES ASSUME FlagTypes, StateTypes, ThreadInv, [Next]_vars
             PROVE  ThreadInv'
  OBVIOUS
<1> USE DEF FlagTypes, StateTypes, ThreadInv, mainVars, connVars, flagVars,
            ackVars, threadVars, fwdVars,
            storeVars, netVars, brokerVars
<1>1. CASE MainStep
  <2>1. ASSUME NEW s \in BOOLEAN, SetOfflineStorage(s) PROVE ThreadInv'
    BY <2>1 DEF SetOfflineStorage
  <2>2. CASE ConnectFails
    BY <2>2 DEF ConnectFails, Fault
  <2>3. CASE ConnectStart
    BY <2>3 DEF ConnectStart
  <2>4. CASE ConnectReturns
    BY <2>4 DEF ConnectReturns
  <2>5. CASE DisconnectBegin
    BY <2>5 DEF DisconnectBegin
  <2>6. CASE DisconnectJoin
    BY <2>6 DEF DisconnectJoin
  <2>7. CASE DisconnectDestroy
    BY <2>7 DEF DisconnectDestroy
  <2>8. CASE CloseStorage
    BY <2>8 DEF CloseStorage
  <2>9. CASE Restart
    BY <2>9 DEF Restart, Fault
  <2> QED BY <1>1, <2>1, <2>2, <2>3, <2>4, <2>5, <2>6, <2>7, <2>8,
             <2>9 DEF MainStep
<1>2. ASSUME NEW f \in Forwarders, NEW m \in Messages, Forward(f, m)
      PROVE  ThreadInv'
  BY <1>2 DEF Forward, AfterPublish
<1>3. ASSUME NEW f \in Forwarders, ForwarderStep(f) PROVE ThreadInv'
  <2>1. CASE PublishAccepted(f)
    BY <2>1 DEF PublishAccepted
  <2>2. CASE PublishRefused(f)
    BY <2>2 DEF PublishRefused, Fault
  <2>3. CASE EnqueueMqttMessage(f)
    BY <2>3 DEF EnqueueMqttMessage
  <2>4. CASE EnqueueFails(f)
    BY <2>4 DEF EnqueueFails, Fault
  <2>5. CASE RequestReplay(f)
    BY <2>5 DEF RequestReplay, RequestedAfterEnqueue
  <2> QED BY <1>3, <2>1, <2>2, <2>3, <2>4, <2>5 DEF ForwarderStep
<1>4. CASE ReplayStep
  <2>1. CASE ReplayExits
    BY <2>1 DEF ReplayExits, ReplayWakes
  <2>2. CASE ReplayStarts
    BY <2>2 DEF ReplayStarts, ReplayWakes
  <2>3. CASE ReplaySleeps
    BY <2>3 DEF ReplaySleeps
  <2>4. CASE ReplayChecks
    BY <2>4 DEF ReplayChecks
  <2>5. CASE ReplayLoads
    BY <2>5 DEF ReplayLoads
  <2>6. CASE ReplayLoadFails
    BY <2>6 DEF ReplayLoadFails, Fault
  <2>7. CASE ReplayPublishes
    BY <2>7 DEF ReplayPublishes
  <2>8. CASE ReplayPublishFails
    BY <2>8 DEF ReplayPublishFails, Fault
  <2>9. CASE ReplayAwaitEnds
    BY <2>9 DEF ReplayAwaitEnds
  <2>10. CASE ReplayAwaitTimesOut
    BY <2>10 DEF ReplayAwaitTimesOut, Fault
  <2>11. CASE ReplayRemoves
    BY <2>11 DEF ReplayRemoves
  <2>12. CASE ReplayRemoveFails
    BY <2>12 DEF ReplayRemoveFails, Fault
  <2>13. CASE ReplayFinishes
    BY <2>13 DEF ReplayFinishes
  <2> QED BY <1>4, <2>1, <2>2, <2>3, <2>4, <2>5, <2>6, <2>7, <2>8, <2>9,
             <2>10, <2>11, <2>12, <2>13 DEF ReplayStep
<1>5. CASE NetworkStep
  <2>1. ASSUME NEW a \in BOOLEAN, HandleConnect(a) PROVE ThreadInv'
    BY <2>1 DEF HandleConnect, RequestedOnConnect, ConnackIgnored
  <2>2. CASE HandleDisconnect
    BY <2>2 DEF HandleDisconnect
  <2>3. CASE Transmit
    BY <2>3 DEF Transmit, HandlePublish
  <2>4. CASE PubAck
    BY <2>4 DEF PubAck, HandlePublish
  <2>5. CASE LinkBreaks
    BY <2>5 DEF LinkBreaks, Fault
  <2> QED BY <1>5, <2>1, <2>2, <2>3, <2>4, <2>5 DEF NetworkStep
<1>6. CASE UNCHANGED vars
  BY <1>6 DEF vars
<1> QED BY <1>1, <1>2, <1>3, <1>4, <1>5, <1>6 DEF Next

\* Storing, removing and delivering a row keep the outbox and the broker's rows
\* in agreement; removal relies on ReplayInv, delivery on LibraryInv.
LEMMA RowsStep ==
    StateTypes /\ RowInv /\ ReplayInv /\ LibraryInv /\ [Next]_vars => RowInv'
<1> SUFFICES ASSUME StateTypes, RowInv, ReplayInv, LibraryInv, [Next]_vars
             PROVE  RowInv'
  OBVIOUS
<1> USE DEF StateTypes, RowInv, NoRowLost, RowsArriveInOrder, mainVars,
            connVars, flagVars, ackVars, threadVars, fwdVars,
            storeVars, netVars, brokerVars
<1>1. CASE MainStep
  <2>1. ASSUME NEW s \in BOOLEAN, SetOfflineStorage(s) PROVE RowInv'
    BY <2>1 DEF SetOfflineStorage
  <2>2. CASE ConnectFails
    BY <2>2 DEF ConnectFails, Fault
  <2>3. CASE ConnectStart
    BY <2>3 DEF ConnectStart
  <2>4. CASE ConnectReturns
    BY <2>4 DEF ConnectReturns
  <2>5. CASE DisconnectBegin
    BY <2>5 DEF DisconnectBegin
  <2>6. CASE DisconnectJoin
    BY <2>6 DEF DisconnectJoin
  <2>7. CASE DisconnectDestroy
    BY <2>7 DEF DisconnectDestroy
  <2>8. CASE CloseStorage
    BY <2>8 DEF CloseStorage
  <2>9. CASE Restart
    BY <2>9 DEF Restart, Fault
  <2> QED BY <1>1, <2>1, <2>2, <2>3, <2>4, <2>5, <2>6, <2>7, <2>8,
             <2>9 DEF MainStep
<1>2. ASSUME NEW f \in Forwarders, NEW m \in Messages, Forward(f, m)
      PROVE  RowInv'
  BY <1>2 DEF Forward, AfterPublish
<1>3. ASSUME NEW f \in Forwarders, ForwarderStep(f) PROVE RowInv'
  <2>1. CASE PublishAccepted(f)
    BY <2>1 DEF PublishAccepted
  <2>2. CASE PublishRefused(f)
    BY <2>2 DEF PublishRefused, Fault
  <2>3. CASE EnqueueMqttMessage(f)
    <3>1. \A r \in outbox : r.id \in Nat
      BY DEF Rows
    <3>2. PICK n : n = [id |-> nextId, msg |-> fwd[f].msg]
      OBVIOUS
    <3>3. n.id = nextId /\ outbox' = outbox \union {n} /\ nextId' = nextId + 1
      BY <2>3, <3>2 DEF EnqueueMqttMessage
    <3>4. (\A r \in outbox : r.id < nextId)'
      BY <3>1, <3>3
    <3>5. (\A q, r \in outbox : q.id = r.id => q = r)'
      BY <3>1, <3>3
    <3>6. NoRowLost'
      <4> SUFFICES ASSUME NEW i \in 1 .. nextId
                   PROVE  i \in receivedRows' \/ \E r \in outbox' : r.id = i
        BY <3>3
      <4>1. CASE i = nextId
        BY <3>3, <4>1
      <4>2. CASE i # nextId
        BY <2>3, <3>3, <4>2 DEF EnqueueMqttMessage
      <4> QED BY <4>1, <4>2
    <3>7. RowsArriveInOrder'
      BY <2>3 DEF EnqueueMqttMessage
    <3>8. (\A i \in receivedRows : i < nextId)'
      BY <2>3, <3>3 DEF EnqueueMqttMessage
    <3> QED BY <3>4, <3>5, <3>6, <3>7, <3>8
  <2>4. CASE EnqueueFails(f)
    BY <2>4 DEF EnqueueFails, Fault
  <2>5. CASE RequestReplay(f)
    BY <2>5 DEF RequestReplay, RequestedAfterEnqueue
  <2> QED BY <1>3, <2>1, <2>2, <2>3, <2>4, <2>5 DEF ForwarderStep
<1>4. CASE ReplayStep
  <2>1. CASE ReplayExits
    BY <2>1 DEF ReplayExits
  <2>2. CASE ReplayStarts
    BY <2>2 DEF ReplayStarts
  <2>3. CASE ReplaySleeps
    BY <2>3 DEF ReplaySleeps
  <2>4. CASE ReplayChecks
    BY <2>4 DEF ReplayChecks
  <2>5. CASE ReplayLoads
    BY <2>5 DEF ReplayLoads
  <2>6. CASE ReplayLoadFails
    BY <2>6 DEF ReplayLoadFails, Fault
  <2>7. CASE ReplayPublishes
    BY <2>7 DEF ReplayPublishes
  <2>8. CASE ReplayPublishFails
    BY <2>8 DEF ReplayPublishFails, Fault
  <2>9. CASE ReplayAwaitEnds
    BY <2>9 DEF ReplayAwaitEnds
  <2>10. CASE ReplayAwaitTimesOut
    BY <2>10 DEF ReplayAwaitTimesOut, Fault
  <2>11. CASE ReplayRemoves
    BY <2>11 DEF ReplayRemoves, ReplayInv, Rows
  <2>12. CASE ReplayRemoveFails
    BY <2>12 DEF ReplayRemoveFails, Fault
  <2>13. CASE ReplayFinishes
    BY <2>13 DEF ReplayFinishes
  <2> QED BY <1>4, <2>1, <2>2, <2>3, <2>4, <2>5, <2>6, <2>7, <2>8, <2>9,
             <2>10, <2>11, <2>12, <2>13 DEF ReplayStep
<1>5. CASE NetworkStep
  <2>1. ASSUME NEW a \in BOOLEAN, HandleConnect(a) PROVE RowInv'
    BY <2>1 DEF HandleConnect, RequestedOnConnect
  <2>2. CASE HandleDisconnect
    BY <2>2 DEF HandleDisconnect
  <2>3. CASE Transmit
    <3>1. PICK p \in outgoing :
            \/ UNCHANGED receivedRows
            \/ p.row # 0 /\ receivedRows' = receivedRows \union {p.row}
      BY <2>3 DEF Transmit
    <3>2. UNCHANGED <<outbox, nextId>>
      BY <2>3 DEF Transmit
    <3>3. /\ p.row \in Nat
          /\ p.row # 0 => p.row < nextId /\ \A j \in 1 .. p.row - 1 : j \in receivedRows
      BY DEF LibraryInv, Publishes
    <3> QED BY <3>1, <3>2, <3>3
  <2>4. CASE PubAck
    BY <2>4 DEF PubAck, HandlePublish
  <2>5. CASE LinkBreaks
    BY <2>5 DEF LinkBreaks, Fault
  <2> QED BY <1>5, <2>1, <2>2, <2>3, <2>4, <2>5 DEF NetworkStep
<1>6. CASE UNCHANGED vars
  BY <1>6 DEF vars
<1> QED BY <1>1, <1>2, <1>3, <1>4, <1>5, <1>6 DEF Next

\* The replay thread only ever sees acknowledgements of the row it loaded.
LEMMA ReplayerStep ==
    FlagTypes /\ StateTypes /\ ThreadInv /\ RowInv /\ ReplayInv /\ LibraryInv /\ [Next]_vars => ReplayInv'
<1> SUFFICES ASSUME FlagTypes, StateTypes, ThreadInv, RowInv, ReplayInv,
LibraryInv, [Next]_vars
             PROVE  ReplayInv'
  OBVIOUS
<1> USE DEF StateTypes, ReplayInv, IsOldest, mainVars, connVars, flagVars,
            ackVars, threadVars, fwdVars,
            storeVars, netVars, brokerVars
<1>1. CASE MainStep
  <2>1. ASSUME NEW s \in BOOLEAN, SetOfflineStorage(s) PROVE ReplayInv'
    BY <2>1 DEF SetOfflineStorage
  <2>2. CASE ConnectFails
    BY <2>2 DEF ConnectFails, Fault
  <2>3. CASE ConnectStart
    BY <2>3 DEF ConnectStart, ThreadInv
  <2>4. CASE ConnectReturns
    BY <2>4 DEF ConnectReturns
  <2>5. CASE DisconnectBegin
    BY <2>5 DEF DisconnectBegin
  <2>6. CASE DisconnectJoin
    BY <2>6 DEF DisconnectJoin
  <2>7. CASE DisconnectDestroy
    BY <2>7 DEF DisconnectDestroy
  <2>8. CASE CloseStorage
    BY <2>8 DEF CloseStorage
  <2>9. CASE Restart
    BY <2>9 DEF Restart, Fault
  <2> QED BY <1>1, <2>1, <2>2, <2>3, <2>4, <2>5, <2>6, <2>7, <2>8,
             <2>9 DEF MainStep
<1>2. ASSUME NEW f \in Forwarders, NEW m \in Messages, Forward(f, m)
      PROVE  ReplayInv'
  BY <1>2 DEF Forward, AfterPublish
<1>3. ASSUME NEW f \in Forwarders, ForwarderStep(f) PROVE ReplayInv'
  <2>1. CASE PublishAccepted(f)
    BY <2>1 DEF PublishAccepted
  <2>2. CASE PublishRefused(f)
    BY <2>2 DEF PublishRefused, Fault
  <2>3. CASE EnqueueMqttMessage(f)
    BY <2>3 DEF EnqueueMqttMessage, RowInv, Rows
  <2>4. CASE EnqueueFails(f)
    BY <2>4 DEF EnqueueFails, Fault
  <2>5. CASE RequestReplay(f)
    BY <2>5 DEF RequestReplay, RequestedAfterEnqueue
  <2> QED BY <1>3, <2>1, <2>2, <2>3, <2>4, <2>5 DEF ForwarderStep
<1>4. CASE ReplayStep
  <2>1. CASE ReplayExits
    BY <2>1 DEF ReplayExits
  <2>2. CASE ReplayStarts
    BY <2>2 DEF ReplayStarts
  <2>3. CASE ReplaySleeps
    BY <2>3 DEF ReplaySleeps
  <2>4. CASE ReplayChecks
    BY <2>4 DEF ReplayChecks
  <2>5. CASE ReplayLoads
    BY <2>5 DEF ReplayLoads
  <2>6. CASE ReplayLoadFails
    BY <2>6 DEF ReplayLoadFails, Fault
  <2>7. CASE ReplayPublishes
    BY <2>7 DEF ReplayPublishes
  <2>8. CASE ReplayPublishFails
    BY <2>8 DEF ReplayPublishFails, Fault
  <2>9. CASE ReplayAwaitEnds
    BY <2>9 DEF ReplayAwaitEnds, AwaitSucceeds
  <2>10. CASE ReplayAwaitTimesOut
    BY <2>10 DEF ReplayAwaitTimesOut, Fault
  <2>11. CASE ReplayRemoves
    BY <2>11 DEF ReplayRemoves
  <2>12. CASE ReplayRemoveFails
    BY <2>12 DEF ReplayRemoveFails, Fault
  <2>13. CASE ReplayFinishes
    BY <2>13 DEF ReplayFinishes
  <2> QED BY <1>4, <2>1, <2>2, <2>3, <2>4, <2>5, <2>6, <2>7, <2>8, <2>9,
             <2>10, <2>11, <2>12, <2>13 DEF ReplayStep
<1>5. CASE NetworkStep
  <2>1. ASSUME NEW a \in BOOLEAN, HandleConnect(a) PROVE ReplayInv'
    BY <2>1 DEF HandleConnect, RequestedOnConnect
  <2>2. CASE HandleDisconnect
    BY <2>2 DEF HandleDisconnect
  <2>3. CASE Transmit
    <3>1. PICK p \in outgoing :
            /\ receivedRows' = receivedRows \/ receivedRows' = receivedRows \union {p.row}
            /\ \/ UNCHANGED replayPublishAcknowledged
               \/ p.row = 0 /\ HandlePublish(p.mid)
      BY <2>3 DEF Transmit
    <3>2. p.mid # 0 /\ (p.mid = replayMessageId => p.row = row.id)
      BY DEF LibraryInv, Publishes
    <3>3. rpc = "await" => row.id # 0
      BY DEF Rows
    <3>4. replayPublishAcknowledged' = replayPublishAcknowledged
      BY <3>1, <3>2, <3>3, Zenon DEF HandlePublish, ReplayInv, FlagTypes
    <3>5. receivedRows \subseteq receivedRows'
      BY <3>1
    <3>6. UNCHANGED <<rpc, row, outbox, replayMessageId>>
      BY <2>3 DEF Transmit, HandlePublish
    <3> QED BY <3>4, <3>5, <3>6
  <2>4. CASE PubAck
    BY <2>4 DEF PubAck, HandlePublish, LibraryInv, Publishes
  <2>5. CASE LinkBreaks
    BY <2>5 DEF LinkBreaks, Fault
  <2> QED BY <1>5, <2>1, <2>2, <2>3, <2>4, <2>5 DEF NetworkStep
<1>6. CASE UNCHANGED vars
  BY <1>6 DEF vars
<1> QED BY <1>1, <1>2, <1>3, <1>4, <1>5, <1>6 DEF Next

\* The library holds nothing that could acknowledge another row, and nothing
\* ahead of the delivered rows.
LEMMA LibraryStep ==
    StateTypes /\ ThreadInv /\ RowInv /\ ReplayInv /\ LibraryInv /\ [Next]_vars => LibraryInv'
<1> SUFFICES ASSUME StateTypes, ThreadInv, RowInv, ReplayInv, LibraryInv,
[Next]_vars
             PROVE  LibraryInv'
  OBVIOUS
<1> USE DEF StateTypes, LibraryInv, Publishes, mainVars, connVars, flagVars,
            ackVars, threadVars, fwdVars,
            storeVars, netVars, brokerVars
<1>1. CASE MainStep
  <2>1. ASSUME NEW s \in BOOLEAN, SetOfflineStorage(s) PROVE LibraryInv'
    BY <2>1 DEF SetOfflineStorage
  <2>2. CASE ConnectFails
    BY <2>2 DEF ConnectFails, Fault
  <2>3. CASE ConnectStart
    BY <2>3 DEF ConnectStart
  <2>4. CASE ConnectReturns
    BY <2>4 DEF ConnectReturns
  <2>5. CASE DisconnectBegin
    BY <2>5 DEF DisconnectBegin
  <2>6. CASE DisconnectJoin
    BY <2>6 DEF DisconnectJoin
  <2>7. CASE DisconnectDestroy
    BY <2>7 DEF DisconnectDestroy, ReplayInv, ThreadInv
  <2>8. CASE CloseStorage
    BY <2>8 DEF CloseStorage
  <2>9. CASE Restart
    BY <2>9 DEF Restart, Fault
  <2> QED BY <1>1, <2>1, <2>2, <2>3, <2>4, <2>5, <2>6, <2>7, <2>8,
             <2>9 DEF MainStep
<1>2. ASSUME NEW f \in Forwarders, NEW m \in Messages, Forward(f, m)
      PROVE  LibraryInv'
  BY <1>2 DEF Forward, AfterPublish
<1>3. ASSUME NEW f \in Forwarders, ForwarderStep(f) PROVE LibraryInv'
  <2>1. CASE PublishAccepted(f)
    BY <2>1 DEF PublishAccepted
  <2>2. CASE PublishRefused(f)
    BY <2>2 DEF PublishRefused, Fault
  <2>3. CASE EnqueueMqttMessage(f)
    BY <2>3 DEF EnqueueMqttMessage
  <2>4. CASE EnqueueFails(f)
    BY <2>4 DEF EnqueueFails, Fault
  <2>5. CASE RequestReplay(f)
    BY <2>5 DEF RequestReplay, RequestedAfterEnqueue
  <2> QED BY <1>3, <2>1, <2>2, <2>3, <2>4, <2>5 DEF ForwarderStep
<1>4. CASE ReplayStep
  <2>1. CASE ReplayExits
    BY <2>1 DEF ReplayExits, ReplayInv
  <2>2. CASE ReplayStarts
    BY <2>2 DEF ReplayStarts
  <2>3. CASE ReplaySleeps
    BY <2>3 DEF ReplaySleeps
  <2>4. CASE ReplayChecks
    BY <2>4 DEF ReplayChecks
  <2>5. CASE ReplayLoads
    BY <2>5 DEF ReplayLoads, ReplayInv
  <2>6. CASE ReplayLoadFails
    BY <2>6 DEF ReplayLoadFails, Fault
  <2>7. CASE ReplayPublishes
    <3>1. PICK n : n = [mid |-> lastMid + 1, row |-> row.id, msg |-> row.msg]
      OBVIOUS
    <3>2. /\ n.mid = lastMid + 1 /\ n.row = row.id
          /\ outgoing' = outgoing \union {n} /\ unacked' = unacked
          /\ replayMessageId' = lastMid + 1 /\ lastMid' = lastMid + 1
          /\ UNCHANGED <<row, nextId, receivedRows>>
      BY <2>7, <3>1 DEF ReplayPublishes
    <3>3. row \in outbox /\ (\A q \in outbox : row.id <= q.id)
      BY <2>7 DEF ReplayPublishes, ReplayInv, IsOldest
    <3>4. row.id \in Nat /\ \A q \in outbox : q.id \in Nat
      BY <3>3 DEF Rows
    <3>5. row.id < nextId /\ \A j \in 1 .. row.id - 1 : j \in receivedRows
      BY <3>3, <3>4 DEF RowInv, NoRowLost
    <3> QED BY <3>2, <3>4, <3>5
  <2>8. CASE ReplayPublishFails
    BY <2>8 DEF ReplayPublishFails, Fault
  <2>9. CASE ReplayAwaitEnds
    BY <2>9 DEF ReplayAwaitEnds
  <2>10. CASE ReplayAwaitTimesOut
    BY <2>10 DEF ReplayAwaitTimesOut, Fault
  <2>11. CASE ReplayRemoves
    BY <2>11 DEF ReplayRemoves
  <2>12. CASE ReplayRemoveFails
    BY <2>12 DEF ReplayRemoveFails, Fault
  <2>13. CASE ReplayFinishes
    BY <2>13 DEF ReplayFinishes, ReplayInv
  <2> QED BY <1>4, <2>1, <2>2, <2>3, <2>4, <2>5, <2>6, <2>7, <2>8, <2>9,
             <2>10, <2>11, <2>12, <2>13 DEF ReplayStep
<1>5. CASE NetworkStep
  <2>1. ASSUME NEW a \in BOOLEAN, HandleConnect(a) PROVE LibraryInv'
    BY <2>1 DEF HandleConnect, RequestedOnConnect
  <2>2. CASE HandleDisconnect
    <3>1. outgoing' \subseteq outgoing \union unacked /\ unacked' = {}
      BY <2>2 DEF HandleDisconnect
    <3>2. UNCHANGED <<replayMessageId, lastMid, row, nextId, receivedRows>>
      BY <2>2 DEF HandleDisconnect
    <3>3. \A p \in unacked : p.row # 0 => p.row < nextId /\ \A j \in 1 .. p.row - 1 : j \in receivedRows
      BY DEF RowInv, RowsArriveInOrder
    <3> QED BY <3>1, <3>2, <3>3
  <2>3. CASE Transmit
    BY <2>3 DEF Transmit, HandlePublish
  <2>4. CASE PubAck
    BY <2>4 DEF PubAck, HandlePublish
  <2>5. CASE LinkBreaks
    BY <2>5 DEF LinkBreaks, Fault
  <2> QED BY <1>5, <2>1, <2>2, <2>3, <2>4, <2>5 DEF NetworkStep
<1>6. CASE UNCHANGED vars
  BY <1>6 DEF vars
<1> QED BY <1>1, <1>2, <1>3, <1>4, <1>5, <1>6 DEF Next

-----------------------------------------------------------------------------
(* Invariance.                                                             *)

\* A freshly started service satisfies the invariant.
LEMMA InvInit == Init => IndInv
<1> SUFFICES ASSUME Init PROVE IndInv
  OBVIOUS
<1> USE DEF Init, VolatileInit
<1>1. FlagTypes
  BY Zenon DEF FlagTypes
<1>2. StateTypes
  BY DEF StateTypes
<1>3. ForwarderTypes
  BY DEF ForwarderTypes, IdleForwarder
<1>4. ThreadInv /\ ReplayInv /\ LibraryInv
  BY DEF ThreadInv, ReplayInv, LibraryInv
<1>5. RowInv
  BY DEF RowInv, NoRowLost, RowsArriveInOrder
<1> QED BY <1>1, <1>2, <1>3, <1>4, <1>5 DEF IndInv, TypeOK

\* Every step of any thread preserves it.
LEMMA InvStep == IndInv /\ [Next]_vars => IndInv'
BY FlagsStep, StatesStep, ForwardersStep, ThreadsStep, RowsStep, ReplayerStep,
   LibraryStep DEF IndInv, TypeOK

\* IndInv is an invariant of the service.
THEOREM Invariance == Spec => []IndInv
BY InvInit, InvStep, PTL DEF Spec

\* Type correctness: no thread ever works on a message or a row it does not
\* hold (replayLoop tests pending.empty() before pending.front()).
THEOREM TypeCorrect == Spec => []TypeOK
<1>1. IndInv => TypeOK
  BY DEF IndInv
<1> QED BY <1>1, Invariance, PTL

\* No row that entered the outbox is lost by forwardMessage(), replayLoop() and
\* the callbacks, whatever fails in between.
THEOREM NoRowIsLost == Spec => []NoRowLost
<1>1. IndInv => NoRowLost
  BY DEF IndInv, RowInv
<1> QED BY <1>1, Invariance, PTL

\* replayLoop() delivers the backlog in the order of its ids.
THEOREM BacklogInOrder == Spec => []RowsArriveInOrder
<1>1. IndInv => RowsArriveInOrder
  BY DEF IndInv, RowInv
<1> QED BY <1>1, Invariance, PTL

\* replayLoop() deletes a row only when it is there and the broker has it.
THEOREM RemovalIsConfirmed == Spec => []RemovesConfirmedRow
<1>1. IndInv => RemovesConfirmedRow
  BY DEF IndInv, ReplayInv, IsOldest, RemovesConfirmedRow
<1> QED BY <1>1, Invariance, PTL

\* connected_ is what the callbacks of the current client last said.
THEOREM ConnectedIsTrue == Spec => []ConnectedTracksSession
<1>1. IndInv => ConnectedTracksSession
  BY DEF IndInv, ThreadInv, ConnectedTracksSession
<1> QED BY <1>1, Invariance, PTL

\* disconnect() leaves no thread behind and nothing is published without one.
THEOREM NoThreadOutlivesClient == Spec => []ThreadLifetimes
<1>1. IndInv => ThreadLifetimes
  BY DEF IndInv, TypeOK, StateTypes, ThreadInv, ThreadLifetimes
<1> QED BY <1>1, Invariance, PTL

-----------------------------------------------------------------------------
(* Refinement.                                                             *)

\* Only three actions are visible in StoreAndForward.
LEMMA OutboxFrame ==
    [Next]_vars => \/ UNCHANGED <<outbox, nextId, receivedRows>>
                   \/ \E f \in Forwarders : EnqueueMqttMessage(f)
                   \/ ReplayRemoves
                   \/ Transmit
<1> USE DEF storeVars, brokerVars
<1>1. MainStep => UNCHANGED <<outbox, nextId, receivedRows>>
  BY DEF MainStep, SetOfflineStorage, ConnectFails, ConnectStart,
         ConnectReturns, DisconnectBegin, DisconnectJoin, DisconnectDestroy,
         CloseStorage, Restart
<1>2. ASSUME NEW f \in Forwarders, NEW m \in Messages, Forward(f, m)
      PROVE  UNCHANGED <<outbox, nextId, receivedRows>>
  BY <1>2 DEF Forward
<1>3. ASSUME NEW f \in Forwarders, ForwarderStep(f)
      PROVE  EnqueueMqttMessage(f) \/ UNCHANGED <<outbox, nextId,
      receivedRows>>
  BY <1>3 DEF ForwarderStep, PublishAccepted, PublishRefused, EnqueueFails,
              RequestReplay
<1>4. ReplayStep => ReplayRemoves \/ UNCHANGED <<outbox, nextId, receivedRows>>
  BY DEF ReplayStep, ReplayExits, ReplayStarts, ReplaySleeps, ReplayChecks,
         ReplayLoads, ReplayLoadFails, ReplayPublishes, ReplayPublishFails,
         ReplayAwaitEnds, ReplayAwaitTimesOut, ReplayRemoveFails,
         ReplayFinishes
<1>5. NetworkStep => Transmit \/ UNCHANGED <<outbox, nextId, receivedRows>>
  BY DEF NetworkStep, HandleConnect, HandleDisconnect, PubAck, LinkBreaks
<1>6. UNCHANGED vars => UNCHANGED <<outbox, nextId, receivedRows>>
  BY DEF vars
<1> QED BY <1>1, <1>2, <1>3, <1>4, <1>5, <1>6 DEF Next

\* Each of them is the step of StoreAndForward it should be.
LEMMA RefinementStep == IndInv /\ [Next]_vars => [Queue!Next]_(Queue!vars)
<1> SUFFICES ASSUME IndInv, [Next]_vars PROVE [Queue!Next]_(Queue!vars)
  OBVIOUS
<1> DEFINE pending == {r.id : r \in outbox}
<1> USE DEF IndInv, TypeOK, StateTypes
<1>1. CASE UNCHANGED <<outbox, nextId, receivedRows>>
  BY <1>1 DEF Queue!vars
<1>2. ASSUME NEW f \in Forwarders, EnqueueMqttMessage(f) PROVE Queue!Store
  <2>1. PICK n : n = [id |-> nextId, msg |-> fwd[f].msg]
    OBVIOUS
  <2>2. n.id = nextId /\ outbox' = outbox \union {n} /\ nextId' = nextId + 1
    BY <1>2, <2>1 DEF EnqueueMqttMessage
  <2>3. receivedRows' = receivedRows
    BY <1>2 DEF EnqueueMqttMessage, brokerVars
  <2>4. pending' = pending \union {nextId}
    BY <2>2
  <2> QED BY <2>2, <2>3, <2>4 DEF Queue!Store
<1>3. CASE ReplayRemoves
  <2>1. row \in outbox /\ (\A q \in outbox : row.id <= q.id)
    BY <1>3 DEF ReplayRemoves, ReplayInv, IsOldest
  <2>2. row.id \in receivedRows
    BY <1>3 DEF ReplayRemoves, ReplayInv
  <2>3. outbox' = outbox \ {row} /\ UNCHANGED <<nextId, receivedRows>>
    BY <1>3 DEF ReplayRemoves, brokerVars
  <2>4. pending' = pending \ {row.id}
    BY <2>1, <2>3 DEF RowInv
  <2>5. row.id \in pending /\ \A j \in pending : row.id <= j
    BY <2>1
  <2>6. PICK i \in pending : i = row.id
    BY <2>5
  <2>7. Queue!Retire(i)
    BY <2>2, <2>3, <2>4, <2>5, <2>6 DEF Queue!Retire
  <2> QED BY <2>7 DEF Queue!Next
<1>4. CASE Transmit
  <2>1. PICK p \in outgoing :
          \/ UNCHANGED receivedRows
          \/ p.row # 0 /\ receivedRows' = receivedRows \union {p.row}
    BY <1>4 DEF Transmit
  <2>2. UNCHANGED <<outbox, nextId>>
    BY <1>4 DEF Transmit, storeVars
  <2>3. CASE UNCHANGED receivedRows
    BY <2>2, <2>3 DEF Queue!vars
  <2>4. CASE p.row \notin receivedRows /\ receivedRows' = receivedRows \union {p.row} /\ p.row # 0
    <3>1. p.row \in Nat /\ p.row < nextId /\ \A j \in 1 .. p.row - 1 : j \in receivedRows
      BY <2>4 DEF LibraryInv, Publishes
    <3>2. p.row \in pending
      BY <2>4, <3>1 DEF RowInv, NoRowLost
    <3>3. Queue!Deliver(p.row)
      BY <2>2, <2>4, <3>1 DEF Queue!Deliver
    <3> QED BY <3>2, <3>3 DEF Queue!Next
  <2> QED BY <2>1, <2>3, <2>4
<1> QED BY <1>1, <1>2, <1>3, <1>4, OutboxFrame DEF Queue!Next

\* The service implements a persistent FIFO queue with at-least-once delivery.
THEOREM Refinement == Spec => ImplementsStoreAndForward
<1>1. Init => Queue!Init
  BY DEF Init, Queue!Init
<1>2. IndInv /\ [Next]_vars => [Queue!Next]_(Queue!vars)
  BY RefinementStep
<1> QED BY <1>1, <1>2, Invariance, PTL
        DEF Spec, ImplementsStoreAndForward, Queue!Spec

-----------------------------------------------------------------------------
(* The backlog is not forgotten.                                           *)

\* The faults that end a replay although the link is healthy; nothing asks for
\* another one then.
EarlyEnds == {"ack", "library", "load", "remove"}

\* ReplayNotForgotten with what the replay thread may be doing instead of
\* waiting: rows that wait while the link is up are being replayed, or a replay
\* is requested (and the thread notified, if it sleeps), or about to be.
WakeInv ==
    outbox # {} /\ connected /\ session = "up" /\ offlineStorage
    => \/ replayRequested /\ (rpc = "wait" => replayNotified)
       \/ \E f \in Forwarders : fwd[f].pc = "request"
       \/ rpc \in {"check", "load", "publish", "await", "remove"}

\* A replay ends with an empty outbox or with the link; a row that comes later
\* brings its own request, and so does the next CONNACK.
LEMMA WakeStep ==
    ASSUME FaultKinds \intersect EarlyEnds = {}, IndInv, WakeInv, [Next]_vars
    PROVE  WakeInv'
<1>1. FlagTypes /\ StateTypes /\ ForwarderTypes /\ ThreadInv /\ ReplayInv
  BY DEF IndInv, TypeOK
<1>2. \A k \in EarlyEnds : ~Fault(k)
  BY DEF Fault
<1> USE DEF WakeInv, mainVars, connVars, flagVars, ackVars, threadVars, fwdVars,
            storeVars, netVars, brokerVars
<1>3. CASE MainStep
  <2>1. ASSUME NEW s \in BOOLEAN, SetOfflineStorage(s) PROVE WakeInv'
    BY <2>1 DEF SetOfflineStorage
  <2>2. CASE ConnectFails
    BY <2>2 DEF ConnectFails
  <2>3. CASE ConnectStart
    BY <2>3 DEF ConnectStart
  <2>4. CASE ConnectReturns
    BY <2>4 DEF ConnectReturns
  <2>5. CASE DisconnectBegin
    BY <2>5 DEF DisconnectBegin
  <2>6. CASE DisconnectJoin
    BY <2>6 DEF DisconnectJoin
  <2>7. CASE DisconnectDestroy
    BY <2>7 DEF DisconnectDestroy
  <2>8. CASE CloseStorage
    BY <2>8 DEF CloseStorage
  <2>9. CASE Restart
    BY <2>9 DEF Restart
  <2> QED BY <1>3, <2>1, <2>2, <2>3, <2>4, <2>5, <2>6, <2>7, <2>8, <2>9 DEF MainStep
<1>4. ASSUME NEW f \in Forwarders, NEW m \in Messages, Forward(f, m)
      PROVE  WakeInv'
  BY <1>1, <1>4 DEF Forward, ForwarderTypes
<1>5. ASSUME NEW f \in Forwarders, ForwarderStep(f) PROVE WakeInv'
  <2>1. CASE PublishAccepted(f)
    BY <1>1, <2>1 DEF PublishAccepted, ForwarderTypes
  <2>2. CASE PublishRefused(f)
    BY <1>1, <2>2 DEF PublishRefused, ForwarderTypes
  <2>3. CASE EnqueueMqttMessage(f)
    BY <1>1, <2>3 DEF EnqueueMqttMessage, ForwarderTypes
  <2>4. CASE EnqueueFails(f)
    BY <1>1, <2>4 DEF EnqueueFails, ForwarderTypes
  <2>5. CASE RequestReplay(f)
    BY <1>1, <2>5 DEF RequestReplay, RequestedAfterEnqueue, ForwarderTypes
  <2> QED BY <1>5, <2>1, <2>2, <2>3, <2>4, <2>5 DEF ForwarderStep
<1>6. CASE ReplayStep
  <2>1. CASE ReplayExits
    BY <1>1, <2>1 DEF ReplayExits, ThreadInv
  <2>2. CASE ReplayStarts
    BY <2>2 DEF ReplayStarts
  <2>3. CASE ReplaySleeps
    BY <2>3 DEF ReplaySleeps, ReplayWakes
  <2>4. CASE ReplayChecks
    BY <2>4 DEF ReplayChecks
  <2>5. CASE ReplayLoads
    BY <2>5 DEF ReplayLoads
  <2>6. CASE ReplayLoadFails
    BY <1>2, <2>6 DEF ReplayLoadFails, EarlyEnds
  <2>7. CASE ReplayPublishes
    BY <2>7 DEF ReplayPublishes
  <2>8. CASE ReplayPublishFails
    BY <1>1, <1>2, <2>8 DEF ReplayPublishFails, EarlyEnds, ThreadInv
  <2>9. CASE ReplayAwaitEnds
    BY <1>1, <2>9 DEF ReplayAwaitEnds, AwaitSucceeds, ThreadInv
  <2>10. CASE ReplayAwaitTimesOut
    BY <1>2, <2>10 DEF ReplayAwaitTimesOut, EarlyEnds
  <2>11. CASE ReplayRemoves
    BY <2>11 DEF ReplayRemoves
  <2>12. CASE ReplayRemoveFails
    BY <1>1, <1>2, <2>12 DEF ReplayRemoveFails, EarlyEnds, ReplayInv, IsOldest
  <2>13. CASE ReplayFinishes
    BY <2>13 DEF ReplayFinishes
  <2> QED BY <1>6, <2>1, <2>2, <2>3, <2>4, <2>5, <2>6, <2>7, <2>8, <2>9,
             <2>10, <2>11, <2>12, <2>13 DEF ReplayStep
<1>7. CASE NetworkStep
  <2>1. ASSUME NEW a \in BOOLEAN, HandleConnect(a) PROVE WakeInv'
    BY <1>1, <2>1 DEF HandleConnect, ConnackIgnored, RequestedOnConnect, ThreadInv
  <2>2. CASE HandleDisconnect
    BY <2>2 DEF HandleDisconnect
  <2>3. CASE Transmit
    BY <2>3 DEF Transmit
  <2>4. CASE PubAck
    BY <2>4 DEF PubAck
  <2>5. CASE LinkBreaks
    BY <2>5 DEF LinkBreaks
  <2> QED BY <1>7, <2>1, <2>2, <2>3, <2>4, <2>5 DEF NetworkStep
<1>8. CASE UNCHANGED vars
  BY <1>8 DEF vars
<1> QED BY <1>3, <1>4, <1>5, <1>6, <1>7, <1>8 DEF Next

\* Under every fault that does not end a replay early (lost links, failed
\* connects and inserts, crashes), a row that waits while the link is up does
\* not depend on the next reconnect to be replayed.
THEOREM BacklogIsNotForgotten ==
    ASSUME FaultKinds \intersect EarlyEnds = {}
    PROVE  Spec => []ReplayNotForgotten
<1>1. Init => WakeInv
  BY DEF Init, WakeInv
<1>2. IndInv /\ WakeInv /\ [Next]_vars => WakeInv'
  BY WakeStep
<1>3. WakeInv => ReplayNotForgotten
  BY DEF WakeInv, ReplayNotForgotten
<1> QED BY <1>1, <1>2, <1>3, Invariance, PTL DEF Spec

=============================================================================
