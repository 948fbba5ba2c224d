------------------------- MODULE SharedMemoryBridge -------------------------
(***************************************************************************)
(* One-slot messaging between two processes: a sender copies an encoded    *)
(* message into POSIX shared memory and then adds to an eventfd            *)
(* (SharedMemoryMessageBridge::send); the receiver's event loop reads the  *)
(* counter, copies the slot, decodes and publishes it (handleRead,         *)
(* handleNotification, SharedMemoryBuffer::read).  There is no lock on the *)
(* slot, so each memory access of one side is an action.  A message is     *)
(* encoded to the cells of IpcMessageCodec; memcpy moves them in chunks of *)
(* ChunkSize, in any order.  The sender's sends follow one another.        *)
(***************************************************************************)
EXTENDS IpcMessageCodec, FiniteSets

CONSTANTS
    Messages,     \* what is sent: records as Decode makes them
    NoMsg,
    Capacity,     \* cells the slot can hold
    ChunkSize,    \* cells memcpy moves at once
    MaxCounter,   \* where eventfd's counter would overflow (2^64 - 2)
    MaxSends,     \* bound: how many messages are sent
    MaxSyncErrors \* bound: how often msync fails

ASSUME CapacityAssumption ==
    /\ Capacity \in Nat \ {0} /\ ChunkSize \in Nat \ {0}
    /\ MaxCounter \in Nat \ {0}
ASSUME BoundsAssumption == MaxSends \in Nat /\ MaxSyncErrors \in Nat
\* A message is a Message: names, a Quality, a timestamp and a TagValue.
ASSUME MessageAssumption ==
    /\ NoMsg \notin Messages
    /\ \A m \in Messages :
         /\ m \in [topic : Seq(Nat), deviceId : Seq(Nat), tagName : Seq(Nat), type : 0 .. 12,
                   value : Seq(Nat), quality : Nat, timestamp : Nat]
         /\ DecodableValue(m.type, m.value)

VARIABLES
    shm,        \* the object: "absent", "named", "sized", "fields", "ready"
    opened,     \* the sender's open(): "no", "early" (before "ready"), "yes"
    cells,      \* the data area
    dataSize,   \* header->dataSize
    counter,    \* the eventfd
    spc,        \* the step of send() to come, "idle" outside it
    sending,    \* its message
    copied,     \* chunks of it copied in
    running,    \* the bridge is started: the notifier has its callback
    rpc,        \* the receiver: "idle", "header", "copy", "decode"
    length,     \* dataSize as it has read it
    output,     \* the cells it has copied out
    taken,      \* chunks of them
    forwarded,  \* what it published last, NoMsg before
    expected,   \* the last send() returned true with the bridge running
    sends, syncErrors

slot == <<cells, dataSize>>
sender == <<spc, sending, copied>>
receiver == <<rpc, length, output, taken, forwarded>>
bounds == <<sends, syncErrors>>
vars == <<shm, opened, slot, counter, sender, running, receiver, expected, bounds>>

Size(m) == Len(Encode(m))
Zeros(n) == [i \in 1 .. n |-> 0]

\* The chunks of n cells, by number, and the cells of a chunk.
Chunks(n) == {k \in 1 .. n : (k - 1) * ChunkSize < n}
InChunk(i, k) == (i - 1) \div ChunkSize + 1 = k

Init ==
    /\ shm = "absent" /\ opened = "no" /\ cells = Zeros(Capacity) /\ dataSize = 0
    /\ counter = 0
    /\ spc = "idle" /\ sending = NoMsg /\ copied = {}
    /\ running = FALSE
    /\ rpc = "idle" /\ length = 0 /\ output = <<>> /\ taken = {}
    /\ forwarded = NoMsg /\ expected = FALSE
    /\ sends = 0 /\ syncErrors = 0

-----------------------------------------------------------------------------
(* SharedMemoryBuffer: create() by the receiver, open() by the sender.     *)

\* create(): shm_open, ftruncate, magic / version / capacity, then dataSize.
Create ==
    /\ \/ shm = "absent" /\ shm' = "named" /\ UNCHANGED dataSize
       \/ shm = "named" /\ shm' = "sized" /\ UNCHANGED dataSize
       \/ shm = "sized" /\ shm' = "fields" /\ UNCHANGED dataSize
       \/ shm = "fields" /\ shm' = "ready" /\ dataSize' = 0
    /\ UNCHANGED <<opened, cells, counter, sender, running, receiver, expected,
                   bounds>>

\* hasValidHeader(): magic, version and capacity are there (dataSize is 0 in
\* fresh memory).
HasValidHeader == shm \in {"fields", "ready"} /\ dataSize <= Capacity

Open ==
    /\ opened = "no" /\ HasValidHeader
    /\ opened' = IF shm = "ready" THEN "yes" ELSE "early"
    /\ UNCHANGED <<shm, slot, counter, sender, running, receiver, expected, bounds>>

-----------------------------------------------------------------------------
(* The sender.                                                             *)

\* Mutant of StepAfter: the notification goes out before the data is there.
StepAfter_NotifyFirst ==
    [idle |-> "notify", notify |-> "copy", copy |-> "size", size |-> "sync",
     sync |-> "idle"]

\* The order of the steps of send(): write() with its copy, its length and its
\* msync, then notify().
StepAfter ==
    [idle |-> "copy", copy |-> "size", size |-> "sync", sync |-> "notify",
     notify |-> "idle"]

\* write() refuses what is larger than the slot.
Fits(m) == Size(m) <= Capacity

Send(m) ==
    /\ spc = "idle" /\ opened # "no" /\ sends < MaxSends
    /\ Encodable(m) /\ Fits(m)
    /\ sends' = sends + 1
    /\ spc' = StepAfter["idle"] /\ sending' = m /\ copied' = {}
    /\ expected' = FALSE
    /\ UNCHANGED <<shm, opened, slot, counter, running, receiver, syncErrors>>

\* memcpy into the data area
CopyChunk ==
    /\ spc = "copy"
    /\ \E k \in Chunks(Size(sending)) \ copied :
         /\ copied' = copied \union {k}
         /\ cells' = [i \in DOMAIN cells |->
                        IF i <= Size(sending) /\ InChunk(i, k)
                        THEN Encode(sending)[i] ELSE cells[i]]
    /\ spc' = IF copied' = Chunks(Size(sending)) THEN StepAfter["copy"] ELSE "copy"
    /\ UNCHANGED <<shm, opened, dataSize, counter, sending, running, receiver,
                   expected, bounds>>

SetDataSize ==
    /\ spc = "size"
    /\ dataSize' = Size(sending)
    /\ spc' = StepAfter["size"]
    /\ UNCHANGED <<shm, opened, cells, counter, sending, copied, running,
                   receiver, expected, bounds>>

\* msync; when it fails, send() returns false without a notification.
Sync ==
    /\ spc = "sync"
    /\ \/ spc' = StepAfter["sync"] /\ UNCHANGED syncErrors
       \/ /\ syncErrors < MaxSyncErrors /\ syncErrors' = syncErrors + 1
          /\ spc' = "idle"
    /\ UNCHANGED <<shm, opened, slot, counter, sending, copied, running,
                   receiver, expected, sends>>

\* EventFdNotifier::notify(): false when the counter would overflow.
Notify ==
    /\ spc = "notify"
    /\ spc' = StepAfter["notify"]
    /\ \/ /\ counter < MaxCounter /\ counter' = counter + 1
          /\ expected' = (running /\ opened = "yes")
       \/ counter = MaxCounter /\ UNCHANGED <<counter, expected>>
    /\ UNCHANGED <<shm, opened, slot, sending, copied, running, receiver, bounds>>

-----------------------------------------------------------------------------
(* The receiver, all in the thread of its event loop.                      *)

\* start(): the buffer is open, i.e. create() has returned.
Start ==
    /\ rpc = "idle" /\ ~running /\ shm = "ready"
    /\ running' = TRUE
    /\ UNCHANGED <<shm, opened, slot, counter, sender, receiver, expected, bounds>>

\* stop(): the callback is cleared; notifications are then read and ignored.
Stop ==
    /\ rpc = "idle" /\ running
    /\ running' = FALSE /\ expected' = FALSE
    /\ UNCHANGED <<shm, opened, slot, counter, sender, receiver, bounds>>

\* Mutant of HandleRead: a single notification is not worth waking up for.
HandleRead_NeedsTwo ==
    /\ rpc = "idle" /\ counter > 1
    /\ counter' = 0
    /\ rpc' = IF running THEN "header" ELSE "idle"
    /\ UNCHANGED <<shm, opened, slot, sender, running, length, output, taken,
                   forwarded, expected, bounds>>

\* handleRead(): the counter is read and reset in one system call.
HandleRead ==
    /\ rpc = "idle" /\ counter > 0
    /\ counter' = 0
    /\ rpc' = IF running THEN "header" ELSE "idle"
    /\ UNCHANGED <<shm, opened, slot, sender, running, length, output, taken,
                   forwarded, expected, bounds>>

\* read(): header check and length; an empty slot is not copied.
ReadHeader ==
    /\ rpc = "header"
    /\ length' = dataSize /\ output' = Zeros(dataSize) /\ taken' = {}
    /\ rpc' = IF dataSize > 0 THEN "copy" ELSE "decode"
    /\ UNCHANGED <<shm, opened, slot, counter, sender, running, forwarded,
                   expected, bounds>>

\* memcpy out of the data area
ReadChunk ==
    /\ rpc = "copy"
    /\ \E k \in Chunks(length) \ taken :
         /\ taken' = taken \union {k}
         /\ output' = [i \in 1 .. length |->
                         IF InChunk(i, k) THEN cells[i] ELSE output[i]]
    /\ rpc' = IF taken' = Chunks(length) THEN "decode" ELSE "copy"
    /\ UNCHANGED <<shm, opened, slot, counter, sender, running, length,
                   forwarded, expected, bounds>>

\* handleNotification(): what can be decoded is published.
Publish ==
    /\ rpc = "decode"
    /\ rpc' = "idle" /\ length' = 0 /\ output' = <<>> /\ taken' = {}
    /\ forwarded' = IF Decodable(output) THEN Decode(output) ELSE forwarded
    /\ UNCHANGED <<shm, opened, slot, counter, sender, running, expected, bounds>>

-----------------------------------------------------------------------------
SenderStep == CopyChunk \/ SetDataSize \/ Sync \/ Notify
ReceiverStep == HandleRead \/ ReadHeader \/ ReadChunk \/ Publish

Next == \/ Create \/ Open \/ (\E m \in Messages : Send(m)) \/ SenderStep
        \/ Start \/ Stop \/ ReceiverStep

Spec == Init /\ [][Next]_vars

\* Both processes run; nobody has to create, send, start or stop.
FairSpec == Spec /\ WF_vars(SenderStep) /\ WF_vars(ReceiverStep)

-----------------------------------------------------------------------------
(* Properties.                                                             *)

\* Types; in particular the length in the header never exceeds the slot, which
\* is what keeps the receiver's copy inside the mapping.
TypeOK ==
    /\ shm \in {"absent", "named", "sized", "fields", "ready"}
    /\ opened \in {"no", "early", "yes"}
    /\ cells \in [1 .. Capacity -> Nat] /\ output \in Seq(Nat)
    /\ dataSize \in 0 .. Capacity /\ length \in 0 .. Capacity
    /\ copied \subseteq Chunks(Capacity) /\ taken \subseteq Chunks(length)
    /\ counter \in 0 .. MaxCounter
    /\ spc \in {"idle", "copy", "size", "sync", "notify"}
    /\ sending \in Messages \union {NoMsg}
    /\ running \in BOOLEAN /\ expected \in BOOLEAN
    /\ rpc \in {"idle", "header", "copy", "decode"}
    /\ sends \in Nat /\ syncErrors \in Nat

\* The latest message gets through: when both sides have come to rest after a
\* send() that returned true, the receiver has published exactly that message,
\* however many notifications were merged and whatever was torn on the way.
LatestIsForwarded ==
    expected /\ spc = "idle" /\ rpc = "idle" /\ counter = 0 => forwarded = sending

\* And it does come to rest: a sent message is published, unless the next
\* send() begins or the bridge is stopped.
LatestGetsThrough ==
    \A m \in Messages : (expected /\ sending = m) ~> (forwarded = m \/ ~expected)

\* Whatever is published is well formed, also when it was put together from
\* parts of several messages: decode() lets nothing through that no process
\* could have made.
OnlyValidIsPublished ==
    TypeOK /\ (forwarded # NoMsg => WellFormed(forwarded))

\* "从共享内存复制当前保存的完整数据" (include/edgelink/shared_memory_buffer.h:64): what
\* read() copies out is a complete message, or nothing.
ReadsCompleteData ==
    rpc = "decode" /\ length > 0 => \E m \in Messages : output = Encode(m)

=============================================================================
