----------------------------- MODULE SocketCan -----------------------------
(***************************************************************************)
(* The SocketCAN plugin (plugins/socketcan_plugin): how a CAN frame is     *)
(* checked, turned into the kernel's can_frame and back, and the plugin    *)
(* object with its socket.                                                 *)
(*                                                                         *)
(* A 32-bit identifier word is its three topmost bits, which the kernel    *)
(* uses as flags, and the number below them.  A payload is its length.     *)
(***************************************************************************)
EXTENDS Integers

MaxDataLength == 8          \* socketCanClassicMaxDataLength
SffSize == 2048             \* CAN_SFF_MASK + 1, 2^11
EffSize == 536870912        \* CAN_EFF_MASK + 1, 2^29
Flags == {"EFF", "RTR", "ERR"}

\* Identifier words and frames at the edges of what the checks tell apart.
Words ==
    [flags : SUBSET Flags, low : {SffSize - 1, SffSize, EffSize - 1}]

Frames ==
    [id : Words, dataLength : {MaxDataLength, MaxDataLength + 1},
     extended : BOOLEAN, remoteTransmissionRequest : BOOLEAN]

\* Mutant of IsValidFrame: the limit of a standard identifier is one too high.
IsValidFrame_OffByOne(f) ==
    /\ f.dataLength <= MaxDataLength
    /\ f.id.flags = {} /\ f.id.low <= IF f.extended THEN EffSize - 1 ELSE SffSize

\* isValidFrame(): id <= mask, as a comparison of 32-bit numbers.
IsValidFrame(f) ==
    /\ f.dataLength <= MaxDataLength
    /\ f.id.flags = {} /\ f.id.low <= (IF f.extended THEN EffSize ELSE SffSize) - 1

\* What sendFrame() writes: the flags are or-ed into the identifier, and
\* can_frame has room for MaxDataLength bytes.
Encode(f) ==
    [can_id |-> [f.id EXCEPT !.flags =
                    @ \union (IF f.extended THEN {"EFF"} ELSE {})
                      \union (IF f.remoteTransmissionRequest THEN {"RTR"} ELSE {})],
     can_dlc |-> IF f.dataLength <= MaxDataLength THEN f.dataLength ELSE MaxDataLength]

\* receiveFrame() reports an error frame as an error.
Receives(k) == "ERR" \notin k.can_id.flags

\* What it makes of any other frame: the flags are taken out of the identifier.
Decode(k) ==
    LET extended == "EFF" \in k.can_id.flags
    IN [id |-> [flags |-> {}, low |-> IF extended THEN k.can_id.low
                                      ELSE k.can_id.low % SffSize],
        dataLength |-> k.can_dlc, extended |-> extended,
        remoteTransmissionRequest |-> "RTR" \in k.can_id.flags]

-----------------------------------------------------------------------------
(* SocketCanPlugin with its SocketCanTransport.  Each function is complete *)
(* when it returns; a failed connect() has closed its socket again.        *)

NewCan == [initialized |-> FALSE, open |-> FALSE]

\* start(), up: the interface can be found and bound.
StartCan(c, up) == [initialized |-> TRUE, open |-> c.open \/ up]

StopCan(c) == [c EXCEPT !.open = FALSE]

\* sendFrame() of a socket that the kernel takes frames from.
SendFrame(c, f) == c.open /\ IsValidFrame(f)

\* The frames that another node, reading with receiveFrame(), gets as they were
\* meant.
SurvivingFrames ==
    {f \in Frames : Receives(Encode(f)) /\ Decode(Encode(f)) = f}

=============================================================================
