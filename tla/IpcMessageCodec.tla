--------------------------- MODULE IpcMessageCodec ---------------------------
(***************************************************************************)
(* The binary format of messages between processes                         *)
(* (src/ipc_message_codec.cpp): a header of nine fixed-width fields, then  *)
(* topic, device id, tag name and value, whose lengths are in the header.  *)
(* An encoded message is a sequence of cells; a cell is a header field or  *)
(* one byte.  A value is the index of its type in the variant TagValue and *)
(* the bytes of its representation, which both sides copy as they are.     *)
(***************************************************************************)
EXTENDS Integers, Sequences

MessageMagic == 1162628435  \* 0x454C4D53
MessageVersion == 1
HeaderCells == 9

\* Quality::Disconnected, the last of the enumeration
LastQuality == 4

\* Bytes of a number, by type index: bool, int8 .. int64, uint8 .. uint64,
\* float, double.  Index 0 is the empty value and 12 a string.
Width == <<1, 1, 2, 4, 8, 1, 2, 4, 8, 4, 8>>

\* Mutant of DecodableValue: the length of a number is not compared.
DecodableValue_AnyLength(type, bytes) ==
    \/ type = 0 /\ bytes = <<>>
    \/ type \in 1 .. 11
    \/ type = 12

\* decodeValue() accepts the bytes for the type.
DecodableValue(type, bytes) ==
    \/ type = 0 /\ bytes = <<>>
    \/ type = 1 /\ bytes \in {<<0>>, <<1>>}
    \/ type \in 2 .. 11 /\ Len(bytes) = Width[type]
    \/ type = 12

\* encode() refuses a message without a topic or with a quality out of range.
Encodable(m) == m.topic # <<>> /\ m.quality <= LastQuality

Encode(m) ==
    <<MessageMagic, MessageVersion, m.type, m.quality, m.timestamp,
      Len(m.topic), Len(m.deviceId), Len(m.tagName), Len(m.value)>>
        \o m.topic \o m.deviceId \o m.tagName \o m.value

\* readString(): n cells from position i.
Field(cells, i, n) == SubSeq(cells, i, i + n - 1)

\* What decode() makes of cells: the length fields cut the rest up, and the
\* value is what is left.
Decode(cells) ==
    LET device == HeaderCells + 1 + cells[6]
        tag == device + cells[7]
        value == tag + cells[8]
    IN [topic |-> Field(cells, HeaderCells + 1, cells[6]),
        deviceId |-> Field(cells, device, cells[7]),
        tagName |-> Field(cells, tag, cells[8]),
        type |-> cells[3], value |-> SubSeq(cells, value, Len(cells)),
        quality |-> cells[4], timestamp |-> cells[5]]

\* The tests of decode(): header, quality, lengths against the size of the
\* input, a topic, and a value that fits its type.
Decodable(cells) ==
    /\ Len(cells) >= HeaderCells
    /\ cells[1] = MessageMagic /\ cells[2] = MessageVersion
    /\ cells[4] <= LastQuality
    /\ cells[6] > 0
    /\ HeaderCells + cells[6] + cells[7] + cells[8] + cells[9] = Len(cells)
    /\ DecodableValue(cells[3], Decode(cells).value)

\* A message any process may have made: what a TagValue and a Quality can be.
WellFormed(m) ==
    /\ m.topic # <<>> /\ m.quality \in 0 .. LastQuality
    /\ \/ m.type \in 1 .. 11 /\ Len(m.value) = Width[m.type]
       \/ m.type = 0 /\ m.value = <<>>
       \/ m.type = 12
    /\ m.type = 1 => m.value \in {<<0>>, <<1>>}

=============================================================================
