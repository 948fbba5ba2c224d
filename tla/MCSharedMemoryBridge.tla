------------------------ MODULE MCSharedMemoryBridge ------------------------
(* A slot of 15 cells that memcpy moves in three chunks, the second of which *)
(* has the length fields; messages of different shapes, one that fills the *)
(* slot, one that is too long and one that cannot be encoded.              *)
EXTENDS SharedMemoryBridge

MCMessage(topic, deviceId, tagName, type, value) ==
    [topic |-> topic, deviceId |-> deviceId, tagName |-> tagName, type |-> type,
     value |-> value, quality |-> type % 2, timestamp |-> type]

MCMessages ==
    {MCMessage(<<1>>, <<2, 2>>, <<>>, 1, <<1>>),        \* 13 cells, bool
     MCMessage(<<3>>, <<>>, <<4>>, 3, <<200, 7>>),      \* 13 cells, int16
     MCMessage(<<5, 5>>, <<6>>, <<7>>, 12, <<8, 9>>),   \* 15 cells, string
     MCMessage(<<5, 5>>, <<6, 6>>, <<7>>, 12, <<8, 9>>),
     MCMessage(<<>>, <<6>>, <<7>>, 0, <<>>)}

=============================================================================
