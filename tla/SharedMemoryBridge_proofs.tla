---------------------- MODULE SharedMemoryBridge_proofs ----------------------
(***************************************************************************)
(* Proofs about the shared memory bridge, for any messages, any capacity   *)
(* of the slot, any granularity of memcpy and any limit of the eventfd.    *)
(*                                                                         *)
(* First the codec: what decode() accepts is well formed, and decode()     *)
(* undoes encode().  Then the invariant: what the sender has put into the  *)
(* slot so far (WriterInv), what the receiver holds (ReaderInv), and that  *)
(* the latest message is still in the slot and on its way (LatestInv).     *)
(***************************************************************************)
EXTENDS SharedMemoryBridge, SequenceTheorems, TLAPS

Cells == Seq(Nat)

-----------------------------------------------------------------------------
(* Sequences of cells.                                                     *)

\* A part of some cells.
LEMMA PartType ==
    ASSUME NEW s \in Cells, NEW a \in Nat \ {0}, NEW b \in Nat, a <= b + 1, b <= Len(s)
    PROVE  /\ SubSeq(s, a, b) \in Cells /\ Len(SubSeq(s, a, b)) = b + 1 - a
           /\ \A i \in 1 .. b + 1 - a : SubSeq(s, a, b)[i] = s[a + i - 1]
<1> USE DEF Cells
<1>1. Len(s) \in Nat /\ a \in Int /\ b \in Int
  BY LenProperties
<1>2. \A i \in a .. b : s[i] \in Nat
  BY <1>1, ElementOfSeq
<1>3. SubSeq(s, a, b) \in Seq(Nat)
  BY <1>1, <1>2, SubSeqProperties
<1>4. Len(SubSeq(s, a, b)) = IF a <= b THEN b - a + 1 ELSE 0
  BY <1>1, <1>2, SubSeqProperties
<1>5. \A i \in 1 .. b - a + 1 : SubSeq(s, a, b)[i] = s[a + i - 1]
  BY <1>1, <1>2, SubSeqProperties
<1>6. Len(SubSeq(s, a, b)) = b + 1 - a
  BY <1>1, <1>4
<1>7. \A i \in 1 .. b + 1 - a : SubSeq(s, a, b)[i] = s[a + i - 1]
  BY <1>1, <1>5
<1> QED
  BY <1>3, <1>6, <1>7

\* Concatenation of cells.
LEMMA CellsConcat ==
    ASSUME NEW s \in Cells, NEW t \in Cells
    PROVE  /\ s \o t \in Cells /\ Len(s \o t) = Len(s) + Len(t)
           /\ \A i \in 1 .. Len(s) : (s \o t)[i] = s[i]
           /\ \A i \in 1 .. Len(t) : (s \o t)[Len(s) + i] = t[i]
<1>1. Len(s) \in Nat /\ Len(t) \in Nat
  BY LenProperties DEF Cells
<1>2. /\ s \o t \in Cells /\ Len(s \o t) = Len(s) + Len(t)
      /\ \A i \in 1 .. Len(s) + Len(t) :
           (s \o t)[i] = IF i <= Len(s) THEN s[i] ELSE t[i - Len(s)]
  BY ConcatProperties DEF Cells
<1>3. \A i \in 1 .. Len(s) : (s \o t)[i] = s[i]
  BY <1>1, <1>2
<1>4. ASSUME NEW i \in 1 .. Len(t)
      PROVE  (s \o t)[Len(s) + i] = t[i]
  <2>1. /\ Len(s) + i \in 1 .. Len(s) + Len(t) /\ ~(Len(s) + i <= Len(s))
        /\ Len(s) + i - Len(s) = i
    BY <1>1, <1>4
  <2> QED
    BY <1>2, <2>1
<1> QED
  BY <1>2, <1>3, <1>4

\* A part of the first sequence is that part of the whole.
LEMMA PartOfFirst ==
    ASSUME NEW s \in Cells, NEW t \in Cells, NEW a \in Nat \ {0}, NEW b \in Nat,
           a <= b + 1, b <= Len(s)
    PROVE  SubSeq(s \o t, a, b) = SubSeq(s, a, b)
<1> DEFINE st == s \o t
           left == SubSeq(st, a, b)
           right == SubSeq(s, a, b)
<1>1. Len(s) \in Nat /\ Len(t) \in Nat
  BY LenProperties DEF Cells
<1>2. /\ st \in Cells /\ Len(st) = Len(s) + Len(t)
      /\ \A i \in 1 .. Len(s) : st[i] = s[i]
  BY CellsConcat
<1> HIDE DEF st
<1>3. b <= Len(st)
  BY <1>1, <1>2
<1>4. /\ left \in Cells /\ Len(left) = b + 1 - a
      /\ \A i \in 1 .. b + 1 - a : left[i] = st[a + i - 1]
  BY <1>2, <1>3, PartType
<1>5. /\ right \in Cells /\ Len(right) = b + 1 - a
      /\ \A i \in 1 .. b + 1 - a : right[i] = s[a + i - 1]
  BY PartType
<1> HIDE DEF left, right
<1>6. \A i \in 1 .. b + 1 - a : a + i - 1 \in 1 .. Len(s)
  BY <1>1
<1>7. \A i \in 1 .. Len(left) : left[i] = right[i]
  BY <1>2, <1>4, <1>5, <1>6
<1>8. left = right
  BY <1>4, <1>5, <1>7, SeqEqual DEF Cells
<1> QED
  BY <1>8 DEF left, right, st

\* The part behind the first sequence is the second.
LEMMA PartIsSecond ==
    ASSUME NEW s \in Cells, NEW t \in Cells
    PROVE  SubSeq(s \o t, Len(s) + 1, Len(s) + Len(t)) = t
<1> DEFINE st == s \o t
           left == SubSeq(st, Len(s) + 1, Len(s) + Len(t))
<1>1. Len(s) \in Nat /\ Len(t) \in Nat
  BY LenProperties DEF Cells
<1>2. /\ st \in Cells /\ Len(st) = Len(s) + Len(t)
      /\ \A i \in 1 .. Len(t) : st[Len(s) + i] = t[i]
  BY CellsConcat
<1> HIDE DEF st
<1>3. /\ Len(s) + 1 \in Nat \ {0} /\ Len(s) + Len(t) \in Nat
      /\ Len(s) + 1 <= Len(s) + Len(t) + 1 /\ Len(s) + Len(t) <= Len(st)
  BY <1>1, <1>2
<1>4. /\ left \in Cells /\ Len(left) = Len(s) + Len(t) + 1 - (Len(s) + 1)
      /\ \A i \in 1 .. Len(s) + Len(t) + 1 - (Len(s) + 1) : left[i] = st[Len(s) + 1 + i - 1]
  BY <1>2, <1>3, PartType
<1> HIDE DEF left
<1>5. /\ Len(left) = Len(t)
      /\ \A i \in 1 .. Len(t) : left[i] = st[Len(s) + i]
  BY <1>1, <1>4
<1>6. \A i \in 1 .. Len(left) : left[i] = t[i]
  BY <1>2, <1>5
<1>7. left = t
  BY <1>4, <1>5, <1>6, SeqEqual DEF Cells
<1> QED
  BY <1>7 DEF left, st

-----------------------------------------------------------------------------
(* The codec.                                                              *)

MessageType ==
    [topic : Seq(Nat), deviceId : Seq(Nat), tagName : Seq(Nat), type : 0 .. 12,
     value : Seq(Nat), quality : Nat, timestamp : Nat]

\* The nine header fields of a message.
Header(m) ==
    <<MessageMagic, MessageVersion, m.type, m.quality, m.timestamp,
      Len(m.topic), Len(m.deviceId), Len(m.tagName), Len(m.value)>>

\* decode() accepts nothing that is not well formed.
LEMMA DecodedIsWellFormed ==
    ASSUME NEW c \in Cells, Decodable(c)
    PROVE  WellFormed(Decode(c))
<1> DEFINE d == Decode(c)
<1>1. /\ Len(c) \in Nat /\ Len(c) >= 9 /\ c[4] <= 4 /\ c[6] > 0
      /\ 9 + c[6] + c[7] + c[8] + c[9] = Len(c)
      /\ DecodableValue(c[3], d.value)
  BY LenProperties DEF Decodable, HeaderCells, LastQuality, Cells
<1>2. c[3] \in Nat /\ c[4] \in Nat /\ c[6] \in Nat /\ c[7] \in Nat /\ c[8] \in Nat /\ c[9] \in Nat
  <2>1. \A i \in 1 .. 9 : i \in 1 .. Len(c)
    BY <1>1
  <2>2. \A i \in 1 .. 9 : c[i] \in Nat
    BY <2>1, ElementOfSeq DEF Cells
  <2> QED
    BY <2>2
<1>3. /\ d.topic = SubSeq(c, 10, 10 + c[6] - 1) /\ d.quality = c[4] /\ d.type = c[3]
  <2>1. d.topic = SubSeq(c, 9 + 1, 9 + 1 + c[6] - 1)
    BY Zenon DEF Decode, Field, HeaderCells
  <2>2. d.quality = c[4] /\ d.type = c[3]
    BY Zenon DEF Decode
  <2> QED
    BY <2>1, <2>2
<1> HIDE DEF d
<1>4. d.topic # <<>>
  <2>1. 10 + c[6] - 1 \in Nat /\ 10 <= 10 + c[6] - 1 + 1 /\ 10 + c[6] - 1 <= Len(c)
    <3> DEFINE n6 == c[6]
               n7 == c[7]
               n8 == c[8]
               n9 == c[9]
               n == Len(c)
    <3>1. /\ n6 \in Nat /\ n7 \in Nat /\ n8 \in Nat /\ n9 \in Nat /\ n \in Nat /\ n6 > 0
          /\ 9 + n6 + n7 + n8 + n9 = n
      BY <1>1, <1>2
    <3> HIDE DEF n6, n7, n8, n9, n
    <3>2. 10 + n6 - 1 \in Nat /\ 10 <= 10 + n6 - 1 + 1 /\ 10 + n6 - 1 <= n
      BY <3>1
    <3> QED
      BY <3>2 DEF n6, n
  <2>2. Len(d.topic) = 10 + c[6] - 1 + 1 - 10
    BY <1>3, <2>1, PartType
  <2>3. Len(d.topic) > 0
    BY <1>1, <1>2, <2>2
  <2> QED
    BY <2>3, EmptySeq
<1>5. d.quality \in 0 .. LastQuality
  <2>1. c[4] <= 4 /\ c[4] \in Nat
    BY <1>1, <1>2
  <2>2. c[4] \in 0 .. 4
    BY <2>1
  <2> QED
    BY <1>3, <2>2 DEF LastQuality
<1>6. \/ d.type \in 1 .. 11 /\ Len(d.value) = Width[d.type]
      \/ d.type = 0 /\ d.value = <<>>
      \/ d.type = 12
  <2>1. CASE d.type = 1 /\ d.value \in {<<0>>, <<1>>}
    BY <2>1 DEF Width
  <2>2. CASE d.type # 1
    BY <1>1, <1>3, <2>2 DEF DecodableValue
  <2> QED
    BY <1>1, <1>3, <2>1, <2>2 DEF DecodableValue
<1>7. d.type = 1 => d.value \in {<<0>>, <<1>>}
  BY <1>1, <1>3 DEF DecodableValue
<1> QED
  BY <1>4, <1>5, <1>6, <1>7 DEF WellFormed, d

\* The shape of an encoded message: where its header and its four parts are.
LEMMA EncodeShape ==
    ASSUME NEW m \in MessageType
    PROVE  LET e == Encode(m)
               t == 9 + Len(m.topic)
               d == t + Len(m.deviceId)
               g == d + Len(m.tagName)
               v == g + Len(m.value)
           IN /\ e \in Cells /\ Len(e) = v
              /\ \A i \in 1 .. 9 : e[i] = Header(m)[i]
              /\ SubSeq(e, 10, t) = m.topic
              /\ SubSeq(e, t + 1, d) = m.deviceId
              /\ SubSeq(e, d + 1, g) = m.tagName
              /\ SubSeq(e, g + 1, v) = m.value
<1> DEFINE T == m.topic
           D == m.deviceId
           G == m.tagName
           V == m.value
           h == Header(m)
           ht == h \o T
           hd == ht \o D
           hg == hd \o G
           e == hg \o V
           t == 9 + Len(T)
           d == t + Len(D)
           g == d + Len(G)
           v == g + Len(V)
<1>1. T \in Cells /\ D \in Cells /\ G \in Cells /\ V \in Cells
  BY DEF MessageType, Cells
<1>2. Len(T) \in Nat /\ Len(D) \in Nat /\ Len(G) \in Nat /\ Len(V) \in Nat
  BY <1>1, LenProperties DEF Cells
<1>3. h \in Cells /\ Len(h) = 9
  <2>1. /\ m.type \in Nat /\ m.quality \in Nat /\ m.timestamp \in Nat
    BY DEF MessageType
  <2> QED
    BY <1>2, <2>1 DEF Header, Cells, MessageMagic, MessageVersion
<1>4. Encode(m) = e
  BY DEF Encode, Header
<1> HIDE DEF T, D, G, V, h
<1>5. ht \in Cells /\ Len(ht) = t /\ \A i \in 1 .. 9 : ht[i] = h[i]
  <2>1. /\ h \o T \in Cells /\ Len(h \o T) = Len(h) + Len(T)
        /\ \A i \in 1 .. Len(h) : (h \o T)[i] = h[i]
    BY <1>1, <1>3, CellsConcat
  <2> QED
    BY <1>3, <2>1, Zenon
<1>6. SubSeq(ht, 10, t) = T
  <2>1. SubSeq(h \o T, 9 + 1, 9 + Len(T)) = T
    BY <1>1, <1>3, PartIsSecond
  <2> QED
    <3>1. 9 + 1 = 10 /\ 9 + Len(T) = t
      OBVIOUS
    <3> QED
      BY <2>1, <3>1, Zenon
<1> HIDE DEF ht
<1>7. hd \in Cells /\ Len(hd) = d /\ \A i \in 1 .. t : hd[i] = ht[i]
  <2>1. /\ ht \o D \in Cells /\ Len(ht \o D) = Len(ht) + Len(D)
        /\ \A i \in 1 .. Len(ht) : (ht \o D)[i] = ht[i]
    BY <1>1, <1>5, CellsConcat
  <2> QED
    BY <1>5, <2>1, Zenon
<1>8. SubSeq(hd, t + 1, d) = D
  BY <1>1, <1>5, PartIsSecond
<1>9. SubSeq(hd, 10, t) = T
  BY <1>1, <1>2, <1>5, <1>6, PartOfFirst
<1> HIDE DEF hd
<1>10. hg \in Cells /\ Len(hg) = g /\ \A i \in 1 .. d : hg[i] = hd[i]
  <2>1. /\ hd \o G \in Cells /\ Len(hd \o G) = Len(hd) + Len(G)
        /\ \A i \in 1 .. Len(hd) : (hd \o G)[i] = hd[i]
    BY <1>1, <1>7, CellsConcat
  <2> QED
    BY <1>7, <2>1, Zenon
<1>11. SubSeq(hg, d + 1, g) = G
  BY <1>1, <1>7, PartIsSecond
<1>12. SubSeq(hg, 10, t) = T
  BY <1>1, <1>2, <1>7, <1>9, PartOfFirst
<1>13. SubSeq(hg, t + 1, d) = D
  BY <1>1, <1>2, <1>7, <1>8, PartOfFirst
<1> HIDE DEF hg
<1>14. e \in Cells /\ Len(e) = v /\ \A i \in 1 .. g : e[i] = hg[i]
  <2>1. /\ hg \o V \in Cells /\ Len(hg \o V) = Len(hg) + Len(V)
        /\ \A i \in 1 .. Len(hg) : (hg \o V)[i] = hg[i]
    BY <1>1, <1>10, CellsConcat
  <2> QED
    BY <1>10, <2>1, Zenon
<1>15. SubSeq(e, g + 1, v) = V
  BY <1>1, <1>10, PartIsSecond
<1>16. SubSeq(e, 10, t) = T
  BY <1>1, <1>2, <1>10, <1>12, PartOfFirst
<1>17. SubSeq(e, t + 1, d) = D
  BY <1>1, <1>2, <1>10, <1>13, PartOfFirst
<1>18. SubSeq(e, d + 1, g) = G
  BY <1>1, <1>2, <1>10, <1>11, PartOfFirst
<1>19. \A i \in 1 .. 9 : e[i] = h[i]
  BY <1>2, <1>5, <1>7, <1>10, <1>14
<1> HIDE DEF e
<1> QED
  BY <1>4, <1>14, <1>15, <1>16, <1>17, <1>18, <1>19 DEF T, D, G, V, h

\* decode() gives back what encode() was given.
LEMMA DecodeEncode ==
    ASSUME NEW m \in MessageType
    PROVE  Decode(Encode(m)) = m
<1> DEFINE e == Encode(m)
           nT == Len(m.topic)
           nD == Len(m.deviceId)
           nG == Len(m.tagName)
           nV == Len(m.value)
<1>1. /\ Len(e) = 9 + nT + nD + nG + nV
      /\ \A i \in 1 .. 9 : e[i] = Header(m)[i]
      /\ SubSeq(e, 10, 9 + nT) = m.topic
      /\ SubSeq(e, 9 + nT + 1, 9 + nT + nD) = m.deviceId
      /\ SubSeq(e, 9 + nT + nD + 1, 9 + nT + nD + nG) = m.tagName
      /\ SubSeq(e, 9 + nT + nD + nG + 1, 9 + nT + nD + nG + nV) = m.value
  BY EncodeShape, Zenon
<1>2. nT \in Nat /\ nD \in Nat /\ nG \in Nat /\ nV \in Nat
  BY LenProperties DEF MessageType
<1>3. \A i \in 1 .. 9 : e[i] = Header(m)[i]
  BY <1>1
<1> HIDE DEF e
<1>4. /\ e[3] = m.type /\ e[4] = m.quality /\ e[5] = m.timestamp
      /\ e[6] = nT /\ e[7] = nD /\ e[8] = nG
  BY <1>3 DEF Header
<1> HIDE DEF nT, nD, nG, nV
<1>5. /\ 9 + 1 = 10 /\ 9 + 1 + nT - 1 = 9 + nT
      /\ 9 + 1 + nT = 9 + nT + 1 /\ 9 + 1 + nT + nD - 1 = 9 + nT + nD
      /\ 9 + 1 + nT + nD = 9 + nT + nD + 1 /\ 9 + 1 + nT + nD + nG - 1 = 9 + nT + nD + nG
      /\ 9 + 1 + nT + nD + nG = 9 + nT + nD + nG + 1
  BY <1>2
<1>6. Decode(e) =
        [topic |-> SubSeq(e, 9 + 1, 9 + 1 + e[6] - 1),
         deviceId |-> SubSeq(e, 9 + 1 + e[6], 9 + 1 + e[6] + e[7] - 1),
         tagName |-> SubSeq(e, 9 + 1 + e[6] + e[7], 9 + 1 + e[6] + e[7] + e[8] - 1),
         type |-> e[3],
         value |-> SubSeq(e, 9 + 1 + e[6] + e[7] + e[8], Len(e)),
         quality |-> e[4], timestamp |-> e[5]]
  BY Zenon DEF Decode, Field, HeaderCells
<1>7. /\ SubSeq(e, 9 + 1, 9 + 1 + e[6] - 1) = m.topic
      /\ SubSeq(e, 9 + 1 + e[6], 9 + 1 + e[6] + e[7] - 1) = m.deviceId
      /\ SubSeq(e, 9 + 1 + e[6] + e[7], 9 + 1 + e[6] + e[7] + e[8] - 1) = m.tagName
      /\ SubSeq(e, 9 + 1 + e[6] + e[7] + e[8], Len(e)) = m.value
  BY <1>1, <1>4, <1>5, Zenon
<1>8. Decode(e) =
        [topic |-> m.topic, deviceId |-> m.deviceId, tagName |-> m.tagName, type |-> m.type,
         value |-> m.value, quality |-> m.quality, timestamp |-> m.timestamp]
  BY <1>4, <1>6, <1>7, Zenon
<1>9. m = [topic |-> m.topic, deviceId |-> m.deviceId, tagName |-> m.tagName, type |-> m.type,
           value |-> m.value, quality |-> m.quality, timestamp |-> m.timestamp]
  BY DEF MessageType
<1> QED
  BY <1>8, <1>9 DEF e

\* decode() accepts what encode() has made.
LEMMA EncodedIsDecodable ==
    ASSUME NEW m \in Messages, Encodable(m)
    PROVE  /\ m \in MessageType
           /\ Encode(m) \in Cells /\ Size(m) \in Nat /\ Size(m) >= 9
           /\ Decodable(Encode(m)) /\ Decode(Encode(m)) = m
<1> DEFINE e == Encode(m)
           nT == Len(m.topic)
           nD == Len(m.deviceId)
           nG == Len(m.tagName)
           nV == Len(m.value)
<1>1. m \in MessageType /\ DecodableValue(m.type, m.value)
  BY MessageAssumption DEF MessageType
<1>2. /\ e \in Cells /\ Len(e) = 9 + nT + nD + nG + nV
      /\ \A i \in 1 .. 9 : e[i] = Header(m)[i]
  BY <1>1, EncodeShape, Zenon
<1>3. Decode(e) = m
  BY <1>1, DecodeEncode
<1>4. nT \in Nat /\ nD \in Nat /\ nG \in Nat /\ nV \in Nat
  BY <1>1, LenProperties DEF MessageType
<1>5. nT > 0 /\ m.quality <= 4
  <2>1. m.topic \in Seq(Nat) /\ m.topic # <<>> /\ m.quality <= 4
    BY <1>1 DEF MessageType, Encodable, LastQuality
  <2> QED
    BY <2>1, EmptySeq
<1> HIDE DEF e
<1>6. /\ e[1] = MessageMagic /\ e[2] = MessageVersion /\ e[3] = m.type /\ e[4] = m.quality
      /\ e[6] = nT /\ e[7] = nD /\ e[8] = nG /\ e[9] = nV
  <2>1. \A i \in 1 .. 9 : e[i] = Header(m)[i]
    BY <1>2
  <2> QED
    BY <2>1 DEF Header
<1> HIDE DEF nT, nD, nG, nV
<1>7. Len(e) \in Nat /\ Len(e) >= 9 /\ 9 + nT + nD + nG + nV = Len(e)
  BY <1>2, <1>4
<1>8. Decodable(e)
  BY <1>1, <1>3, <1>5, <1>6, <1>7, Zenon DEF Decodable, HeaderCells, LastQuality
<1> QED
  BY <1>1, <1>2, <1>3, <1>7, <1>8 DEF e, Size

\* Every cell is in one of the chunks.
LEMMA ChunksCover ==
    ASSUME NEW n \in Nat, NEW i \in 1 .. n
    PROVE  \E k \in Chunks(n) : InChunk(i, k)
<1> USE CapacityAssumption
<1> DEFINE q == (i - 1) \div ChunkSize
<1>1. q \in Nat /\ q * ChunkSize <= i - 1 /\ q <= i - 1
  OBVIOUS
<1>2. q + 1 \in 1 .. n /\ (q + 1 - 1) * ChunkSize < n
  BY <1>1
<1> QED
  BY <1>2 DEF Chunks, InChunk

-----------------------------------------------------------------------------
(* The invariant.                                                          *)

\* The slot holds the first cells of a message as far as the chunks of done say.
CellsHold(done) ==
    \A i \in 1 .. Size(sending) : \A k \in done :
        InChunk(i, k) => cells[i] = Encode(sending)[i]

SlotHolds == \A i \in 1 .. Size(sending) : cells[i] = Encode(sending)[i]

\* The message of a send() under way fits the slot, and is in it as far as the
\* steps of write() have come; the length stays when create() is over.
WriterInv ==
    /\ opened = "yes" => shm = "ready"
    /\ spc # "idle" => /\ sending \in Messages /\ Encodable(sending) /\ Fits(sending)
                       /\ opened # "no"
    /\ spc = "copy" => CellsHold(copied)
    /\ spc \in {"size", "sync", "notify"} => SlotHolds
    /\ spc \in {"sync", "notify"} /\ opened = "yes" => dataSize = Size(sending)

\* The receiver's buffer has the length it has read.
ReaderInv ==
    /\ rpc \in {"copy", "decode"} => Len(output) = length
    /\ forwarded # NoMsg => WellFormed(forwarded)

\* How far the receiver is with the message in the slot.
OnItsWay ==
    \/ counter > 0
    \/ rpc = "header"
    \/ /\ rpc = "copy" /\ length = Size(sending)
       /\ \A i \in 1 .. Size(sending) : \A k \in taken :
             InChunk(i, k) => output[i] = Encode(sending)[i]
    \/ rpc = "decode" /\ output = Encode(sending)
    \/ rpc = "idle" /\ forwarded = sending

\* After a send() that succeeded, the message is complete in the slot, and on
\* its way or published.
LatestInv ==
    expected =>
        /\ spc = "idle" /\ opened = "yes" /\ running
        /\ sending \in Messages /\ Encodable(sending)
        /\ SlotHolds /\ dataSize = Size(sending)
        /\ OnItsWay

IndInv == TypeOK /\ WriterInv /\ ReaderInv /\ LatestInv

\* The program starts in the invariant.
LEMMA InitInv == Init => IndInv
<1> SUFFICES ASSUME Init PROVE IndInv
  OBVIOUS
<1> USE CapacityAssumption
<1>1. running \in BOOLEAN /\ expected \in BOOLEAN
  BY Zenon DEF Init
<1>2. cells \in [1 .. Capacity -> Nat] /\ output \in Seq(Nat)
  BY EmptySeq DEF Init, Zeros
<1>3. TypeOK
  BY <1>1, <1>2 DEF Init, TypeOK
<1>4. WriterInv /\ ReaderInv /\ LatestInv
  BY DEF Init, WriterInv, ReaderInv, LatestInv
<1> QED
  BY <1>3, <1>4 DEF IndInv

\* A sequence of n cells, given by its elements.
LEMMA CellsMade ==
    ASSUME NEW n \in Nat, NEW f \in [1 .. n -> Nat]
    PROVE  f \in Seq(Nat) /\ Len(f) = n
<1>1. f \in Seq(Nat)
  BY SeqDef
<1> QED
  BY <1>1

\* The chunks of what fits are chunks of the slot.
LEMMA ChunksFit ==
    ASSUME NEW n \in Nat, n <= Capacity
    PROVE  Chunks(n) \subseteq Chunks(Capacity)
<1> SUFFICES ASSUME NEW k \in Chunks(n) PROVE k \in Chunks(Capacity)
  OBVIOUS
<1>1. k \in 1 .. n /\ (k - 1) * ChunkSize < n /\ (k - 1) * ChunkSize \in Int
  BY CapacityAssumption DEF Chunks
<1> QED
  BY <1>1, CapacityAssumption DEF Chunks

\* The types survive every step of the sender and of the set-up.
LEMMA SenderTypes ==
    ASSUME IndInv, Create \/ Open \/ (\E m \in Messages : Send(m)) \/ SenderStep
    PROVE  TypeOK'
<1> USE CapacityAssumption, BoundsAssumption DEF IndInv, TypeOK
<1>1. CASE Create
  BY <1>1 DEF Create, sender, receiver, bounds
<1>2. CASE Open
  BY <1>2 DEF Open, slot, sender, receiver, bounds
<1>3. ASSUME NEW m \in Messages, Send(m)
      PROVE  TypeOK'
  <2>1. expected' \in BOOLEAN /\ running' \in BOOLEAN
    BY <1>3, Zenon DEF Send
  <2> QED
    BY <1>3, <2>1 DEF Send, slot, receiver, StepAfter
<1>4. CASE CopyChunk
  <2>1. PICK k \in Chunks(Size(sending)) \ copied :
          /\ copied' = copied \union {k}
          /\ cells' = [i \in DOMAIN cells |->
                         IF i <= Size(sending) /\ InChunk(i, k)
                         THEN Encode(sending)[i] ELSE cells[i]]
    BY <1>4 DEF CopyChunk
  <2>2. /\ sending \in Messages /\ Encodable(sending) /\ Size(sending) <= Capacity
    BY <1>4 DEF CopyChunk, WriterInv, Fits
  <2>3. Encode(sending) \in Seq(Nat) /\ Size(sending) \in Nat
    BY <2>2, EncodedIsDecodable DEF Cells
  <2>4. copied' \subseteq Chunks(Capacity)
    BY <2>1, <2>2, <2>3, ChunksFit
  <2>5. \A i \in 1 .. Capacity : i <= Size(sending) => Encode(sending)[i] \in Nat
    BY <2>3, ElementOfSeq DEF Size
  <2>6. cells' \in [1 .. Capacity -> Nat]
    BY <2>1, <2>5
  <2>7. spc' \in {"copy", "size"}
    BY <1>4 DEF CopyChunk, StepAfter
  <2> QED
    BY <1>4, <2>4, <2>6, <2>7 DEF CopyChunk, receiver, bounds
<1>5. CASE SetDataSize
  <2>1. Size(sending) \in Nat /\ Size(sending) <= Capacity
    BY <1>5, EncodedIsDecodable DEF SetDataSize, WriterInv, Fits
  <2> QED
    BY <1>5, <2>1 DEF SetDataSize, receiver, bounds, StepAfter
<1>6. CASE Sync
  BY <1>6 DEF Sync, slot, receiver, StepAfter
<1>7. CASE Notify
  <2>1. expected' \in BOOLEAN
    BY <1>7, Zenon DEF Notify
  <2> QED
    BY <1>7, <2>1 DEF Notify, slot, receiver, bounds, StepAfter
<1> QED
  BY <1>1, <1>2, <1>3, <1>4, <1>5, <1>6, <1>7 DEF SenderStep

\* The types survive every step of the receiver.
LEMMA ReceiverTypes ==
    ASSUME IndInv, Start \/ Stop \/ ReceiverStep
    PROVE  TypeOK'
<1> USE CapacityAssumption DEF IndInv, TypeOK
<1>1. CASE Start \/ Stop
  <2>1. running' \in BOOLEAN /\ expected' \in BOOLEAN
    BY <1>1, Zenon DEF Start, Stop
  <2> QED
    BY <1>1, <2>1 DEF Start, Stop, slot, sender, receiver, bounds
<1>2. CASE HandleRead
  BY <1>2 DEF HandleRead, slot, sender, bounds
<1>3. CASE ReadHeader
  <2>1. Zeros(dataSize) \in Seq(Nat)
    BY CellsMade DEF Zeros
  <2> QED
    BY <1>3, <2>1 DEF ReadHeader, slot, sender, bounds
<1>4. CASE ReadChunk
  <2>1. PICK k \in Chunks(length) \ taken :
          /\ taken' = taken \union {k}
          /\ output' = [i \in 1 .. length |-> IF InChunk(i, k) THEN cells[i] ELSE output[i]]
    BY <1>4 DEF ReadChunk
  <2>2. Len(output) = length /\ length <= Capacity /\ length \in Nat
    BY <1>4 DEF ReadChunk, ReaderInv
  <2>3. \A i \in 1 .. length : cells[i] \in Nat /\ output[i] \in Nat
    BY <2>2, ElementOfSeq
  <2>4. output' \in [1 .. length -> Nat]
    BY <2>1, <2>3
  <2>5. output' \in Seq(Nat)
    BY <2>2, <2>4, CellsMade
  <2> QED
    BY <1>4, <2>1, <2>5 DEF ReadChunk, slot, sender, bounds
<1>5. CASE Publish
  <2>1. <<>> \in Seq(Nat)
    BY EmptySeq
  <2> QED
    BY <1>5, <2>1 DEF Publish, slot, sender, bounds
<1> QED
  BY <1>1, <1>2, <1>3, <1>4, <1>5 DEF ReceiverStep

\* The sender's part: the slot fills up chunk by chunk, and when all chunks are
\* there the message is.
LEMMA WriterStep ==
    ASSUME IndInv, [Next]_vars
    PROVE  WriterInv'
<1> USE DEF IndInv, TypeOK, WriterInv
<1>1. CASE Create
  BY <1>1 DEF Create, sender, CellsHold, SlotHolds
<1>2. CASE Open
  BY <1>2 DEF Open, slot, sender, CellsHold, SlotHolds
<1>3. ASSUME NEW m \in Messages, Send(m)
      PROVE  WriterInv'
  BY <1>3 DEF Send, StepAfter, CellsHold, slot
<1>4. CASE CopyChunk
  <2>1. PICK k \in Chunks(Size(sending)) \ copied :
          /\ copied' = copied \union {k}
          /\ cells' = [i \in DOMAIN cells |->
                         IF i <= Size(sending) /\ InChunk(i, k)
                         THEN Encode(sending)[i] ELSE cells[i]]
    BY <1>4 DEF CopyChunk
  <2>2. /\ sending \in Messages /\ Encodable(sending) /\ Fits(sending)
        /\ spc = "copy" /\ sending' = sending
        /\ spc' = IF copied' = Chunks(Size(sending)) THEN "size" ELSE "copy"
        /\ UNCHANGED <<shm, opened, dataSize>>
    BY <1>4 DEF CopyChunk, StepAfter
  <2>3. Size(sending) \in Nat /\ Size(sending) <= Capacity
    BY <2>2, EncodedIsDecodable DEF Fits
  <2>4. CellsHold(copied)'
    <3>1. \A i \in 1 .. Size(sending) :
            cells'[i] = IF InChunk(i, k) THEN Encode(sending)[i] ELSE cells[i]
      BY <2>1, <2>3, CapacityAssumption
    <3>2. \A i \in 1 .. Size(sending) : \A j \in copied' :
            InChunk(i, j) => cells'[i] = Encode(sending)[i]
      BY <2>1, <2>2, <3>1 DEF CellsHold
    <3> QED
      BY <2>2, <3>2 DEF CellsHold
  <2>5. copied' = Chunks(Size(sending)) => SlotHolds'
    <3> SUFFICES ASSUME copied' = Chunks(Size(sending)), NEW i \in 1 .. Size(sending')
                 PROVE  cells'[i] = Encode(sending')[i]
      BY DEF SlotHolds
    <3>1. PICK j \in Chunks(Size(sending)) : InChunk(i, j)
      BY <2>2, <2>3, ChunksCover
    <3> QED
      BY <2>2, <2>4, <3>1 DEF CellsHold
  <2> QED
    BY <2>2, <2>4, <2>5
<1>5. CASE SetDataSize
  BY <1>5 DEF SetDataSize, StepAfter, SlotHolds
<1>6. CASE Sync
  BY <1>6 DEF Sync, StepAfter, SlotHolds, slot
<1>7. CASE Notify
  BY <1>7 DEF Notify, StepAfter
<1>8. CASE UNCHANGED <<shm, opened, cells, dataSize, spc, sending, copied>>
  BY <1>8 DEF CellsHold, SlotHolds
<1> QED
  BY <1>1, <1>2, <1>3, <1>4, <1>5, <1>6, <1>7, <1>8
  DEF Next, SenderStep, ReceiverStep, Start, Stop, HandleRead, ReadHeader, ReadChunk, Publish,
      vars, slot, sender

\* The receiver's part: its buffer keeps its length, and what it publishes was
\* accepted by decode().
LEMMA ReaderStep ==
    ASSUME IndInv, [Next]_vars
    PROVE  ReaderInv'
<1> USE DEF IndInv, TypeOK, ReaderInv
<1>1. CASE ReadHeader
  <2>1. Len(Zeros(dataSize)) = dataSize
    BY CellsMade DEF Zeros
  <2> QED
    BY <1>1, <2>1 DEF ReadHeader
<1>2. CASE ReadChunk
  <2>1. PICK k \in Chunks(length) \ taken :
          output' = [i \in 1 .. length |-> IF InChunk(i, k) THEN cells[i] ELSE output[i]]
    BY <1>2 DEF ReadChunk
  <2>2. Len(output) = length /\ length <= Capacity /\ length \in Nat
    BY <1>2, CapacityAssumption DEF ReadChunk
  <2>3. \A i \in 1 .. length : cells[i] \in Nat /\ output[i] \in Nat
    BY <2>2, ElementOfSeq, CapacityAssumption
  <2>4. output' \in [1 .. length -> Nat]
    BY <2>1, <2>3
  <2>5. Len(output') = length
    BY <2>2, <2>4, CellsMade
  <2> QED
    BY <1>2, <2>5 DEF ReadChunk
<1>3. CASE Publish
  <2>1. Decodable(output) => WellFormed(Decode(output))
    BY DecodedIsWellFormed DEF Cells
  <2> QED
    BY <1>3, <2>1 DEF Publish
<1>4. CASE HandleRead
  BY <1>4 DEF HandleRead
<1>5. CASE UNCHANGED receiver
  BY <1>5 DEF receiver
<1> QED
  BY <1>1, <1>2, <1>3, <1>4, <1>5
  DEF Next, SenderStep, ReceiverStep, Create, Open, Send, CopyChunk, SetDataSize, Sync, Notify,
      Start, Stop, vars

\* The latest message: a notification starts its way, and every step of the
\* receiver moves it on, since nobody writes to the slot meanwhile.
LEMMA LatestStep ==
    ASSUME IndInv, [Next]_vars
    PROVE  LatestInv'
<1>0. TypeOK /\ WriterInv /\ ReaderInv /\ LatestInv
  BY DEF IndInv
<1>1. ASSUME \/ \E m \in Messages : Send(m)
             \/ Stop
      PROVE  LatestInv'
  BY <1>1 DEF Send, Stop, LatestInv
<1>2. CASE Notify
  <2>1. expected = FALSE
    BY <1>0, <1>2 DEF Notify, LatestInv, TypeOK
  <2>2. CASE expected' = FALSE
    BY <2>2 DEF LatestInv
  <2>3. CASE expected' # FALSE
    <3>1. counter' = counter + 1 /\ running /\ opened = "yes"
      BY <1>2, <2>1, <2>3 DEF Notify
    <3>2. counter' > 0
      BY <1>0, <3>1 DEF TypeOK
    <3>3. /\ spc = "notify" /\ spc' = "idle"
          /\ UNCHANGED <<opened, running, sending, cells, dataSize>>
      BY <1>2 DEF Notify, StepAfter, slot
    <3>4. /\ sending \in Messages /\ Encodable(sending) /\ SlotHolds
          /\ dataSize = Size(sending)
      BY <1>0, <3>1, <3>3 DEF WriterInv
    <3>5. SlotHolds' /\ OnItsWay'
      BY <3>2, <3>3, <3>4 DEF SlotHolds, OnItsWay
    <3> QED
      BY <3>1, <3>3, <3>4, <3>5 DEF LatestInv
  <2> QED
    BY <2>2, <2>3
<1>3. CASE CopyChunk \/ SetDataSize \/ Sync
  <2>1. spc # "idle" /\ expected' = expected
    BY <1>3 DEF CopyChunk, SetDataSize, Sync
  <2> QED
    BY <1>0, <2>1 DEF LatestInv
<1> SUFFICES ASSUME expected, ReceiverStep \/ Create \/ Open \/ Start \/ UNCHANGED vars
             PROVE  LatestInv'
  <2>1. CASE ~(ReceiverStep \/ Create \/ Open \/ Start \/ UNCHANGED vars)
    BY <1>1, <1>2, <1>3, <2>1 DEF Next, SenderStep
  <2>2. CASE ~expected /\ (ReceiverStep \/ Create \/ Open \/ Start \/ UNCHANGED vars)
    <3>1. expected' = expected
      BY <2>2 DEF ReceiverStep, HandleRead, ReadHeader, ReadChunk, Publish, Create, Open, Start, vars
    <3> QED
      BY <2>2, <3>1 DEF LatestInv
  <2> QED
    BY <2>1, <2>2
<1>4. /\ spc = "idle" /\ opened = "yes" /\ running /\ shm = "ready"
      /\ sending \in Messages /\ Encodable(sending)
      /\ SlotHolds /\ dataSize = Size(sending) /\ OnItsWay
  BY <1>0 DEF LatestInv, WriterInv
<1>5. /\ Encode(sending) \in Cells /\ Size(sending) \in Nat /\ Size(sending) >= 9
      /\ Decodable(Encode(sending)) /\ Decode(Encode(sending)) = sending
  BY <1>4, EncodedIsDecodable
<1>6. UNCHANGED <<spc, opened, running, sending, cells, dataSize>>
  BY <1>4 DEF ReceiverStep, HandleRead, ReadHeader, ReadChunk, Publish, Create, Open, Start,
     vars, slot, sender
<1> SUFFICES OnItsWay'
  BY <1>4, <1>6 DEF LatestInv, SlotHolds
<1>7. CASE Create \/ Open \/ Start \/ UNCHANGED vars
  <2>1. UNCHANGED <<counter, rpc, length, output, taken, forwarded>>
    BY <1>4, <1>7 DEF Create, Open, Start, vars, receiver
  <2> QED
    BY <1>4, <1>6, <2>1 DEF OnItsWay
<1>8. CASE HandleRead
  BY <1>4, <1>8 DEF HandleRead, OnItsWay
<1>9. CASE ReadHeader
  <2>1. dataSize > 0 /\ taken' = {} /\ length' = dataSize /\ rpc' = "copy"
    BY <1>4, <1>5, <1>9 DEF ReadHeader
  <2> QED
    BY <1>4, <1>6, <2>1 DEF OnItsWay
<1>10. CASE ReadChunk
  <2>1. PICK k \in Chunks(length) \ taken :
          /\ taken' = taken \union {k}
          /\ output' = [i \in 1 .. length |-> IF InChunk(i, k) THEN cells[i] ELSE output[i]]
    BY <1>10 DEF ReadChunk
  <2>2. /\ rpc = "copy" /\ UNCHANGED <<length, counter>>
        /\ rpc' = IF taken' = Chunks(length) THEN "decode" ELSE "copy"
    BY <1>10 DEF ReadChunk
  <2>3. CASE counter > 0
    BY <2>2, <2>3 DEF OnItsWay
  <2>4. CASE ~(counter > 0)
    <3>1. /\ length = Size(sending)
          /\ \A i \in 1 .. Size(sending) : \A j \in taken :
                InChunk(i, j) => output[i] = Encode(sending)[i]
      BY <1>4, <2>2, <2>4 DEF OnItsWay
    <3>2. \A i \in 1 .. Size(sending) :
            output'[i] = IF InChunk(i, k) THEN Encode(sending)[i] ELSE output[i]
      BY <1>4, <2>1, <3>1 DEF SlotHolds
    <3>3. \A i \in 1 .. Size(sending) : \A j \in taken' :
             InChunk(i, j) => output'[i] = Encode(sending)[i]
      BY <2>1, <3>1, <3>2
    <3>4. CASE taken' # Chunks(length)
      BY <1>6, <2>2, <3>1, <3>3, <3>4 DEF OnItsWay
    <3>5. CASE taken' = Chunks(length)
      <4>1. \A i \in 1 .. Size(sending) : output'[i] = Encode(sending)[i]
        BY <1>5, <3>1, <3>3, <3>5, ChunksCover
      <4>2. output' \in Seq(Nat) /\ Len(output') = Size(sending)
        BY <2>2, <3>1, <3>5, ReaderStep, ReceiverTypes, <1>10
        DEF ReaderInv, TypeOK, ReceiverStep
      <4>3. output' = Encode(sending)
        BY <1>5, <4>1, <4>2, SeqEqual DEF Cells, Size
      <4> QED
        BY <1>6, <2>2, <3>5, <4>3 DEF OnItsWay
    <3> QED
      BY <3>4, <3>5
  <2> QED
    BY <2>3, <2>4
<1>11. CASE Publish
  BY <1>4, <1>5, <1>6, <1>11 DEF Publish, OnItsWay
<1> QED
  BY <1>7, <1>8, <1>9, <1>10, <1>11 DEF ReceiverStep

-----------------------------------------------------------------------------
(* The theorems.                                                           *)

\* Every step of either process keeps the invariant.
LEMMA NextInv == IndInv /\ [Next]_vars => IndInv'
<1> SUFFICES ASSUME IndInv, [Next]_vars PROVE IndInv'
  OBVIOUS
<1>1. TypeOK'
  <2>1. CASE UNCHANGED vars
    BY <2>1 DEF IndInv, TypeOK, vars, slot, sender, receiver, bounds
  <2> QED
    BY <2>1, SenderTypes, ReceiverTypes DEF Next
<1> QED
  BY <1>1, WriterStep, ReaderStep, LatestStep DEF IndInv

\* The inductive invariant holds throughout.
THEOREM Invariance == Spec => []IndInv
  BY InitInv, NextInv, PTL DEF Spec

\* Whatever SharedMemoryMessageBridge publishes is well formed, although the
\* slot has no lock and may be read while it is written; and the receiver's
\* copy stays inside the slot.
THEOREM PublishSafety == Spec => []OnlyValidIsPublished
<1>1. IndInv => OnlyValidIsPublished
  BY DEF IndInv, ReaderInv, OnlyValidIsPublished
<1> QED
  BY <1>1, Invariance, PTL

\* When both processes have come to rest after a successful send(), exactly
\* that message has been published, however the copies were interleaved and
\* the notifications merged.
THEOREM LatestSafety == Spec => []LatestIsForwarded
<1>1. IndInv => LatestIsForwarded
  BY DEF IndInv, LatestInv, OnItsWay, TypeOK, LatestIsForwarded
<1> QED
  BY <1>1, Invariance, PTL

\* decode() undoes encode() on every message that encode() accepts.
THEOREM CodecRoundTrip ==
    \A m \in Messages : Encodable(m) => Decodable(Encode(m)) /\ Decode(Encode(m)) = m
  BY EncodedIsDecodable

=============================================================================
