-------------------------- MODULE TcpServer_proofs --------------------------
(***************************************************************************)
(* Proofs about the TCP echo service, for any number of peers and          *)
(* descriptors, any send buffer and any bounds.                            *)
(*                                                                         *)
(* IndInv has four parts: the types, the tables of the server (TablesInv), *)
(* who is connected to what (ConnInv: a peer waits in the queue or has one *)
(* descriptor, never both), and the streams (EchoInv).  The last one needs *)
(* the send buffer's limit, and the streams of the peers that still wait.  *)
(***************************************************************************)
EXTENDS TcpServer, SequenceTheorems, TLAPS

\* The stream of a peer that has sent n bytes.
Stream(n) == [i \in 1 .. n |-> i]

\* clients_, channels_ and the descriptors agree, a descriptor without a client
\* has no output, and EPOLLOUT is watched exactly while some is left.
TablesInv ==
    /\ clients = {fd \in Fds : owner[fd] # NoPeer}
    /\ clients = {fd \in Fds : watched[fd] # {}}
    /\ \A fd \in Fds \ clients : outputBuffer[fd] = <<>> /\ writeOffset[fd] = 0
    /\ \A fd \in clients : "out" \in watched[fd] <=> writeOffset[fd] < Len(outputBuffer[fd])

InQueue(p) == \E k \in 1 .. Len(queue) : queue[k] = p

\* A peer is new, waits at one place of the queue, or has one descriptor.
ConnInv ==
    /\ \A fd, other \in Fds : owner[fd] # NoPeer /\ owner[fd] = owner[other] => fd = other
    /\ \A fd \in Fds : owner[fd] # NoPeer => peer[owner[fd]] # "new" /\ ~InQueue(owner[fd])
    /\ \A k \in 1 .. Len(queue) : peer[queue[k]] # "new"
    /\ \A k, l \in 1 .. Len(queue) : queue[k] = queue[l] => k = l

\* Nothing has come back to a peer that is not served yet.
WaitingInv ==
    \A p \in Peers : peer[p] = "new" \/ InQueue(p) =>
        /\ received[p] = <<>> /\ sendbuf[p] = <<>>
        /\ peer[p] # "reset" => inbox[p] = Stream(sent[p])

\* The equation of one connection.
Echo(fd, p) ==
    ((received[p] \o sendbuf[p]) \o Pending(fd)) \o inbox[p] = Stream(sent[p])

EchoInv ==
    /\ \A p \in Peers : Len(sendbuf[p]) <= SendBuffer
    /\ WaitingInv
    /\ \A fd \in Fds : owner[fd] # NoPeer /\ peer[owner[fd]] # "reset" => Echo(fd, owner[fd])

IndInv == TypeOK /\ TablesInv /\ ConnInv /\ EchoInv

-----------------------------------------------------------------------------
(* Sequences.                                                              *)

\* A stream is a sequence of bytes.
LEMMA StreamType ==
    ASSUME NEW n \in Nat
    PROVE  Stream(n) \in Bytes /\ Len(Stream(n)) = n /\ \A i \in 1 .. n : Stream(n)[i] = i
<1>1. Stream(n) \in [1 .. n -> Nat]
  BY DEF Stream
<1>2. Stream(n) \in Seq(Nat)
  BY <1>1, SeqDef
<1>3. Len(Stream(n)) = n
  BY <1>1, <1>2
<1> QED
  BY <1>2, <1>3 DEF Stream, Bytes

\* One more byte extends the stream.
LEMMA StreamAppend ==
    ASSUME NEW n \in Nat
    PROVE  Append(Stream(n), n + 1) = Stream(n + 1)
<1>1. /\ Stream(n) \in Seq(Nat) /\ Len(Stream(n)) = n
      /\ \A i \in 1 .. n : Stream(n)[i] = i
  BY StreamType DEF Bytes
<1>2. /\ Stream(n + 1) \in Seq(Nat) /\ Len(Stream(n + 1)) = n + 1
      /\ \A i \in 1 .. n + 1 : Stream(n + 1)[i] = i
  BY StreamType DEF Bytes
<1>3. /\ Append(Stream(n), n + 1) \in Seq(Nat) /\ Len(Append(Stream(n), n + 1)) = n + 1
      /\ \A i \in 1 .. n : Append(Stream(n), n + 1)[i] = Stream(n)[i]
      /\ Append(Stream(n), n + 1)[n + 1] = n + 1
  BY <1>1, AppendProperties
<1>4. \A i \in 1 .. n + 1 : Append(Stream(n), n + 1)[i] = Stream(n + 1)[i]
  BY <1>1, <1>2, <1>3
<1> QED
  BY <1>2, <1>3, <1>4, SeqEqual

\* A part of a sequence is a sequence.
LEMMA PartType ==
    ASSUME NEW s \in Bytes, NEW a \in Nat, NEW b \in Nat, a <= b, b <= Len(s)
    PROVE  SubSeq(s, a + 1, b) \in Bytes /\ Len(SubSeq(s, a + 1, b)) = b - a
           /\ \A i \in 1 .. b - a : SubSeq(s, a + 1, b)[i] = s[a + i]
<1> USE DEF Bytes
<1>1. Len(s) \in Nat /\ a + 1 \in Int /\ b \in Int
  BY LenProperties
<1>2. \A i \in a + 1 .. b : s[i] \in Nat
  BY <1>1, ElementOfSeq
<1>3. SubSeq(s, a + 1, b) \in Seq(Nat)
  BY <1>1, <1>2, SubSeqProperties
<1>4. Len(SubSeq(s, a + 1, b)) = IF a + 1 <= b THEN b - (a + 1) + 1 ELSE 0
  BY <1>1, <1>2, SubSeqProperties
<1>5. \A i \in 1 .. b - (a + 1) + 1 : SubSeq(s, a + 1, b)[i] = s[a + 1 + i - 1]
  BY <1>1, <1>2, SubSeqProperties
<1>6. Len(SubSeq(s, a + 1, b)) = b - a
  BY <1>1, <1>4
<1>7. \A i \in 1 .. b - a : SubSeq(s, a + 1, b)[i] = s[a + i]
  BY <1>1, <1>5
<1> QED
  BY <1>3, <1>6, <1>7

\* The rest of a buffer that grows at its end grows at its end.
LEMMA RestOfConcat ==
    ASSUME NEW s \in Bytes, NEW t \in Bytes, NEW n \in Nat, n <= Len(s)
    PROVE  SubSeq(s \o t, n + 1, Len(s \o t)) = SubSeq(s, n + 1, Len(s)) \o t
<1> DEFINE st == s \o t
           left == SubSeq(st, n + 1, Len(st))
           rest == SubSeq(s, n + 1, Len(s))
           right == rest \o t
<1>1. Len(s) \in Nat /\ Len(t) \in Nat
  BY LenProperties DEF Bytes
<1>2. /\ st \in Bytes /\ Len(st) = Len(s) + Len(t)
      /\ \A i \in 1 .. Len(s) + Len(t) :
           st[i] = IF i <= Len(s) THEN s[i] ELSE t[i - Len(s)]
  BY ConcatProperties DEF Bytes
<1>3. /\ rest \in Bytes /\ Len(rest) = Len(s) - n
      /\ \A i \in 1 .. Len(s) - n : rest[i] = s[n + i]
  BY <1>1, PartType
<1> HIDE DEF st, rest
<1>4. n <= Len(st) /\ Len(st) \in Nat
  BY <1>1, <1>2
<1>5. /\ left \in Bytes /\ Len(left) = Len(st) - n
      /\ \A i \in 1 .. Len(st) - n : left[i] = st[n + i]
  BY <1>2, <1>4, PartType
<1>6. /\ right \in Bytes /\ Len(right) = Len(rest) + Len(t)
      /\ \A i \in 1 .. Len(rest) + Len(t) :
           right[i] = IF i <= Len(rest) THEN rest[i] ELSE t[i - Len(rest)]
  BY <1>3, ConcatProperties DEF Bytes
<1> HIDE DEF left, right
<1>7. Len(left) = Len(s) + Len(t) - n /\ Len(right) = Len(s) + Len(t) - n
  BY <1>1, <1>2, <1>3, <1>5, <1>6
<1>8. ASSUME NEW i \in 1 .. Len(s) + Len(t) - n
      PROVE  left[i] = right[i]
  <2>1. left[i] = st[n + i]
    BY <1>1, <1>2, <1>5, <1>8
  <2>2. n + i \in 1 .. Len(s) + Len(t)
    BY <1>1, <1>8
  <2>3. CASE i <= Len(s) - n
    BY <1>1, <1>2, <1>3, <1>6, <2>1, <2>2, <2>3
  <2>4. CASE i > Len(s) - n
    <3>1. ~(n + i <= Len(s)) /\ ~(i <= Len(rest)) /\ i \in 1 .. Len(rest) + Len(t)
          /\ n + i - Len(s) = i - Len(rest)
      BY <1>1, <1>3, <1>8, <2>4
    <3>2. right[i] = t[i - Len(rest)]
      BY <1>6, <3>1
    <3>3. st[n + i] = t[n + i - Len(s)]
      BY <1>2, <2>2, <3>1
    <3> QED
      BY <2>1, <3>1, <3>2, <3>3
  <2> QED
    BY <1>1, <2>3, <2>4
<1>9. left = right
  BY <1>5, <1>6, <1>7, <1>8, SeqEqual DEF Bytes
<1> QED
  BY <1>9 DEF left, right, st, rest

\* Appending to the last of two sequences appends to both.
LEMMA ConcatAppend ==
    ASSUME NEW S, NEW s \in Seq(S), NEW t \in Seq(S), NEW e \in S
    PROVE  s \o Append(t, e) = Append(s \o t, e)
<1>1. <<e>> \in Seq(S) /\ s \o t \in Seq(S)
  OBVIOUS
<1>2. s \o Append(t, e) = s \o (t \o <<e>>)
  BY AppendIsConcat
<1>3. Append(s \o t, e) = (s \o t) \o <<e>>
  BY <1>1, AppendIsConcat
<1> QED
  BY <1>1, <1>2, <1>3, ConcatAssociative

\* The first element of the second sequence may move to the end of the first.
LEMMA ConcatHeadTail ==
    ASSUME NEW S, NEW s \in Seq(S), NEW t \in Seq(S), t # <<>>
    PROVE  Append(s, Head(t)) \o Tail(t) = s \o t
<1> DEFINE a == Append(s, Head(t)) \o Tail(t)
           b == s \o t
<1>1. /\ Head(t) \in S /\ Tail(t) \in Seq(S) /\ Len(Tail(t)) = Len(t) - 1
      /\ \A n \in 1 .. Len(Tail(t)) : Tail(t)[n] = t[n + 1]
      /\ Head(t) = t[1] /\ Len(t) \in Nat \ {0} /\ Len(s) \in Nat
  BY HeadTailProperties, EmptySeq
<1>2. /\ Append(s, Head(t)) \in Seq(S) /\ Len(Append(s, Head(t))) = Len(s) + 1
      /\ \A n \in 1 .. Len(s) : Append(s, Head(t))[n] = s[n]
      /\ Append(s, Head(t))[Len(s) + 1] = t[1]
  BY <1>1, AppendProperties
<1>3. /\ a \in Seq(S) /\ Len(a) = Len(s) + Len(t)
      /\ \A n \in 1 .. Len(s) + Len(t) :
           a[n] = IF n <= Len(s) + 1 THEN Append(s, Head(t))[n]
                                     ELSE Tail(t)[n - (Len(s) + 1)]
  BY <1>1, <1>2, ConcatProperties
<1>4. /\ b \in Seq(S) /\ Len(b) = Len(s) + Len(t)
      /\ \A n \in 1 .. Len(s) + Len(t) :
           b[n] = IF n <= Len(s) THEN s[n] ELSE t[n - Len(s)]
  BY ConcatProperties
<1> HIDE DEF a, b
<1>5. \A n \in 1 .. Len(s) + Len(t) : a[n] = b[n]
  <2> TAKE n \in 1 .. Len(s) + Len(t)
  <2>1. CASE n <= Len(s) + 1
    BY <2>1, <1>1, <1>2, <1>3, <1>4
  <2>2. CASE n > Len(s) + 1
    <3>1. n - (Len(s) + 1) \in 1 .. Len(Tail(t))
      BY <2>2, <1>1
    <3>2. Tail(t)[n - (Len(s) + 1)] = t[n - Len(s)]
      BY <3>1, <1>1
    <3>3. ~(n <= Len(s) + 1) /\ ~(n <= Len(s))
      BY <2>2, <1>1
    <3> QED
      BY <3>2, <3>3, <1>3, <1>4
  <2> QED
    BY <2>1, <2>2, <1>1
<1>6. a = b
  BY <1>3, <1>4, <1>5, SeqEqual
<1> QED
  BY <1>6 DEF a, b

\* Concatenation, for bytes.
LEMMA BytesConcat ==
    ASSUME NEW s \in Bytes, NEW t \in Bytes
    PROVE  s \o t \in Bytes /\ Len(s \o t) = Len(s) + Len(t)
  BY ConcatProperties DEF Bytes

\* Concatenation of bytes is associative.
LEMMA BytesAssociative ==
    ASSUME NEW s \in Bytes, NEW t \in Bytes, NEW u \in Bytes
    PROVE  (s \o t) \o u = s \o (t \o u)
  BY ConcatAssociative DEF Bytes

-----------------------------------------------------------------------------
(* The operations of the handlers.                                         *)

\* handleClientWrite() on a client: it is removed, or what is left to send of
\* the buffer stays, with EPOLLOUT watched if that is anything.  What was sent
\* before, the send buffer and the rest are together what they were.
LEMMA WriteKeeps ==
    ASSUME IndInv, NEW fd \in clients, NEW buffer \in Bytes,
           writeOffset[fd] <= Len(buffer), HandleClientWrite(fd, buffer)
    PROVE  LET p == owner[fd] IN
           /\ p \in Peers
           /\ sendbuf' \in [Peers -> Bytes]
           /\ \A q \in Peers \ {p} : sendbuf'[q] = sendbuf[q]
           /\ Len(sendbuf'[p]) <= SendBuffer
           /\ faults' \in 0 .. MaxFaults
           /\ \/ RemoveClient(fd)
              \/ /\ UNCHANGED <<clients, owner>>
                 /\ \E b \in Bytes, w \in Nat :
                      /\ w <= Len(b)
                      /\ outputBuffer' = [outputBuffer EXCEPT ![fd] = b]
                      /\ writeOffset' = [writeOffset EXCEPT ![fd] = w]
                      /\ watched' = [watched EXCEPT ![fd] = EventsFor(w < Len(b))]
                      /\ \A r \in Bytes :
                           (r \o sendbuf'[p]) \o SubSeq(b, w + 1, Len(b))
                             = (r \o sendbuf[p])
                                 \o SubSeq(buffer, writeOffset[fd] + 1, Len(buffer))
<1> DEFINE p == owner[fd]
           sb == sendbuf[p]
           wo == writeOffset[fd]
           len == Len(buffer)
           room == SendBuffer - Len(sb)
           remaining == len - wo
           blocked == remaining > room
           offset == wo + (IF blocked THEN room ELSE remaining)
           part == SubSeq(buffer, wo + 1, offset)
           rest == SubSeq(buffer, offset + 1, len)
<1>1. fd \in Fds /\ p \in Peers
  BY DEF IndInv, TablesInv, TypeOK
<1>2. /\ sb \in Bytes /\ Len(sb) \in Nat /\ Len(sb) <= SendBuffer /\ SendBuffer \in Nat
      /\ wo \in Nat /\ len \in Nat /\ wo <= len
  BY <1>1, SizeAssumption, LenProperties DEF Bytes, IndInv, EchoInv, TypeOK
<1>3. /\ sendbuf' = [sendbuf EXCEPT ![p] = @ \o part]
      /\ \/ /\ outputBuffer' = [outputBuffer EXCEPT ![fd] = IF blocked THEN buffer ELSE <<>>]
            /\ writeOffset' = [writeOffset EXCEPT ![fd] = IF blocked THEN offset ELSE 0]
            /\ watched' = [watched EXCEPT ![fd] = EventsFor(blocked)]
            /\ UNCHANGED <<clients, owner, faults>>
         \/ AddFails /\ RemoveClient(fd)
  BY DEF HandleClientWrite, OffsetAfter
<1>4. /\ offset \in Nat /\ wo <= offset /\ offset <= len /\ offset - wo <= room
      /\ blocked <=> offset < len
  <2> HIDE DEF sb, wo, len
  <2> QED
    BY <1>2
<1> HIDE DEF room, remaining, offset
<1>5. part \in Bytes /\ Len(part) = offset - wo
  BY <1>2, <1>4, PartType
<1>6. rest \in Bytes /\ part \o rest = SubSeq(buffer, wo + 1, len)
  <2>1. wo + 1 \in 1 .. len + 1 /\ offset \in (wo + 1) - 1 .. len /\ len \in offset .. len
    BY <1>2, <1>4
  <2>2. rest \in Bytes
    BY <1>2, <1>4, PartType
  <2>3. part \o rest = SubSeq(buffer, wo + 1, len)
    BY <2>1, ConcatAdjacentSubSeq DEF Bytes
  <2> QED
    BY <2>2, <2>3
<1> HIDE DEF sb, part, rest, p
<1>7. sb \o part \in Bytes /\ Len(sb \o part) = Len(sb) + Len(part)
  BY <1>2, <1>5, BytesConcat
<1>8. /\ sendbuf' \in [Peers -> Bytes] /\ sendbuf'[p] = sb \o part
      /\ \A q \in Peers \ {p} : sendbuf'[q] = sendbuf[q]
  BY <1>1, <1>3, <1>7 DEF sb, IndInv, TypeOK
<1>9. Len(sendbuf'[p]) <= SendBuffer
  BY <1>2, <1>4, <1>5, <1>7, <1>8 DEF room
<1>10. faults' \in 0 .. MaxFaults
  BY <1>3, BoundsAssumption DEF AddFails, IndInv, TypeOK
<1>11. ASSUME NEW r \in Bytes
       PROVE  (r \o sendbuf'[p]) \o rest = (r \o sb) \o SubSeq(buffer, wo + 1, len)
  <2> DEFINE before == r \o sb
  <2>1. before \o part = r \o (sb \o part)
    BY <1>2, <1>5, BytesAssociative
  <2>2. before \in Bytes
    BY <1>2, BytesConcat
  <2> HIDE DEF before
  <2>3. (before \o part) \o rest = before \o (part \o rest)
    BY <1>5, <1>6, <2>2, BytesAssociative
  <2> QED
    BY <1>6, <1>8, <2>1, <2>3 DEF before
<1>12. CASE AddFails /\ RemoveClient(fd)
  BY <1>1, <1>8, <1>9, <1>10, <1>12 DEF p
<1>13. CASE /\ outputBuffer' = [outputBuffer EXCEPT ![fd] = IF blocked THEN buffer ELSE <<>>]
            /\ writeOffset' = [writeOffset EXCEPT ![fd] = IF blocked THEN offset ELSE 0]
            /\ watched' = [watched EXCEPT ![fd] = EventsFor(blocked)]
            /\ UNCHANGED <<clients, owner, faults>>
  <2> DEFINE b == IF blocked THEN buffer ELSE <<>>
             w == IF blocked THEN offset ELSE 0
  <2>1. /\ b \in Bytes /\ w \in Nat /\ w <= Len(b) /\ blocked = (w < Len(b))
        /\ SubSeq(b, w + 1, Len(b)) = rest
    <3>1. CASE blocked
      BY <3>1, <1>2, <1>4 DEF rest, Bytes
    <3>2. CASE ~blocked
      <4>1. offset = len /\ b = <<>> /\ w = 0
        BY <1>2, <1>4, <3>2
      <4>2. rest = <<>>
        BY <1>2, <4>1, SubSeqEmpty DEF rest
      <4>3. SubSeq(<<>>, 0 + 1, 0) = <<>> /\ Len(<<>>) = 0
        BY SubSeqEmpty
      <4> QED
        BY <3>2, <4>1, <4>2, <4>3 DEF Bytes
    <3> QED
      BY <3>1, <3>2
  <2>2. watched' = [watched EXCEPT ![fd] = EventsFor(w < Len(b))]
    BY <1>13, <2>1
  <2>3. outputBuffer' = [outputBuffer EXCEPT ![fd] = b]
        /\ writeOffset' = [writeOffset EXCEPT ![fd] = w]
    BY <1>13
  <2> HIDE DEF b, w
  <2>4. \A r \in Bytes : (r \o sendbuf'[p]) \o SubSeq(b, w + 1, Len(b))
          = (r \o sb) \o SubSeq(buffer, wo + 1, len)
    BY <1>11, <2>1
  <2> QED
    BY <1>1, <1>8, <1>9, <1>10, <1>13, <2>1, <2>2, <2>3, <2>4, Zenon DEF p, sb
<1> QED
  BY <1>3, <1>12, <1>13

\* The types of what the handlers change.
HandlerTypes ==
    /\ clients \subseteq Fds /\ outputBuffer \in [Fds -> Bytes]
    /\ writeOffset \in [Fds -> Nat]
    /\ \A fd \in Fds : writeOffset[fd] <= Len(outputBuffer[fd])
    /\ watched \in [Fds -> SUBSET {"in", "out"}]
    /\ owner \in [Fds -> Peers \union {NoPeer}]

\* removeClient() keeps everything, whatever happened to the streams of the
\* peer that is dropped.
LEMMA DropKeeps ==
    ASSUME IndInv, NEW fd \in clients, RemoveClient(fd),
           UNCHANGED <<queue, peer, sent, received>>,
           \A q \in Peers \ {owner[fd]} : sendbuf'[q] = sendbuf[q] /\ inbox'[q] = inbox[q],
           \A q \in Peers : Len(sendbuf'[q]) <= SendBuffer
    PROVE  HandlerTypes' /\ TablesInv' /\ ConnInv' /\ EchoInv'
<1>1. fd \in Fds /\ owner[fd] \in Peers
  BY DEF IndInv, TypeOK, TablesInv
<1>2. /\ clients' = clients \ {fd}
      /\ outputBuffer' = [outputBuffer EXCEPT ![fd] = <<>>]
      /\ writeOffset' = [writeOffset EXCEPT ![fd] = 0]
      /\ watched' = [watched EXCEPT ![fd] = {}]
      /\ owner' = [owner EXCEPT ![fd] = NoPeer]
  BY DEF RemoveClient
<1>3. HandlerTypes'
  <2>1. <<>> \in Bytes /\ Len(<<>>) = 0
    BY EmptySeq DEF Bytes
  <2>2. \A g \in Fds : writeOffset'[g] <= Len(outputBuffer'[g])
    BY <1>1, <1>2, <2>1 DEF IndInv, TypeOK
  <2> QED
    BY <1>1, <1>2, <2>1, <2>2 DEF IndInv, TypeOK, HandlerTypes
<1>4. TablesInv'
  <2>1. clients' = {g \in Fds : owner'[g] # NoPeer}
    BY <1>1, <1>2 DEF IndInv, TypeOK, TablesInv
  <2>2. clients' = {g \in Fds : watched'[g] # {}}
    BY <1>1, <1>2 DEF IndInv, TypeOK, TablesInv
  <2>3. \A g \in Fds \ clients' : outputBuffer'[g] = <<>> /\ writeOffset'[g] = 0
    BY <1>1, <1>2 DEF IndInv, TypeOK, TablesInv
  <2>4. \A g \in clients' : /\ watched'[g] = watched[g] /\ outputBuffer'[g] = outputBuffer[g]
                            /\ writeOffset'[g] = writeOffset[g] /\ g \in clients
    BY <1>1, <1>2 DEF IndInv, TypeOK
  <2> QED
    BY <2>1, <2>2, <2>3, <2>4 DEF IndInv, TablesInv
<1>5. \A g \in Fds : owner'[g] = IF g = fd THEN NoPeer ELSE owner[g]
  BY <1>1, <1>2 DEF IndInv, TypeOK
<1>6. ConnInv'
  BY <1>5 DEF IndInv, ConnInv, InQueue
<1>7. WaitingInv'
  <2>1. peer[owner[fd]] # "new" /\ ~InQueue(owner[fd])
    BY <1>1, PeerAssumption DEF IndInv, ConnInv
  <2> QED
    BY <2>1 DEF IndInv, EchoInv, WaitingInv, InQueue
<1>8. ASSUME NEW g \in Fds, owner'[g] # NoPeer, peer'[owner'[g]] # "reset"
      PROVE  Echo(g, owner[g])' /\ owner'[g] = owner[g]
  <2>1. /\ g # fd /\ owner'[g] = owner[g] /\ owner[g] # owner[fd] /\ owner[g] \in Peers
        /\ outputBuffer'[g] = outputBuffer[g] /\ writeOffset'[g] = writeOffset[g]
    BY <1>1, <1>2, <1>5, <1>8 DEF IndInv, ConnInv, TypeOK
  <2>2. Echo(g, owner[g])
    BY <1>8, <2>1 DEF IndInv, EchoInv
  <2> QED
    BY <2>1, <2>2 DEF Echo, Pending
<1> QED
  BY <1>3, <1>4, <1>6, <1>7, <1>8 DEF EchoInv

\* A handler that leaves the client connected keeps everything when the
\* streams of its peer are together what they were.
LEMMA ServeKeeps ==
    ASSUME IndInv, NEW fd \in clients, NEW b \in Bytes, NEW w \in Nat, w <= Len(b),
           outputBuffer' = [outputBuffer EXCEPT ![fd] = b],
           writeOffset' = [writeOffset EXCEPT ![fd] = w],
           watched' = [watched EXCEPT ![fd] = EventsFor(w < Len(b))],
           UNCHANGED <<clients, owner, queue, peer, sent, received>>,
           \A q \in Peers \ {owner[fd]} : sendbuf'[q] = sendbuf[q] /\ inbox'[q] = inbox[q],
           \A q \in Peers : Len(sendbuf'[q]) <= SendBuffer,
           LET p == owner[fd] IN
             ((received[p] \o sendbuf'[p]) \o SubSeq(b, w + 1, Len(b))) \o inbox'[p]
               = ((received[p] \o sendbuf[p]) \o Pending(fd)) \o inbox[p]
    PROVE  HandlerTypes' /\ TablesInv' /\ ConnInv' /\ EchoInv'
<1>1. fd \in Fds /\ owner[fd] \in Peers
  BY DEF IndInv, TypeOK, TablesInv
<1>2. \A g \in Fds : /\ outputBuffer'[g] = IF g = fd THEN b ELSE outputBuffer[g]
                     /\ writeOffset'[g] = IF g = fd THEN w ELSE writeOffset[g]
  BY DEF IndInv, TypeOK
<1>3. /\ EventsFor(w < Len(b)) \in SUBSET {"in", "out"} /\ EventsFor(w < Len(b)) # {}
      /\ "out" \in EventsFor(w < Len(b)) <=> w < Len(b)
  BY DEF EventsFor
<1>4. HandlerTypes'
  <2>1. \A g \in Fds : writeOffset'[g] <= Len(outputBuffer'[g])
    BY <1>2 DEF IndInv, TypeOK
  <2> QED
    BY <1>1, <1>3, <2>1 DEF IndInv, TypeOK, HandlerTypes
<1>5. \A g \in Fds : watched'[g] = IF g = fd THEN EventsFor(w < Len(b)) ELSE watched[g]
  BY DEF IndInv, TypeOK
<1>6. TablesInv'
  <2>1. clients' = {g \in Fds : watched'[g] # {}}
    BY <1>1, <1>3, <1>5 DEF IndInv, TablesInv
  <2>2. \A g \in Fds \ clients' : outputBuffer'[g] = <<>> /\ writeOffset'[g] = 0
    BY <1>2 DEF IndInv, TablesInv
  <2>3. ASSUME NEW g \in clients'
        PROVE  "out" \in watched'[g] <=> writeOffset'[g] < Len(outputBuffer'[g])
    <3>1. g \in Fds /\ g \in clients
      BY DEF IndInv, TypeOK
    <3>2. CASE g = fd
      BY <1>2, <1>3, <1>5, <3>1, <3>2
    <3>3. CASE g # fd
      BY <1>2, <1>5, <3>1, <3>3 DEF IndInv, TablesInv
    <3> QED
      BY <3>2, <3>3
  <2> QED
    BY <2>1, <2>2, <2>3 DEF IndInv, TablesInv
<1>7. ConnInv'
  BY DEF IndInv, ConnInv, InQueue
<1>8. WaitingInv'
  <2>1. peer[owner[fd]] # "new" /\ ~InQueue(owner[fd])
    BY <1>1, PeerAssumption DEF IndInv, ConnInv
  <2> QED
    BY <2>1 DEF IndInv, EchoInv, WaitingInv, InQueue
<1>9. ASSUME NEW g \in Fds, owner[g] # NoPeer, peer[owner[g]] # "reset"
      PROVE  Echo(g, owner[g])'
  <2>1. Echo(g, owner[g])
    BY <1>9 DEF IndInv, EchoInv
  <2>2. CASE g = fd
    <3>1. Pending(fd)' = SubSeq(b, w + 1, Len(b))
      BY <1>1, <1>2 DEF Pending
    <3> QED
      BY <2>1, <2>2, <3>1 DEF Echo
  <2>3. CASE g # fd
    <3>1. owner[g] # owner[fd] /\ owner[g] \in Peers
      BY <1>1, <1>9, <2>3 DEF IndInv, ConnInv, TypeOK
    <3>2. Pending(g)' = Pending(g)
      BY <1>2, <2>3 DEF Pending
    <3> QED
      BY <2>1, <3>1, <3>2 DEF Echo
  <2> QED
    BY <2>2, <2>3
<1> QED
  BY <1>4, <1>6, <1>7, <1>8, <1>9 DEF EchoInv

-----------------------------------------------------------------------------
(* The steps.                                                              *)

\* The parts of the state that no handler of a client touches.
LEMMA HandlerTypesSuffice ==
    ASSUME IndInv, HandlerTypes', listening' \in BOOLEAN, accepting' \in BOOLEAN,
           batch' \subseteq [fd : Fds \union {ListenFd}, revents : SUBSET {"err", "in", "out"}],
           UNCHANGED <<queue, peer, sent, received>>,
           inbox' \in [Peers -> Bytes], sendbuf' \in [Peers -> Bytes],
           faults' \in 0 .. MaxFaults
    PROVE  TypeOK'
  BY DEF IndInv, TypeOK, HandlerTypes

\* The error callback, and recv or send on a connection that was reset.
LEMMA OnErrorStep == ASSUME IndInv, NEW e \in batch, OnError(e) PROVE IndInv'
<1>1. /\ e.fd \in clients /\ RemoveClient(e.fd)
      /\ UNCHANGED <<listening, accepting, queue, faults>>
      /\ UNCHANGED <<peer, sent, inbox, sendbuf, received>>
      /\ batch' = batch \ {e}
  BY DEF OnError, Taken, peerVars
<1>2. \A q \in Peers : Len(sendbuf'[q]) <= SendBuffer
  BY <1>1 DEF IndInv, EchoInv
<1>3. HandlerTypes' /\ TablesInv' /\ ConnInv' /\ EchoInv'
  BY <1>1, <1>2, DropKeeps
<1>4. TypeOK'
  BY <1>1, <1>3, HandlerTypesSuffice DEF IndInv, TypeOK
<1> QED
  BY <1>3, <1>4 DEF IndInv

\* A callback that ends in handleClientWrite() over a buffer whose rest, with
\* what stays in the socket, is what there was to send.
LEMMA WriteStep ==
    ASSUME IndInv, NEW fd \in clients, NEW buffer \in Bytes,
           writeOffset[fd] <= Len(buffer), HandleClientWrite(fd, buffer),
           inbox' \in [Peers -> Bytes],
           \A q \in Peers \ {owner[fd]} : inbox'[q] = inbox[q],
           \A r \in Bytes :
             (r \o SubSeq(buffer, writeOffset[fd] + 1, Len(buffer))) \o inbox'[owner[fd]]
               = (r \o Pending(fd)) \o inbox[owner[fd]],
           UNCHANGED <<listening, accepting, queue, peer, sent, received>>,
           batch' \subseteq batch
    PROVE  IndInv'
<1> DEFINE p == owner[fd]
           unsent == SubSeq(buffer, writeOffset[fd] + 1, Len(buffer))
<1>1. /\ p \in Peers
      /\ sendbuf' \in [Peers -> Bytes]
      /\ \A q \in Peers \ {p} : sendbuf'[q] = sendbuf[q]
      /\ Len(sendbuf'[p]) <= SendBuffer
      /\ faults' \in 0 .. MaxFaults
      /\ \/ RemoveClient(fd)
         \/ /\ UNCHANGED <<clients, owner>>
            /\ \E b \in Bytes, w \in Nat :
                 /\ w <= Len(b)
                 /\ outputBuffer' = [outputBuffer EXCEPT ![fd] = b]
                 /\ writeOffset' = [writeOffset EXCEPT ![fd] = w]
                 /\ watched' = [watched EXCEPT ![fd] = EventsFor(w < Len(b))]
                 /\ \A r \in Bytes : (r \o sendbuf'[p]) \o SubSeq(b, w + 1, Len(b))
                                       = (r \o sendbuf[p]) \o unsent
  BY WriteKeeps, Zenon
<1>2. \A q \in Peers : Len(sendbuf'[q]) <= SendBuffer
  BY <1>1 DEF IndInv, EchoInv
<1>3. ASSUME RemoveClient(fd)
      PROVE  HandlerTypes' /\ TablesInv' /\ ConnInv' /\ EchoInv'
  BY <1>1, <1>2, <1>3, DropKeeps
<1>4. ASSUME ~RemoveClient(fd)
      PROVE  HandlerTypes' /\ TablesInv' /\ ConnInv' /\ EchoInv'
  <2>1. UNCHANGED <<clients, owner>>
    BY <1>1, <1>4
  <2>2. PICK b \in Bytes, w \in Nat :
                 /\ w <= Len(b)
                 /\ outputBuffer' = [outputBuffer EXCEPT ![fd] = b]
                 /\ writeOffset' = [writeOffset EXCEPT ![fd] = w]
                 /\ watched' = [watched EXCEPT ![fd] = EventsFor(w < Len(b))]
                 /\ \A r \in Bytes : (r \o sendbuf'[p]) \o SubSeq(b, w + 1, Len(b))
                                       = (r \o sendbuf[p]) \o unsent
    BY <1>1, <1>4, Zenon
  <2>3. received[p] \in Bytes /\ sendbuf[p] \in Bytes
    BY <1>1 DEF IndInv, TypeOK
  <2>4. (received[p] \o sendbuf'[p]) \o SubSeq(b, w + 1, Len(b))
          = (received[p] \o sendbuf[p]) \o unsent
    BY <2>2, <2>3, Zenon
  <2>5. received[p] \o sendbuf[p] \in Bytes
    BY <2>3, BytesConcat
  <2>6. ((received[p] \o sendbuf[p]) \o unsent) \o inbox'[p]
          = ((received[p] \o sendbuf[p]) \o Pending(fd)) \o inbox[p]
    BY <2>5, Zenon
  <2>7. ((received[p] \o sendbuf'[p]) \o SubSeq(b, w + 1, Len(b))) \o inbox'[p]
          = ((received[p] \o sendbuf[p]) \o Pending(fd)) \o inbox[p]
    BY <2>4, <2>6, Zenon
  <2>8. HandlerTypes' /\ TablesInv' /\ ConnInv' /\ EchoInv'
    <3> HIDE DEF unsent
    <3> QED
      BY <1>1, <1>2, <2>1, <2>2, <2>7, ServeKeeps
  <2> QED
    BY <2>8
<1>5. HandlerTypes' /\ TablesInv' /\ ConnInv' /\ EchoInv'
  BY <1>3, <1>4
<1>6. listening' \in BOOLEAN /\ accepting' \in BOOLEAN
      /\ batch' \subseteq [fd : Fds \union {ListenFd}, revents : SUBSET {"err", "in", "out"}]
  BY DEF IndInv, TypeOK
<1>7. TypeOK'
  BY <1>1, <1>5, <1>6, HandlerTypesSuffice
<1> QED
  BY <1>5, <1>7 DEF IndInv

\* The write callback.
LEMMA OnWriteStep == ASSUME IndInv, NEW e \in batch, OnWrite(e) PROVE IndInv'
<1>1. /\ e.fd \in clients /\ HandleClientWrite(e.fd, outputBuffer[e.fd])
      /\ UNCHANGED <<listening, accepting, queue, peer, sent, inbox, received>>
      /\ batch' \subseteq batch
  BY DEF OnWrite, Taken
<1>2. e.fd \in Fds
  BY <1>1 DEF IndInv, TypeOK
<1>3. outputBuffer[e.fd] \in Bytes /\ writeOffset[e.fd] <= Len(outputBuffer[e.fd])
      /\ inbox' \in [Peers -> Bytes]
  BY <1>1, <1>2 DEF IndInv, TypeOK
<1>4. \A r \in Bytes :
        (r \o SubSeq(outputBuffer[e.fd], writeOffset[e.fd] + 1, Len(outputBuffer[e.fd])))
           \o inbox'[owner[e.fd]]
          = (r \o Pending(e.fd)) \o inbox[owner[e.fd]]
  BY <1>1 DEF Pending
<1> QED
  BY <1>1, <1>3, <1>4, WriteStep

\* The read callback: what was received moves from the socket behind the output
\* buffer, or goes with the client at the end of the stream.
LEMMA OnReadStep == ASSUME IndInv, NEW e \in batch, OnRead(e) PROVE IndInv'
<1> DEFINE fd == e.fd
           p == owner[fd]
           buffer == outputBuffer[fd] \o inbox[p]
<1>1. /\ fd \in clients /\ inbox' = [inbox EXCEPT ![p] = <<>>]
      /\ UNCHANGED <<listening, accepting, queue, peer, sent, received>>
      /\ batch' \subseteq batch
      /\ \/ RemoveClient(fd) /\ UNCHANGED <<sendbuf, faults>>
         \/ HandleClientWrite(fd, buffer)
  BY DEF OnRead, Taken
<1> HIDE DEF fd
<1>2. fd \in Fds /\ p \in Peers
  BY <1>1 DEF IndInv, TypeOK, TablesInv
<1>3. /\ inbox' \in [Peers -> Bytes] /\ inbox'[p] = <<>>
      /\ \A q \in Peers \ {p} : inbox'[q] = inbox[q]
  BY <1>1, <1>2, EmptySeq DEF IndInv, TypeOK, Bytes
<1>4. CASE RemoveClient(fd) /\ UNCHANGED <<sendbuf, faults>>
  <2>1. \A q \in Peers : Len(sendbuf'[q]) <= SendBuffer
    BY <1>4 DEF IndInv, EchoInv
  <2>2. HandlerTypes' /\ TablesInv' /\ ConnInv' /\ EchoInv'
    BY <1>1, <1>3, <1>4, <2>1, DropKeeps
  <2>3. TypeOK'
    BY <1>1, <1>3, <1>4, <2>2, HandlerTypesSuffice DEF IndInv, TypeOK
  <2> QED
    BY <2>2, <2>3 DEF IndInv
<1>5. CASE HandleClientWrite(fd, buffer)
  <2> DEFINE in == inbox[p]
             out == outputBuffer[fd]
             wo == writeOffset[fd]
  <2>1. in \in Bytes /\ out \in Bytes /\ wo \in Nat /\ wo <= Len(out)
    BY <1>2 DEF IndInv, TypeOK
  <2>2. Len(in) \in Nat /\ Len(out) \in Nat
    BY <2>1, LenProperties DEF Bytes
  <2>3. buffer \in Bytes /\ Len(buffer) = Len(out) + Len(in)
    BY <2>1, BytesConcat
  <2>4. wo <= Len(buffer)
    <3> HIDE DEF in, out, wo, buffer
    <3> QED
      BY <2>1, <2>2, <2>3
  <2>5. SubSeq(buffer, wo + 1, Len(buffer)) = Pending(fd) \o in
    BY <2>1, RestOfConcat DEF Pending
  <2>6. Pending(fd) \in Bytes
    BY <2>1, <2>2, PartType DEF Pending
  <2> HIDE DEF in
  <2>7. \A r \in Bytes : (r \o (Pending(fd) \o in)) \o <<>> = (r \o Pending(fd)) \o in
    <3> TAKE r \in Bytes
    <3>1. (r \o Pending(fd)) \o in = r \o (Pending(fd) \o in)
      BY <2>1, <2>6, BytesAssociative
    <3>2. Pending(fd) \o in \in Bytes
      BY <2>1, <2>6, BytesConcat
    <3>3. r \o (Pending(fd) \o in) \in Bytes
      BY <3>2, BytesConcat
    <3> QED
      BY <3>1, <3>3, ConcatEmptySeq DEF Bytes
  <2>8. \A r \in Bytes :
          (r \o SubSeq(buffer, wo + 1, Len(buffer))) \o inbox'[p] = (r \o Pending(fd)) \o inbox[p]
    BY <1>3, <2>5, <2>7 DEF in
  <2> HIDE DEF buffer
  <2> QED
    BY <1>1, <1>3, <1>5, <2>3, <2>4, <2>8, WriteStep
<1> QED
  BY <1>1, <1>4, <1>5

\* What epoll reports has the type of a batch.
LEMMA ReadyEventsType ==
    ReadyEvents \subseteq [fd : Fds \union {ListenFd}, revents : SUBSET {"err", "in", "out"}]
<1>1. \A fd \in Fds : Ready(fd) \in SUBSET {"err", "in", "out"}
  BY DEF Ready
<1> QED
  BY <1>1 DEF ReadyEvents

\* Steps that only move the loop on, or open the listening socket.
LEMMA LoopStepKeeps ==
    ASSUME IndInv, Start \/ EpollWait \/ AcceptReturns \/ \E e \in batch : OnAccept(e)
    PROVE  IndInv'
<1>1. UNCHANGED <<clients, outputBuffer, writeOffset, watched, owner, queue, peer, sent,
                  inbox, sendbuf, received, faults>>
  BY DEF Start, EpollWait, AcceptReturns, OnAccept, serverVars, kernelVars, peerVars
<1>2. listening' \in BOOLEAN /\ accepting' \in BOOLEAN
  BY Zenon DEF IndInv, TypeOK, Start, EpollWait, AcceptReturns, OnAccept, serverVars, loopVars
<1>3. batch' \subseteq [fd : Fds \union {ListenFd}, revents : SUBSET {"err", "in", "out"}]
  BY ReadyEventsType DEF IndInv, TypeOK, Start, EpollWait, AcceptReturns, OnAccept, Taken, loopVars
<1>4. TypeOK'
  BY <1>1, <1>2, <1>3 DEF IndInv, TypeOK
<1>5. TablesInv' /\ ConnInv'
  BY <1>1 DEF IndInv, TablesInv, ConnInv, InQueue
<1>6. EchoInv'
  BY <1>1 DEF IndInv, EchoInv, WaitingInv, InQueue, Echo, Pending
<1> QED
  BY <1>4, <1>5, <1>6 DEF IndInv

\* stop() leaves no client, no channel and nobody in the queue.
LEMMA StopStep == ASSUME IndInv, Stop PROVE IndInv'
<1>1. /\ listening' = FALSE /\ clients' = {}
      /\ outputBuffer' = [fd \in Fds |-> <<>>] /\ writeOffset' = [fd \in Fds |-> 0]
      /\ watched' = [fd \in Fds |-> {}]
      /\ owner' = [fd \in Fds |-> NoPeer] /\ queue' = <<>>
      /\ UNCHANGED <<batch, accepting, peer, sent, inbox, sendbuf, received, faults>>
  BY DEF Stop, loopVars, peerVars
<1>2. <<>> \in Bytes /\ <<>> \in Seq(Peers) /\ Len(<<>>) = 0
  BY EmptySeq DEF Bytes
<1>3. listening' \in BOOLEAN /\ accepting' \in BOOLEAN
  BY <1>1, Zenon DEF IndInv, TypeOK
<1>4. TypeOK'
  BY <1>1, <1>2, <1>3 DEF IndInv, TypeOK
<1>5. TablesInv' /\ ConnInv'
  BY <1>1, <1>2 DEF TablesInv, ConnInv, InQueue
<1>6. \A p \in Peers : ~InQueue(p)'
  BY <1>1, <1>2 DEF InQueue
<1>7. EchoInv'
  BY <1>1, <1>6 DEF IndInv, EchoInv, WaitingInv
<1> QED
  BY <1>4, <1>5, <1>7 DEF IndInv

\* One round of the accept loop: the first peer of the queue gets a descriptor
\* that nobody has, or is turned away.
LEMMA AcceptStep == ASSUME IndInv, Accept PROVE IndInv'
<1>0. PICK p : p = Head(queue)
  OBVIOUS
<1>1. /\ queue # <<>> /\ queue' = Tail(queue)
      /\ UNCHANGED <<listening, outputBuffer, writeOffset, batch, accepting, peer, sent,
                     inbox, sendbuf, received>>
  BY DEF Accept, loopVars, peerVars
<1>2. PICK fd \in Fds :
        /\ owner[fd] = NoPeer
        /\ \/ /\ clients' = clients \union {fd}
              /\ watched' = [watched EXCEPT ![fd] = {"in"}]
              /\ owner' = [owner EXCEPT ![fd] = p]
              /\ UNCHANGED faults
           \/ AddFails /\ UNCHANGED <<clients, watched, owner>>
  BY <1>0 DEF Accept, Free
<1>3. /\ queue \in Seq(Peers) /\ p = queue[1] /\ Len(queue) \in Nat \ {0}
      /\ p \in Peers /\ Tail(queue) \in Seq(Peers) /\ Len(Tail(queue)) = Len(queue) - 1
      /\ \A k \in 1 .. Len(Tail(queue)) : Tail(queue)[k] = queue[k + 1]
  BY <1>0, <1>1, HeadTailProperties, EmptySeq DEF IndInv, TypeOK
<1>4. /\ \A q \in Peers : InQueue(q)' => InQueue(q)
      /\ ~InQueue(p)' /\ InQueue(p)
      /\ \A k \in 1 .. Len(queue') : peer[queue'[k]] # "new"
      /\ \A k, l \in 1 .. Len(queue') : queue'[k] = queue'[l] => k = l
  <2>1. \A k \in 1 .. Len(queue') : k + 1 \in 1 .. Len(queue) /\ k + 1 # 1
                                    /\ queue'[k] = queue[k + 1]
    BY <1>1, <1>3
  <2>2. \A q \in Peers : InQueue(q)' => InQueue(q)
    BY <2>1 DEF InQueue
  <2>3. 1 \in 1 .. Len(queue)
    BY <1>3
  <2>4. ~InQueue(p)' /\ InQueue(p)
    <3>1. InQueue(p)
      BY <1>3, <2>3 DEF InQueue
    <3>2. ASSUME NEW k \in 1 .. Len(queue'), queue'[k] = p
          PROVE  FALSE
      <4>1. k + 1 \in 1 .. Len(queue) /\ k + 1 # 1 /\ queue[k + 1] = queue[1]
        BY <1>3, <2>1, <3>2
      <4> QED
        BY <2>3, <4>1 DEF IndInv, ConnInv
    <3> QED
      BY <3>1, <3>2 DEF InQueue
  <2>5. \A k \in 1 .. Len(queue') : peer[queue'[k]] # "new"
    BY <2>1 DEF IndInv, ConnInv
  <2>6. ASSUME NEW k \in 1 .. Len(queue'), NEW l \in 1 .. Len(queue'), queue'[k] = queue'[l]
        PROVE  k = l
    <3>1. k + 1 = l + 1
      BY <2>1, <2>6 DEF IndInv, ConnInv
    <3> QED
      BY <1>1, <1>3, <3>1
  <2> QED
    BY <2>2, <2>4, <2>5, <2>6
<1>5. WaitingInv'
  BY <1>1, <1>4 DEF IndInv, EchoInv, WaitingInv
<1>6. CASE AddFails /\ UNCHANGED <<clients, watched, owner>>
  <2>1. TypeOK'
    BY <1>1, <1>3, <1>6, BoundsAssumption DEF AddFails, IndInv, TypeOK
  <2>2. TablesInv' /\ ConnInv'
    BY <1>1, <1>4, <1>6 DEF IndInv, TablesInv, ConnInv, TypeOK
  <2>3. EchoInv'
    BY <1>1, <1>5, <1>6 DEF IndInv, EchoInv, Echo, Pending
  <2> QED
    BY <2>1, <2>2, <2>3 DEF IndInv
<1>7. CASE /\ clients' = clients \union {fd}
           /\ watched' = [watched EXCEPT ![fd] = {"in"}]
           /\ owner' = [owner EXCEPT ![fd] = p]
           /\ UNCHANGED faults
  <2>1. TypeOK'
    BY <1>1, <1>2, <1>3, <1>7 DEF IndInv, TypeOK
  <2>2. /\ fd \notin clients /\ outputBuffer[fd] = <<>> /\ writeOffset[fd] = 0
        /\ Len(<<>>) = 0
    BY <1>2, EmptySeq DEF IndInv, TablesInv
  <2>3. p # NoPeer
    BY <1>3, PeerAssumption
  <2>4. \A g \in Fds : /\ owner'[g] = IF g = fd THEN p ELSE owner[g]
                       /\ watched'[g] = IF g = fd THEN {"in"} ELSE watched[g]
    BY <1>7 DEF IndInv, TypeOK
  <2>5. TablesInv'
    <3>1. clients' = {g \in Fds : owner'[g] # NoPeer}
      BY <1>7, <2>3, <2>4 DEF IndInv, TablesInv
    <3>2. clients' = {g \in Fds : watched'[g] # {}}
      BY <1>7, <2>4 DEF IndInv, TablesInv
    <3>3. \A g \in Fds \ clients' : outputBuffer'[g] = <<>> /\ writeOffset'[g] = 0
      BY <1>1, <1>7 DEF IndInv, TablesInv
    <3>4. \A g \in clients' :
            "out" \in watched'[g] <=> writeOffset'[g] < Len(outputBuffer'[g])
      BY <1>1, <1>7, <2>2, <2>4 DEF IndInv, TablesInv, TypeOK
    <3> QED
      BY <3>1, <3>2, <3>3, <3>4 DEF TablesInv
  <2>6. ConnInv'
    <3>1. /\ \A g \in Fds : owner[g] # NoPeer => owner[g] # p
          /\ peer[p] # "new"
      BY <1>3, <1>4 DEF IndInv, ConnInv
    <3>2. \A g, other \in Fds : owner'[g] # NoPeer /\ owner'[g] = owner'[other] => g = other
      BY <2>3, <2>4, <3>1 DEF IndInv, ConnInv
    <3>3. \A g \in Fds : owner'[g] # NoPeer =>
                           (peer[owner[g]] # "new" /\ ~InQueue(owner[g]))'
      <4> SUFFICES ASSUME NEW g \in Fds, owner'[g] # NoPeer
                   PROVE  (peer[owner[g]] # "new" /\ ~InQueue(owner[g]))'
        OBVIOUS
      <4>1. CASE g = fd
        BY <1>1, <1>4, <2>4, <3>1, <4>1 DEF InQueue
      <4>2. CASE g # fd
        <5>1. owner'[g] = owner[g] /\ owner[g] \in Peers /\ owner[g] # NoPeer
          BY <2>4, <4>2 DEF IndInv, TypeOK
        <5>2. peer[owner[g]] # "new" /\ ~InQueue(owner[g])
          BY <5>1 DEF IndInv, ConnInv
        <5> QED
          BY <1>1, <1>4, <5>1, <5>2 DEF InQueue
      <4> QED
        BY <4>1, <4>2
    <3> QED
      BY <1>1, <1>4, <3>2, <3>3 DEF ConnInv
  <2>7. ASSUME NEW g \in Fds, owner'[g] # NoPeer, peer'[owner'[g]] # "reset"
        PROVE  Echo(g, owner[g])'
    <3>1. CASE g = fd
      <4>1. /\ received[p] = <<>> /\ sendbuf[p] = <<>> /\ inbox[p] = Stream(sent[p])
        BY <1>1, <1>3, <1>4, <2>4, <2>7, <3>1 DEF IndInv, EchoInv, WaitingInv
      <4>2. Pending(fd)' = <<>>
        BY <1>1, <2>2, SubSeqEmpty DEF Pending
      <4>3. inbox[p] \in Seq(Nat)
        BY <1>3 DEF IndInv, TypeOK, Bytes
      <4>4. ((<<>> \o <<>>) \o <<>>) \o inbox[p] = inbox[p]
        BY <4>3, ConcatEmptySeq
      <4> QED
        BY <1>1, <2>4, <3>1, <4>1, <4>2, <4>4 DEF Echo
    <3>2. CASE g # fd
      BY <1>1, <2>4, <2>7, <3>2 DEF IndInv, EchoInv, Echo, Pending
    <3> QED
      BY <3>1, <3>2
  <2>8. EchoInv'
    BY <1>1, <1>5, <2>7 DEF IndInv, EchoInv
  <2> QED
    BY <2>1, <2>5, <2>6, <2>8 DEF IndInv
<1> QED
  BY <1>2, <1>6, <1>7

\* A peer connects: it enters the queue once, at the end.
LEMMA ConnectStep == ASSUME IndInv, NEW p \in Peers, Connect(p) PROVE IndInv'
<1>1. /\ peer[p] = "new" /\ peer' = [peer EXCEPT ![p] = "open"] /\ queue' = Append(queue, p)
      /\ UNCHANGED <<listening, clients, outputBuffer, writeOffset, watched, batch,
                     accepting, owner, sent, inbox, sendbuf, received, faults>>
  BY DEF Connect, serverVars, loopVars
<1>2. /\ queue \in Seq(Peers) /\ Len(queue) \in Nat /\ queue' \in Seq(Peers)
      /\ Len(queue') = Len(queue) + 1
      /\ \A k \in 1 .. Len(queue) : queue'[k] = queue[k]
      /\ queue'[Len(queue) + 1] = p
  BY <1>1, AppendProperties, LenProperties DEF IndInv, TypeOK
<1>3. \A k \in 1 .. Len(queue') : k \in 1 .. Len(queue) \/ k = Len(queue) + 1
  BY <1>2
<1>4. \A q \in Peers : peer'[q] = IF q = p THEN "open" ELSE peer[q]
  BY <1>1 DEF IndInv, TypeOK
<1>5. ~InQueue(p) /\ \A k \in 1 .. Len(queue) : queue[k] \in Peers /\ queue[k] # p
  BY <1>1, <1>2, ElementOfSeq DEF IndInv, ConnInv, InQueue
<1>6. \A q \in Peers \ {p} : (\E k \in 1 .. Len(queue') : queue'[k] = q) => InQueue(q)
  BY <1>2, <1>3 DEF InQueue
<1>7. TypeOK'
  BY <1>1, <1>2 DEF IndInv, TypeOK
<1>8. TablesInv'
  BY <1>1 DEF IndInv, TablesInv
<1>9. ConnInv'
  <2>1. \A fd, other \in Fds : owner'[fd] # NoPeer /\ owner'[fd] = owner'[other] => fd = other
    BY <1>1 DEF IndInv, ConnInv
  <2>2. ASSUME NEW fd \in Fds, owner'[fd] # NoPeer
        PROVE  (peer[owner[fd]] # "new" /\ ~InQueue(owner[fd]))'
    <3>1. /\ owner'[fd] = owner[fd] /\ owner[fd] \in Peers
          /\ peer[owner[fd]] # "new" /\ ~InQueue(owner[fd])
      BY <1>1, <2>2 DEF IndInv, ConnInv, TypeOK
    <3>2. owner[fd] \in Peers \ {p}
      BY <1>1, <3>1
    <3> QED
      BY <1>4, <1>6, <3>1, <3>2 DEF InQueue
  <2>3. \A k \in 1 .. Len(queue') : peer'[queue'[k]] # "new"
    BY <1>2, <1>3, <1>4, <1>5 DEF IndInv, ConnInv
  <2>4. \A k, l \in 1 .. Len(queue') : queue'[k] = queue'[l] => k = l
    BY <1>2, <1>3, <1>5 DEF IndInv, ConnInv
  <2> QED
    BY <2>1, <2>2, <2>3, <2>4 DEF ConnInv
<1>10. WaitingInv'
  <2> SUFFICES ASSUME NEW q \in Peers, (peer[q] = "new" \/ InQueue(q))'
               PROVE  (/\ received[q] = <<>> /\ sendbuf[q] = <<>>
                       /\ peer[q] # "reset" => inbox[q] = Stream(sent[q]))'
    BY DEF WaitingInv
  <2>1. peer[q] = "new" \/ InQueue(q)
    BY <1>1, <1>4, <1>6 DEF InQueue
  <2>2. peer'[q] # "reset" => peer[q] # "reset"
    BY <1>1, <1>4
  <2> QED
    BY <1>1, <2>1, <2>2 DEF IndInv, EchoInv, WaitingInv
<1>11. EchoInv'
  <2>1. ASSUME NEW fd \in Fds, owner'[fd] # NoPeer, peer'[owner'[fd]] # "reset"
        PROVE  Echo(fd, owner[fd])'
    <3>1. owner[fd] \in Peers /\ owner[fd] # p
      BY <1>1, <2>1 DEF IndInv, ConnInv, TypeOK
    <3> QED
      BY <1>1, <1>4, <2>1, <3>1 DEF IndInv, EchoInv, Echo, Pending
  <2> QED
    BY <1>1, <1>10, <2>1 DEF IndInv, EchoInv
<1> QED
  BY <1>7, <1>8, <1>9, <1>11 DEF IndInv

\* A step of a peer that is connected changes its own streams only; the equation
\* of its connection is all there is to show.
LEMMA PeerStepKeeps ==
    ASSUME IndInv, TypeOK', NEW p \in Peers,
           UNCHANGED <<clients, outputBuffer, writeOffset, watched, owner, queue>>,
           peer[p] # "new" => peer'[p] # "new",
           peer[p] = "new" => peer'[p] = "new",
           peer'[p] # "reset" => peer[p] # "reset",
           \A q \in Peers \ {p} : /\ peer'[q] = peer[q] /\ sent'[q] = sent[q]
                                  /\ inbox'[q] = inbox[q] /\ sendbuf'[q] = sendbuf[q]
                                  /\ received'[q] = received[q],
           Len(sendbuf'[p]) <= SendBuffer,
           received[p] = <<>> /\ sendbuf[p] = <<>> =>
               /\ received'[p] = <<>> /\ sendbuf'[p] = <<>>
               /\ peer'[p] # "reset" /\ inbox[p] = Stream(sent[p])
                     => inbox'[p] = Stream(sent'[p]),
           \A s \in Bytes : peer'[p] # "reset" /\ ((received[p] \o sendbuf[p]) \o s) \o inbox[p]
                                                   = Stream(sent[p])
               => ((received'[p] \o sendbuf'[p]) \o s) \o inbox'[p] = Stream(sent'[p])
    PROVE  IndInv'
<1>1. TablesInv'
  BY DEF IndInv, TablesInv
<1>2. \A q \in Peers : /\ peer'[q] = "new" <=> peer[q] = "new"
                       /\ peer'[q] # "reset" => peer[q] # "reset"
  OBVIOUS
<1>3. \A k \in 1 .. Len(queue) : queue[k] \in Peers
  BY ElementOfSeq DEF IndInv, TypeOK
<1>4. ConnInv'
  BY <1>2, <1>3 DEF IndInv, ConnInv, InQueue, TypeOK
<1>5. WaitingInv'
  <2> SUFFICES ASSUME NEW q \in Peers, (peer[q] = "new" \/ InQueue(q))'
               PROVE  (/\ received[q] = <<>> /\ sendbuf[q] = <<>>
                       /\ peer[q] # "reset" => inbox[q] = Stream(sent[q]))'
    BY DEF WaitingInv
  <2>1. peer[q] = "new" \/ InQueue(q)
    BY <1>2 DEF InQueue
  <2>2. /\ received[q] = <<>> /\ sendbuf[q] = <<>>
        /\ peer[q] # "reset" => inbox[q] = Stream(sent[q])
    BY <2>1 DEF IndInv, EchoInv, WaitingInv
  <2>3. CASE q = p
    BY <2>2, <2>3, <1>2
  <2>4. CASE q # p
    BY <2>2, <2>4, <1>2
  <2> QED
    BY <2>3, <2>4
<1>6. ASSUME NEW fd \in Fds, owner[fd] # NoPeer, peer'[owner[fd]] # "reset"
      PROVE  Echo(fd, owner[fd])'
  <2>1. owner[fd] \in Peers
    BY <1>6 DEF IndInv, TypeOK
  <2>2. Echo(fd, owner[fd])
    BY <1>2, <1>6, <2>1 DEF IndInv, EchoInv
  <2>3. /\ outputBuffer[fd] \in Bytes /\ writeOffset[fd] \in Nat
        /\ writeOffset[fd] <= Len(outputBuffer[fd])
    BY DEF IndInv, TypeOK
  <2>4. Pending(fd) \in Bytes /\ Pending(fd)' = Pending(fd)
    <3>1. Len(outputBuffer[fd]) \in Nat
      BY <2>3, LenProperties DEF Bytes
    <3> QED
      BY <2>3, <3>1, PartType DEF Pending
  <2>5. CASE owner[fd] = p
    BY <1>6, <2>2, <2>4, <2>5 DEF Echo
  <2>6. CASE owner[fd] # p
    BY <2>1, <2>2, <2>4, <2>6 DEF Echo
  <2> QED
    BY <2>5, <2>6
<1>7. \A q \in Peers : Len(sendbuf'[q]) <= SendBuffer
  BY DEF IndInv, EchoInv
<1> QED
  BY <1>1, <1>4, <1>5, <1>6, <1>7 DEF IndInv, EchoInv

\* A peer sends its next byte.
LEMMA SendStep == ASSUME IndInv, NEW p \in Peers, Send(p) PROVE IndInv'
<1>1. /\ peer[p] = "open" /\ sent[p] < MaxBytes /\ sent' = [sent EXCEPT ![p] = @ + 1]
      /\ inbox' = [inbox EXCEPT ![p] = Append(@, sent[p] + 1)]
      /\ UNCHANGED <<listening, clients, outputBuffer, writeOffset, watched, batch,
                     accepting, owner, queue, peer, sendbuf, received, faults>>
  BY DEF Send, serverVars, loopVars, kernelVars
<1>2. /\ sent[p] \in Nat /\ sent[p] + 1 \in 0 .. MaxBytes /\ inbox[p] \in Bytes
      /\ received[p] \in Bytes /\ sendbuf[p] \in Bytes
  BY <1>1, BoundsAssumption DEF IndInv, TypeOK
<1>3. Append(inbox[p], sent[p] + 1) \in Bytes
  BY <1>2, AppendProperties DEF Bytes
<1>4. TypeOK'
  BY <1>1, <1>2, <1>3 DEF IndInv, TypeOK
<1>5. /\ sent'[p] = sent[p] + 1 /\ inbox'[p] = Append(inbox[p], sent[p] + 1)
      /\ \A q \in Peers \ {p} : sent'[q] = sent[q] /\ inbox'[q] = inbox[q]
  BY <1>1 DEF IndInv, TypeOK
<1>6. inbox[p] = Stream(sent[p]) => inbox'[p] = Stream(sent'[p])
  BY <1>2, <1>5, StreamAppend
<1>7. ASSUME NEW s \in Bytes,
             ((received[p] \o sendbuf[p]) \o s) \o inbox[p] = Stream(sent[p])
      PROVE  ((received'[p] \o sendbuf'[p]) \o s) \o inbox'[p] = Stream(sent'[p])
  <2> DEFINE before == (received[p] \o sendbuf[p]) \o s
  <2>1. received[p] \o sendbuf[p] \in Bytes
    BY <1>2, BytesConcat
  <2>2. before \in Bytes
    BY <2>1, BytesConcat
  <2> HIDE DEF before
  <2>3. before \o Append(inbox[p], sent[p] + 1) = Append(before \o inbox[p], sent[p] + 1)
    <3> DEFINE in == inbox[p]
               byte == sent[p] + 1
    <3>1. in \in Seq(Nat) /\ byte \in Nat /\ before \in Seq(Nat)
      BY <1>2, <2>2 DEF Bytes
    <3> HIDE DEF in, byte
    <3>2. before \o Append(in, byte) = Append(before \o in, byte)
      BY <3>1, ConcatAppend
    <3> QED
      BY <3>2 DEF in, byte
  <2>4. before \o inbox[p] = Stream(sent[p])
    BY <1>7 DEF before
  <2>5. before \o inbox'[p] = Stream(sent'[p])
    BY <1>2, <1>5, <2>3, <2>4, StreamAppend
  <2> QED
    BY <1>1, <2>5 DEF before
<1>8. Len(sendbuf'[p]) <= SendBuffer
  BY <1>1 DEF IndInv, EchoInv
<1> QED
  BY <1>1, <1>4, <1>5, <1>6, <1>7, <1>8, PeerStepKeeps

\* A peer shuts down its sending side, or resets the connection and loses what
\* is on its way.
LEMMA EndStep == ASSUME IndInv, NEW p \in Peers, ShutDown(p) \/ ResetByPeer(p) PROVE IndInv'
<1>0. <<>> \in Bytes /\ Len(<<>>) = 0
  BY EmptySeq DEF Bytes
<1>1. CASE ShutDown(p)
  <2>1. /\ peer[p] = "open" /\ peer' = [peer EXCEPT ![p] = "shut"]
        /\ UNCHANGED <<listening, clients, outputBuffer, writeOffset, watched, batch,
                       accepting, owner, queue, sent, inbox, sendbuf, received, faults>>
    BY <1>1 DEF ShutDown, serverVars, loopVars, kernelVars
  <2>2. TypeOK'
    BY <2>1 DEF IndInv, TypeOK
  <2>3. peer'[p] = "shut" /\ \A q \in Peers \ {p} : peer'[q] = peer[q]
    BY <2>1 DEF IndInv, TypeOK
  <2>4. Len(sendbuf'[p]) <= SendBuffer
    BY <2>1 DEF IndInv, EchoInv
  <2> QED
    BY <2>1, <2>2, <2>3, <2>4, PeerStepKeeps
<1>2. CASE ResetByPeer(p)
  <2>1. /\ peer[p] \in {"open", "shut"} /\ peer' = [peer EXCEPT ![p] = "reset"]
        /\ inbox' = [inbox EXCEPT ![p] = <<>>] /\ sendbuf' = [sendbuf EXCEPT ![p] = <<>>]
        /\ UNCHANGED <<listening, clients, outputBuffer, writeOffset, watched, batch,
                       accepting, owner, queue, sent, received, faults>>
    BY <1>2 DEF ResetByPeer, serverVars, loopVars, kernelVars
  <2>2. TypeOK'
    BY <1>0, <2>1 DEF IndInv, TypeOK
  <2>3. /\ peer'[p] = "reset" /\ sendbuf'[p] = <<>>
        /\ \A q \in Peers \ {p} : /\ peer'[q] = peer[q] /\ inbox'[q] = inbox[q]
                                  /\ sendbuf'[q] = sendbuf[q]
    BY <2>1 DEF IndInv, TypeOK
  <2>4. Len(sendbuf'[p]) <= SendBuffer
    BY <1>0, <2>3, SizeAssumption
  <2> QED
    BY <2>1, <2>2, <2>3, <2>4, PeerStepKeeps
<1> QED
  BY <1>1, <1>2

\* A peer reads a byte that came back.
LEMMA ReceiveStep == ASSUME IndInv, NEW p \in Peers, Receive(p) PROVE IndInv'
<1>1. /\ sendbuf[p] # <<>>
      /\ received' = [received EXCEPT ![p] = Append(@, Head(sendbuf[p]))]
      /\ sendbuf' = [sendbuf EXCEPT ![p] = Tail(@)]
      /\ UNCHANGED <<listening, clients, outputBuffer, writeOffset, watched, batch,
                     accepting, owner, queue, peer, sent, inbox, faults>>
  BY DEF Receive, serverVars, loopVars, kernelVars
<1>2. sendbuf[p] \in Bytes /\ received[p] \in Bytes
  BY DEF IndInv, TypeOK
<1>3. /\ Head(sendbuf[p]) \in Nat /\ Tail(sendbuf[p]) \in Bytes
      /\ Len(Tail(sendbuf[p])) = Len(sendbuf[p]) - 1 /\ Len(sendbuf[p]) \in Nat
  BY <1>1, <1>2, HeadTailProperties, LenProperties DEF Bytes
<1>4. Append(received[p], Head(sendbuf[p])) \in Bytes
  BY <1>2, <1>3, AppendProperties DEF Bytes
<1>5. TypeOK'
  BY <1>1, <1>3, <1>4 DEF IndInv, TypeOK
<1>6. /\ received'[p] = Append(received[p], Head(sendbuf[p])) /\ sendbuf'[p] = Tail(sendbuf[p])
      /\ \A q \in Peers \ {p} : received'[q] = received[q] /\ sendbuf'[q] = sendbuf[q]
  BY <1>1 DEF IndInv, TypeOK
<1>7. received'[p] \o sendbuf'[p] = received[p] \o sendbuf[p]
  BY <1>1, <1>2, <1>6, ConcatHeadTail DEF Bytes
<1>8. Len(sendbuf'[p]) <= SendBuffer
  <2>1. Len(sendbuf[p]) <= SendBuffer
    BY DEF IndInv, EchoInv
  <2> QED
    BY <1>3, <1>6, <2>1, SizeAssumption
<1> QED
  BY <1>1, <1>5, <1>6, <1>7, <1>8, PeerStepKeeps

-----------------------------------------------------------------------------
(* The theorems.                                                           *)

\* Nobody is connected in the beginning, and nobody has sent.
LEMMA InitInv == Init => IndInv
<1> SUFFICES ASSUME Init PROVE IndInv
  OBVIOUS
<1>1. <<>> \in Bytes /\ <<>> \in Seq(Peers) /\ Len(<<>>) = 0
  BY EmptySeq DEF Bytes
<1>2. listening \in BOOLEAN /\ accepting \in BOOLEAN
  BY Zenon DEF Init
<1>3. TypeOK
  BY <1>1, <1>2, BoundsAssumption DEF Init, TypeOK
<1>4. TablesInv /\ ConnInv
  BY <1>1 DEF Init, TablesInv, ConnInv, InQueue
<1>5. Stream(0) = <<>>
  BY StreamType, EmptySeq DEF Bytes
<1>6. EchoInv
  BY <1>1, <1>5, SizeAssumption DEF Init, EchoInv, WaitingInv
<1> QED
  BY <1>3, <1>4, <1>6 DEF IndInv

\* Every step of the loop, of the server's owner and of the peers keeps IndInv.
LEMMA NextInv == IndInv /\ [Next]_vars => IndInv'
<1> SUFFICES ASSUME IndInv, [Next]_vars PROVE IndInv'
  OBVIOUS
<1>1. CASE UNCHANGED vars
  <2>1. UNCHANGED <<listening, clients, outputBuffer, writeOffset, watched, batch, accepting,
                    owner, queue, peer, sent, inbox, sendbuf, received, faults>>
    BY <1>1 DEF vars, serverVars, loopVars, kernelVars, peerVars
  <2>2. TypeOK'
    BY <2>1 DEF IndInv, TypeOK
  <2>3. TablesInv' /\ ConnInv'
    BY <2>1 DEF IndInv, TablesInv, ConnInv, InQueue
  <2>4. EchoInv'
    BY <2>1 DEF IndInv, EchoInv, WaitingInv, InQueue, Echo, Pending
  <2> QED
    BY <2>2, <2>3, <2>4 DEF IndInv
<1>2. CASE Start \/ EpollWait \/ AcceptReturns \/ \E e \in batch : OnAccept(e)
  BY <1>2, LoopStepKeeps
<1>3. CASE Stop \/ Accept
  BY <1>3, StopStep, AcceptStep
<1>4. CASE \E e \in batch : OnError(e) \/ OnRead(e) \/ OnWrite(e)
  BY <1>4, OnErrorStep, OnReadStep, OnWriteStep
<1>5. CASE \E p \in Peers : \/ Connect(p) \/ Send(p) \/ ShutDown(p)
                            \/ ResetByPeer(p) \/ Receive(p)
  BY <1>5, ConnectStep, SendStep, EndStep, ReceiveStep
<1> QED
  BY <1>1, <1>2, <1>3, <1>4, <1>5 DEF Next, LoopStep, Dispatch

\* The inductive invariant holds throughout.
THEOREM Invariance == Spec => []IndInv
  BY InitInv, NextInv, PTL DEF Spec

\* handleClientRead() and handleClientWrite() return to every peer exactly the
\* bytes it has sent, in order, through any number of partial sends, and
\* whatever events are dispatched late.
THEOREM EchoSafety == Spec => []EchoIsExact
<1>1. IndInv => EchoIsExact
  BY DEF IndInv, EchoInv, EchoIsExact, Echo, Stream
<1> QED
  BY <1>1, Invariance, PTL

\* clients_, the channels of the loop and the open descriptors agree after every
\* handler, and EPOLLOUT is watched exactly while output is pending.
THEOREM TableSafety == Spec => []TablesAgree
<1>1. IndInv => TablesAgree
  <2> SUFFICES ASSUME IndInv PROVE TablesAgree
    OBVIOUS
  <2>1. ASSUME NEW fd \in clients
        PROVE  "out" \in watched[fd] <=> Pending(fd) # <<>>
    <3>1. /\ fd \in Fds /\ outputBuffer[fd] \in Bytes /\ writeOffset[fd] \in Nat
          /\ writeOffset[fd] <= Len(outputBuffer[fd])
      BY DEF IndInv, TypeOK
    <3>2. Len(outputBuffer[fd]) \in Nat
      BY <3>1, LenProperties DEF Bytes
    <3>3. Pending(fd) \in Bytes
          /\ Len(Pending(fd)) = Len(outputBuffer[fd]) - writeOffset[fd]
      BY <3>1, <3>2, PartType DEF Pending
    <3>4. Pending(fd) # <<>> <=> Len(Pending(fd)) # 0
      BY <3>3, EmptySeq DEF Bytes
    <3>5. Pending(fd) # <<>> <=> writeOffset[fd] < Len(outputBuffer[fd])
      BY <3>1, <3>2, <3>3, <3>4
    <3> QED
      BY <3>5 DEF IndInv, TablesInv
  <2>2. \A fd, other \in clients : owner[fd] = owner[other] => fd = other
    BY DEF IndInv, TablesInv, ConnInv
  <2> QED
    BY <2>1, <2>2 DEF IndInv, TablesInv, TablesAgree
<1> QED
  BY <1>1, Invariance, PTL

=============================================================================
