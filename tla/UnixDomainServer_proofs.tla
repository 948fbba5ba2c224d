----------------------- MODULE UnixDomainServer_proofs -----------------------
(***************************************************************************)
(* Proofs about the control interface, for any number of gateways and      *)
(* clients and any bounds.                                                 *)
(*                                                                         *)
(* The path protocol first: PathInv says who may still act when the path   *)
(* names nothing or a dead socket, and that a gateway the path names has   *)
(* still to unlink it.  The clients only add failures to it (FaultStep).   *)
(* Then the clients: ConnectedInv ties them to a listening socket, and AnswersInv   *)
(* is the conservation law of one connection, as an equation on sequences. *)
(***************************************************************************)
EXTENDS UnixDomainServer, SequenceTheorems, FiniteSetTheorems, TLAPS

-----------------------------------------------------------------------------
(* The path.                                                               *)

\* A gateway that the path names has created it and will remove it.
NamedIsOwned == path \in Instances => owns[path]

\* While no call has failed, no start() has, and somebody is left to create the
\* path when it is free, and to find out about a dead socket.
SomebodyActs ==
    faults = 0 =>
        /\ \A i \in Instances : pc[i] # "failing"
        /\ path = "none" => \E i \in Instances :
              pc[i] \in {"off", "lstat", "bind", "listen", "register", "running",
                         "stopping"}
        /\ path = "dead" => \E i \in Instances : pc[i] \notin {"bind", "refused"}

PathInv == TypeOK /\ NamedIsOwned /\ SomebodyActs

\* What the clients' side does to the variables of the path: calls fail.
FaultStep ==
    /\ UNCHANGED <<path, pc, socket, owns, starts, crashes>>
    /\ faults' \in faults .. MaxFaults

\* The path protocol starts in the invariant: nobody has been refused yet.
LEMMA InitPathInv == Init => PathInv
<1> SUFFICES ASSUME Init PROVE PathInv
  OBVIOUS
<1> USE InstancesAssumption, BoundsAssumption
<1>1. TypeOK
  BY DEF Init, TypeOK
<1>2. NamedIsOwned
  BY DEF Init, NamedIsOwned
<1>3. SomebodyActs
  BY DEF Init, SomebodyActs
<1> QED
  BY <1>1, <1>2, <1>3 DEF PathInv

\* Every system call of start() and of stop() keeps the types, and
\* ownsSocketPath_, the socket and the position in start() together.
LEMMA PathTypesStep ==
    ASSUME TypeOK, NEW i \in Instances, GoesOn(i) \/ Ends(i)
    PROVE  TypeOK'
<1> USE BoundsAssumption
<1>1. CASE Start(i)
  BY <1>1 DEF TypeOK, Start, Goto
<1>2. CASE Lstat(i)
  BY <1>2 DEF TypeOK, Lstat, Goto, counters
<1>3. CASE Probe(i)
  BY <1>3 DEF TypeOK, Probe, Goto, counters
<1>4. CASE Unlink(i)
  BY <1>4 DEF TypeOK, Unlink, Goto, counters
<1>5. CASE Bind(i)
  <2>1. owns' \in [Instances -> BOOLEAN]
    BY <1>5, Zenon DEF TypeOK, Bind
  <2>2. CASE path # "none"
    BY <1>5, <2>1, <2>2 DEF TypeOK, Bind, Goto, counters
  <2>3. CASE path = "none"
    BY <1>5, <2>1, <2>3 DEF TypeOK, Bind, Goto, counters
  <2> QED
    BY <2>2, <2>3
<1>6. CASE Listen(i)
  BY <1>6 DEF TypeOK, Listen, Goto, counters
<1>7. CASE Register(i)
  BY <1>7 DEF TypeOK, Register, Goto, counters
<1>8. CASE StartFails(i)
  BY <1>8 DEF TypeOK, StartFails, Goto, CloseSocket
<1>9. CASE Stop(i)
  BY <1>9 DEF TypeOK, Stop, Goto, CloseSocket, counters
<1>10. CASE StopEnds(i) \/ StopAgain(i)
  <2>1. owns' \in [Instances -> BOOLEAN]
    BY <1>10, Zenon DEF TypeOK, StopEnds, StopAgain, UnlinkOwned
  <2> QED
    BY <1>10, <2>1 DEF TypeOK, StopEnds, StopAgain, UnlinkOwned, Goto, counters
<1>11. CASE Crash(i)
  <2>1. owns' \in [Instances -> BOOLEAN]
    BY <1>11, Zenon DEF TypeOK, Crash
  <2> QED
    BY <1>11, <2>1 DEF TypeOK, Crash, Goto, CloseSocket
<1> QED
  BY <1>1, <1>2, <1>3, <1>4, <1>5, <1>6, <1>7, <1>8, <1>9, <1>10, <1>11
  DEF GoesOn, StartStep, Ends

\* Whoever may act when the path is free or dead keeps being there, and nobody
\* gives up ownsSocketPath_ while the path is his.
LEMMA PathActsStep ==
    ASSUME PathInv, NEW i \in Instances, GoesOn(i) \/ Ends(i)
    PROVE  NamedIsOwned' /\ SomebodyActs'
<1> USE InstancesAssumption, BoundsAssumption DEF PathInv, NamedIsOwned
<1>0. i \notin {"none", "file", "dead"}
  OBVIOUS
<1>1. CASE Start(i)
  <2>1. NamedIsOwned'
    BY <1>0, <1>1 DEF TypeOK, Start, Goto
  <2>2. SomebodyActs'
    BY <1>0, <1>1 DEF TypeOK, Start, Goto, SomebodyActs
  <2> QED BY <2>1, <2>2
<1>2. CASE Lstat(i)
  <2>1. NamedIsOwned'
    BY <1>0, <1>2 DEF TypeOK, Lstat, Goto
  <2>2. SomebodyActs'
    BY <1>0, <1>2 DEF TypeOK, Lstat, Goto, SomebodyActs, counters
  <2> QED BY <2>1, <2>2
<1>3. CASE Probe(i)
  <2>1. NamedIsOwned'
    BY <1>0, <1>3 DEF TypeOK, Probe, Goto
  <2>2. SomebodyActs'
    BY <1>0, <1>3 DEF TypeOK, Probe, Goto, SomebodyActs, IsStale, counters
  <2> QED BY <2>1, <2>2
<1>4. CASE Unlink(i)
  <2>1. NamedIsOwned'
    BY <1>0, <1>4 DEF TypeOK, Unlink, Goto
  <2>2. SomebodyActs'
    BY <1>0, <1>4 DEF TypeOK, Unlink, Goto, SomebodyActs, counters
  <2> QED BY <2>1, <2>2
<1>5. CASE Bind(i)
  <2>1. NamedIsOwned'
    BY <1>0, <1>5 DEF TypeOK, Bind, Goto
  <2>2. SomebodyActs'
    BY <1>0, <1>5 DEF TypeOK, Bind, Goto, SomebodyActs, counters
  <2> QED BY <2>1, <2>2
<1>6. CASE Listen(i)
  <2>1. NamedIsOwned'
    BY <1>0, <1>6 DEF TypeOK, Listen, Goto
  <2>2. SomebodyActs'
    BY <1>0, <1>6 DEF TypeOK, Listen, Goto, SomebodyActs, counters
  <2> QED BY <2>1, <2>2
<1>7. CASE Register(i)
  <2>1. NamedIsOwned'
    BY <1>0, <1>7 DEF TypeOK, Register, Goto
  <2>2. SomebodyActs'
    BY <1>0, <1>7 DEF TypeOK, Register, Goto, SomebodyActs, counters
  <2> QED BY <2>1, <2>2
<1>8. CASE StartFails(i)
  <2>1. NamedIsOwned'
    BY <1>0, <1>8 DEF TypeOK, StartFails, Goto
  <2>2. SomebodyActs'
    BY <1>0, <1>8 DEF TypeOK, StartFails, Goto, SomebodyActs
  <2> QED BY <2>1, <2>2
<1>9. CASE Stop(i)
  <2>1. NamedIsOwned'
    BY <1>0, <1>9 DEF TypeOK, Stop, Goto
  <2>2. SomebodyActs'
    BY <1>0, <1>9 DEF TypeOK, Stop, Goto, SomebodyActs, counters
  <2> QED BY <2>1, <2>2
<1>10. CASE StopEnds(i)
  <2>1. NamedIsOwned'
    BY <1>0, <1>10 DEF TypeOK, StopEnds, Goto, UnlinkOwned
  <2>2. SomebodyActs'
    BY <1>0, <1>10 DEF TypeOK, StopEnds, Goto, UnlinkOwned, SomebodyActs, counters
  <2> QED BY <2>1, <2>2
<1>11. CASE StopAgain(i)
  <2>1. NamedIsOwned'
    BY <1>0, <1>11 DEF TypeOK, StopAgain, Goto, UnlinkOwned
  <2>2. SomebodyActs'
    BY <1>0, <1>11 DEF TypeOK, StopAgain, Goto, UnlinkOwned, SomebodyActs, counters
  <2> QED BY <2>1, <2>2
<1>12. CASE Crash(i)
  <2>1. NamedIsOwned'
    BY <1>0, <1>12 DEF TypeOK, Crash, Goto
  <2>2. SomebodyActs'
    BY <1>0, <1>12 DEF TypeOK, Crash, Goto, SomebodyActs
  <2> QED BY <2>1, <2>2
<1> QED
  BY <1>1, <1>2, <1>3, <1>4, <1>5, <1>6, <1>7, <1>8, <1>9, <1>10, <1>11, <1>12
  DEF GoesOn, StartStep, Ends

\* The path invariant is inductive, also under failures on the clients' side.
LEMMA PathInvStep ==
    PathInv /\ (Next \/ FaultStep \/ UNCHANGED vars) => PathInv'
<1> SUFFICES ASSUME PathInv, Next \/ FaultStep \/ UNCHANGED vars PROVE PathInv'
  OBVIOUS
<1>1. ASSUME NEW i \in Instances, GoesOn(i) \/ Ends(i)
      PROVE  PathInv'
  BY <1>1, PathTypesStep, PathActsStep DEF PathInv
<1>2. CASE FaultStep
  <2>1. TypeOK'
    BY <1>2, BoundsAssumption DEF FaultStep, PathInv, TypeOK
  <2>2. NamedIsOwned' /\ SomebodyActs'
    BY <1>2, BoundsAssumption
    DEF FaultStep, PathInv, TypeOK, NamedIsOwned, SomebodyActs
  <2> QED
    BY <2>1, <2>2 DEF PathInv
<1>3. CASE PutFile
  <2>1. TypeOK'
    BY <1>3 DEF PutFile, counters, PathInv, TypeOK
  <2>2. NamedIsOwned' /\ SomebodyActs'
    BY <1>3, InstancesAssumption
    DEF PutFile, counters, PathInv, TypeOK, NamedIsOwned, SomebodyActs
  <2> QED
    BY <2>1, <2>2 DEF PathInv
<1>4. CASE UNCHANGED vars
  BY <1>4 DEF vars, counters, PathInv, TypeOK, NamedIsOwned, SomebodyActs
<1> QED
  BY <1>1, <1>2, <1>3, <1>4 DEF Next

\* The invariant says what the run checks: not everybody is refused, and a
\* gateway at rest has left no socket at the path.
LEMMA PathInvImplies ==
    PathInv => /\ NotAllRefused
               /\ \A i \in Instances : pc[i] \in {"off", "refused"} => path # i
<1> SUFFICES ASSUME PathInv
             PROVE  /\ NotAllRefused
                    /\ \A i \in Instances : pc[i] \in {"off", "refused"} => path # i
  OBVIOUS
<1>1. \A i \in Instances : pc[i] \in {"off", "refused"} => path # i
  BY DEF PathInv, TypeOK, NamedIsOwned
<1>2. ASSUME \A i \in Instances : pc[i] = "refused", path # "file", faults <= 0
      PROVE  FALSE
  <2>1. faults = 0
    BY <1>2, BoundsAssumption DEF PathInv, TypeOK
  <2>2. path \notin Instances
    BY <1>1, <1>2
  <2>3. path \in {"none", "dead"}
    BY <1>2, <2>2 DEF PathInv, TypeOK
  <2> QED
    BY <1>2, <2>1, <2>3 DEF PathInv, SomebodyActs
<1>3. NotAllRefused
  BY <1>2, BoundsAssumption DEF NotAllRefused, PathInv, TypeOK
<1> QED
  BY <1>1, <1>3

\* What a step may not do to the path: the action of PathIsRespected.
Respected ==
    /\ FileIsSafe => FileIsSafe'
    /\ \A j \in Instances : SocketIsSafe(j) =>
          SocketIsSafe(j)' \/ pc'[j] \notin {"register", "running"}

\* Nobody who finds a file at the path, or has found nothing there, gets to
\* unlink or to stop().
LEMMA FileStep ==
    ASSUME TypeOK, NEW i \in Instances, GoesOn(i) \/ Ends(i), FileIsSafe
    PROVE  FileIsSafe'
<1> USE InstancesAssumption DEF FileIsSafe, Harmless
<1>1. CASE Start(i) \/ Lstat(i)
  BY <1>1 DEF TypeOK, Start, Lstat, Goto
<1>2. CASE Bind(i)
  BY <1>2 DEF TypeOK, Bind, Goto
<1>3. CASE StopAgain(i)
  BY <1>3 DEF TypeOK, StopAgain, UnlinkOwned, Goto
<1>4. CASE Crash(i)
  BY <1>4 DEF TypeOK, Crash, Goto
<1>5. CASE Probe(i) \/ Unlink(i) \/ Listen(i) \/ Register(i)
           \/ StartFails(i) \/ Stop(i) \/ StopEnds(i)
  BY <1>5 DEF Probe, Unlink, Listen, Register, StartFails, Stop, StopEnds
<1> QED
  BY <1>1, <1>2, <1>3, <1>4, <1>5 DEF GoesOn, StartStep, Ends

\* Nobody but its own gateway gets from a listening socket to an unlink.
LEMMA SocketStep ==
    ASSUME TypeOK, NEW i \in Instances, GoesOn(i) \/ Ends(i),
           NEW j \in Instances, SocketIsSafe(j)
    PROVE  SocketIsSafe(j)' \/ pc'[j] \notin {"register", "running"}
<1> USE InstancesAssumption DEF SocketIsSafe, Harmless
<1>1. CASE i = j
  <2>1. CASE Register(i)
    BY <1>1, <2>1 DEF TypeOK, Register, Goto
  <2>2. CASE StartFails(i) \/ Stop(i) \/ Crash(i)
    BY <1>1, <2>2 DEF TypeOK, StartFails, Stop, Crash, Goto
  <2>3. CASE Start(i) \/ Lstat(i) \/ Probe(i) \/ Unlink(i) \/ Bind(i) \/ Listen(i)
             \/ StopEnds(i) \/ StopAgain(i)
    BY <1>1, <2>3 DEF Start, Lstat, Probe, Unlink, Bind, Listen, StopEnds, StopAgain
  <2> QED
    BY <2>1, <2>2, <2>3 DEF GoesOn, StartStep, Ends
<1>2. CASE i # j
  <2>1. CASE Start(i) \/ Lstat(i)
    BY <1>2, <2>1 DEF TypeOK, Start, Lstat, Goto
  <2>2. CASE Probe(i)
    <3>1. ~IsStale
      BY DEF TypeOK, IsStale
    <3> QED
      BY <1>2, <2>2, <3>1 DEF TypeOK, Probe, Goto
  <2>3. CASE Bind(i)
    BY <1>2, <2>3 DEF TypeOK, Bind, Goto
  <2>4. CASE StopAgain(i)
    BY <1>2, <2>4 DEF TypeOK, StopAgain, UnlinkOwned, Goto
  <2>5. CASE Crash(i)
    BY <1>2, <2>5 DEF TypeOK, Crash, Goto
  <2>6. CASE Unlink(i) \/ Listen(i) \/ Register(i) \/ StartFails(i) \/ Stop(i)
             \/ StopEnds(i)
    BY <1>2, <2>6 DEF Unlink, Listen, Register, StartFails, Stop, StopEnds
  <2> QED
    BY <2>1, <2>2, <2>3, <2>4, <2>5, <2>6 DEF GoesOn, StartStep, Ends
<1> QED
  BY <1>1, <1>2

\* No step takes a safe path away, whoever takes it.
LEMMA PathRespectedStep ==
    ASSUME PathInv, Next \/ FaultStep \/ UNCHANGED vars
    PROVE  Respected
<1>1. ASSUME NEW i \in Instances, GoesOn(i) \/ Ends(i)
      PROVE  Respected
  BY <1>1, FileStep, SocketStep DEF PathInv, Respected
<1>2. CASE PutFile
  BY <1>2, InstancesAssumption DEF PutFile, Respected, FileIsSafe, SocketIsSafe
<1>3. CASE FaultStep \/ UNCHANGED vars
  BY <1>3 DEF FaultStep, vars, Respected, FileIsSafe, SocketIsSafe
<1> QED
  BY <1>1, <1>2, <1>3 DEF Next

-----------------------------------------------------------------------------
(* One connection.                                                         *)

Answers == {Response(r) : r \in Requests}

\* A request is answered by one response, whatever it is.
LEMMA ResponsesType ==
    ASSUME NEW s \in Seq(Requests)
    PROVE  /\ Responses(s) \in Seq(Answers)
           /\ Len(Responses(s)) = Len(s)
           /\ \A n \in 1 .. Len(s) : Responses(s)[n] = Response(s[n])
<1>1. \A n \in 1 .. Len(s) : Response(s[n]) \in Answers
  BY DEF Answers
<1>2. Responses(s) \in [1 .. Len(s) -> Answers]
  BY <1>1 DEF Responses
<1>3. Responses(s) \in Seq(Answers) /\ Len(Responses(s)) = Len(s)
  BY <1>2, SeqDef
<1> QED
  BY <1>3 DEF Responses

\* Nothing is answered to nothing.
LEMMA ResponsesEmpty == Responses(<<>>) = <<>>
<1>1. <<>> \in Seq(Requests) /\ Len(<<>>) = 0
  BY EmptySeq
<1>2. Responses(<<>>) \in Seq(Answers) /\ Len(Responses(<<>>)) = 0
  BY <1>1, ResponsesType
<1> QED
  BY <1>2, EmptySeq

\* A further request adds its response at the end.
LEMMA ResponsesAppend ==
    ASSUME NEW s \in Seq(Requests), NEW r \in Requests
    PROVE  Responses(Append(s, r)) = Append(Responses(s), Response(r))
<1>1. Append(s, r) \in Seq(Requests) /\ Response(r) \in Answers
  BY DEF Answers
<1>2. /\ Responses(s) \in Seq(Answers) /\ Len(Responses(s)) = Len(s)
      /\ \A n \in 1 .. Len(s) : Responses(s)[n] = Response(s[n])
  BY ResponsesType
<1>3. /\ Responses(Append(s, r)) \in Seq(Answers)
      /\ Len(Responses(Append(s, r))) = Len(s) + 1
      /\ \A n \in 1 .. Len(s) + 1 :
            Responses(Append(s, r))[n] = Response(Append(s, r)[n])
  <2>1. Len(Append(s, r)) = Len(s) + 1
    BY AppendProperties
  <2> QED
    BY <1>1, <2>1, ResponsesType, Zenon
<1>4. /\ Append(Responses(s), Response(r)) \in Seq(Answers)
      /\ Len(Append(Responses(s), Response(r))) = Len(s) + 1
      /\ \A n \in 1 .. Len(s) :
            Append(Responses(s), Response(r))[n] = Responses(s)[n]
      /\ Append(Responses(s), Response(r))[Len(s) + 1] = Response(r)
  BY <1>1, <1>2, AppendProperties
<1>5. \A n \in 1 .. Len(s) + 1 :
        Responses(Append(s, r))[n] = Append(Responses(s), Response(r))[n]
  <2> TAKE n \in 1 .. Len(s) + 1
  <2>1. CASE n = Len(s) + 1
    BY <2>1, <1>3, <1>4, AppendProperties
  <2>2. CASE n \in 1 .. Len(s)
    BY <2>2, <1>2, <1>3, <1>4, AppendProperties
  <2> QED
    <3>1. Len(s) \in Nat
      BY LenProperties
    <3>2. n = Len(s) + 1 \/ n \in 1 .. Len(s)
      BY <3>1
    <3> QED
      BY <2>1, <2>2, <3>2, Zenon
<1> QED
  BY <1>3, <1>4, <1>5, SeqEqual

\* Appending to the last of two sequences appends to both.
LEMMA ConcatAppend ==
    ASSUME NEW S, NEW s \in Seq(S), NEW t \in Seq(S), NEW e \in S
    PROVE  s \o Append(t, e) = Append(s \o t, e)
<1>1. <<e>> \in Seq(S) /\ s \o t \in Seq(S)
  OBVIOUS
<1>2. s \o Append(t, e) = s \o (t \o <<e>>)
  BY AppendIsConcat
<1>3. Append(s \o t, e) = (s \o t) \o <<e>>
  BY <1>1, AppendIsConcat
<1> QED
  BY <1>1, <1>2, <1>3, ConcatAssociative

\* The first element of the second sequence may move to the end of the first.
LEMMA ConcatHeadTail ==
    ASSUME NEW S, NEW s \in Seq(S), NEW t \in Seq(S), t # <<>>
    PROVE  Append(s, Head(t)) \o Tail(t) = s \o t
<1> DEFINE a == Append(s, Head(t)) \o Tail(t)
           b == s \o t
<1>1. /\ Head(t) \in S /\ Tail(t) \in Seq(S) /\ Len(Tail(t)) = Len(t) - 1
      /\ \A n \in 1 .. Len(Tail(t)) : Tail(t)[n] = t[n + 1]
      /\ Head(t) = t[1] /\ Len(t) \in Nat \ {0} /\ Len(s) \in Nat
  BY HeadTailProperties, EmptySeq
<1>2. /\ Append(s, Head(t)) \in Seq(S) /\ Len(Append(s, Head(t))) = Len(s) + 1
      /\ \A n \in 1 .. Len(s) : Append(s, Head(t))[n] = s[n]
      /\ Append(s, Head(t))[Len(s) + 1] = t[1]
  BY <1>1, AppendProperties
<1>3. /\ a \in Seq(S) /\ Len(a) = Len(s) + Len(t)
      /\ \A n \in 1 .. Len(s) + Len(t) :
           a[n] = IF n <= Len(s) + 1 THEN Append(s, Head(t))[n]
                                     ELSE Tail(t)[n - (Len(s) + 1)]
  BY <1>1, <1>2, ConcatProperties
<1>4. /\ b \in Seq(S) /\ Len(b) = Len(s) + Len(t)
      /\ \A n \in 1 .. Len(s) + Len(t) :
           b[n] = IF n <= Len(s) THEN s[n] ELSE t[n - Len(s)]
  BY ConcatProperties
<1> HIDE DEF a, b
<1>5. \A n \in 1 .. Len(s) + Len(t) : a[n] = b[n]
  <2> TAKE n \in 1 .. Len(s) + Len(t)
  <2>1. CASE n <= Len(s) + 1
    BY <2>1, <1>1, <1>2, <1>3, <1>4
  <2>2. CASE n > Len(s) + 1
    <3>1. n - (Len(s) + 1) \in 1 .. Len(Tail(t))
      BY <2>2, <1>1
    <3>2. Tail(t)[n - (Len(s) + 1)] = t[n - Len(s)]
      BY <3>1, <1>1
    <3>3. ~(n <= Len(s) + 1) /\ ~(n <= Len(s))
      BY <2>2, <1>1
    <3> QED
      BY <3>2, <3>3, <1>3, <1>4
  <2> QED
    BY <2>1, <2>2, <1>1
<1>6. a = b
  BY <1>3, <1>4, <1>5, SeqEqual
<1> QED
  BY <1>6 DEF a, b

\* A sequence is its first n elements and the rest.
LEMMA ConcatSplit ==
    ASSUME NEW S, NEW s \in Seq(S), NEW n \in 0 .. Len(s)
    PROVE  /\ SubSeq(s, 1, n) \in Seq(S) /\ Len(SubSeq(s, 1, n)) = n
           /\ SubSeq(s, n + 1, Len(s)) \in Seq(S)
           /\ SubSeq(s, 1, n) \o SubSeq(s, n + 1, Len(s)) = s
<1>1. Len(s) \in Nat /\ n \in Int /\ 1 \in Int /\ n + 1 \in Int /\ Len(s) \in Int
  BY LenProperties
<1>2. \A i \in 1 .. n : s[i] \in S
  BY <1>1, ElementOfSeq
<1>3. \A i \in n + 1 .. Len(s) : s[i] \in S
  BY <1>1, ElementOfSeq
<1>4. SubSeq(s, 1, n) \in Seq(S) /\ Len(SubSeq(s, 1, n)) = n
  <2>1. SubSeq(s, 1, n) \in Seq(S)
    BY <1>1, <1>2, SubSeqProperties, Zenon
  <2>2. Len(SubSeq(s, 1, n)) = IF 1 <= n THEN n - 1 + 1 ELSE 0
    BY <1>1, <1>2, SubSeqProperties
  <2> QED
    BY <1>1, <2>1, <2>2
<1>5. SubSeq(s, n + 1, Len(s)) \in Seq(S)
  BY <1>1, <1>3, SubSeqProperties, Zenon
<1>6. /\ 1 \in 1 .. Len(s) + 1 /\ n \in 1 - 1 .. Len(s) /\ Len(s) \in n .. Len(s)
  BY <1>1
<1>7. SubSeq(s, 1, n) \o SubSeq(s, n + 1, Len(s)) = SubSeq(s, 1, Len(s))
  BY <1>6, ConcatAdjacentSubSeq, Zenon
<1> QED
  BY <1>4, <1>5, <1>7, SubSeqFull, Zenon

-----------------------------------------------------------------------------
(* The clients.                                                            *)

\* The messages of a connection.
MessagesInv ==
    /\ requests \in [Clients -> Seq(Requests)] /\ inbox \in [Clients -> Seq(Requests)]
    /\ outputMessages \in [Clients -> Seq(Answers)]
    /\ sendbuf \in [Clients -> Seq(Answers)] /\ received \in [Clients -> Seq(Answers)]

\* A client with a connection has it to a gateway that listens.
ConnectedInv ==
    \A c \in Clients : Connected(c) =>
        server[c] \in Instances /\ socket[server[c]] = "listening"

\* Everything the client was sent, is being sent and will be sent.
AllAnswers(c) ==
    received[c] \o sendbuf[c] \o outputMessages[c] \o Responses(inbox[c])

\* The conservation law, from before the connection on.
AnswersInv ==
    \A c \in Clients : stage[c] # "gone" /\ end[c] # "closed" =>
        AllAnswers(c) = Responses(requests[c])

ServerInv ==
    /\ PathInv /\ ServerTypeOK /\ MessagesInv /\ ConnectedInv /\ AnswersInv

\* The clients start in the invariant.
LEMMA InitServerInv == ServerInit => ServerInv
<1> SUFFICES ASSUME ServerInit PROVE ServerInv
  OBVIOUS
<1>1. PathInv
  BY InitPathInv DEF ServerInit
<1>2. MessagesInv
  BY EmptySeq DEF ServerInit, MessagesInv
<1>3. ServerTypeOK
  <2>1. /\ stage \in [Clients -> {"new", "queued", "open", "gone"}]
        /\ server \in [Clients -> Instances \union {NoServer}]
        /\ end \in [Clients -> {"open", "shut", "closed"}]
        /\ watched \in [Clients -> SUBSET {"in", "out"}]
    BY DEF ServerInit
  <2>2. \A c \in Clients : Len(requests[c]) <= MaxRequests
                           /\ inbox[c] \in Seq(Requests) /\ Len(sendbuf[c]) <= SendBuffer
    BY ClientBoundsAssumption, EmptySeq DEF ServerInit
  <2>3. \A c \in Clients : /\ stage[c] = "open" <=> watched[c] # {}
                           /\ stage[c] # "open" => outputMessages[c] = <<>>
    BY DEF ServerInit
  <2> QED
    BY <1>1, <2>1, <2>2, <2>3 DEF PathInv, ServerTypeOK
<1>4. ConnectedInv
  BY DEF ServerInit, ConnectedInv, Connected
<1>5. AnswersInv
  <2>1. \A c \in Clients : AllAnswers(c) = <<>> /\ Responses(requests[c]) = <<>>
    BY ResponsesEmpty DEF ServerInit, AllAnswers
  <2> QED
    BY <2>1 DEF AnswersInv
<1> QED
  BY <1>1, <1>2, <1>3, <1>4, <1>5 DEF ServerInv

\* The part of the type invariant that is about the clients.
ClientTypes ==
    /\ stage \in [Clients -> {"new", "queued", "open", "gone"}]
    /\ server \in [Clients -> Instances \union {NoServer}]
    /\ end \in [Clients -> {"open", "shut", "closed"}]
    /\ watched \in [Clients -> SUBSET {"in", "out"}]
    /\ \A c \in Clients :
         /\ Len(requests[c]) <= MaxRequests
         /\ inbox[c] \in Seq(Requests) /\ Len(sendbuf[c]) <= SendBuffer
         /\ stage[c] = "open" <=> watched[c] # {}
         /\ stage[c] # "open" => outputMessages[c] = <<>>

\* removeClient() takes the channel and the queue with the descriptor, and
\* leaves the other clients alone.
LEMMA RemoveKeeps ==
    ASSUME ClientTypes, MessagesInv, NEW gone \in SUBSET Clients, RemoveClients(gone)
    PROVE  /\ stage' \in [Clients -> {"new", "queued", "open", "gone"}]
           /\ watched' \in [Clients -> SUBSET {"in", "out"}]
           /\ outputMessages' \in [Clients -> Seq(Answers)]
           /\ \A c \in Clients : /\ stage'[c] = "open" <=> watched'[c] # {}
                                 /\ stage'[c] # "open" => outputMessages'[c] = <<>>
           /\ \A c \in gone : stage'[c] = "gone"
           /\ \A c \in Clients \ gone : /\ stage'[c] = stage[c]
                                        /\ outputMessages'[c] = outputMessages[c]
<1>1. \A c \in Clients : stage[c] \in {"new", "queued", "open", "gone"}
                         /\ watched[c] \in SUBSET {"in", "out"}
                         /\ outputMessages[c] \in Seq(Answers)
  BY DEF ClientTypes, MessagesInv
<1>2. <<>> \in Seq(Answers)
  BY EmptySeq
<1>3. /\ stage' \in [Clients -> {"new", "queued", "open", "gone"}]
      /\ watched' \in [Clients -> SUBSET {"in", "out"}]
      /\ outputMessages' \in [Clients -> Seq(Answers)]
  BY <1>1, <1>2 DEF RemoveClients
<1>4. \A c \in Clients : /\ stage'[c] = "open" <=> watched'[c] # {}
                         /\ stage'[c] # "open" => outputMessages'[c] = <<>>
  BY DEF RemoveClients, ClientTypes
<1>5. /\ \A c \in gone : stage'[c] = "gone"
      /\ \A c \in Clients \ gone : /\ stage'[c] = stage[c]
                                   /\ outputMessages'[c] = outputMessages[c]
  BY DEF RemoveClients
<1> QED
  BY <1>3, <1>4, <1>5

\* What the send loop does to a client that stays: the responses move on in
\* their order, and the channel asks for EPOLLOUT while some are left.
LEMMA SendLoopKeeps ==
    ASSUME PathInv, ClientTypes, MessagesInv, NEW c \in Clients, stage[c] = "open",
           NEW messages \in Seq(Answers), SendLoop(c, messages)
    PROVE  /\ stage' \in [Clients -> {"new", "queued", "open", "gone"}]
           /\ watched' \in [Clients -> SUBSET {"in", "out"}]
           /\ outputMessages' \in [Clients -> Seq(Answers)]
           /\ sendbuf' \in [Clients -> Seq(Answers)]
           /\ faults' \in faults .. MaxFaults
           /\ \A d \in Clients : /\ stage'[d] = "open" <=> watched'[d] # {}
                                 /\ stage'[d] # "open" => outputMessages'[d] = <<>>
                                 /\ Len(sendbuf'[d]) <= SendBuffer
           /\ \A d \in Clients \ {c} : /\ stage'[d] = stage[d]
                                       /\ outputMessages'[d] = outputMessages[d]
                                       /\ sendbuf'[d] = sendbuf[d]
           /\ stage'[c] \in {"open", "gone"}
           /\ stage'[c] = "open" => \A r \in Seq(Answers) :
                (r \o sendbuf'[c]) \o outputMessages'[c] = (r \o sendbuf[c]) \o messages
<1> DEFINE room == SendBuffer - Len(sendbuf[c])
           n == IF room < Len(messages) THEN room ELSE Len(messages)
           front == SubSeq(messages, 1, n)
           rest == SubSeq(messages, n + 1, Len(messages))
<1>1. /\ sendbuf[c] \in Seq(Answers) /\ Len(sendbuf[c]) \in Nat
      /\ Len(sendbuf[c]) <= SendBuffer /\ Len(messages) \in Nat /\ SendBuffer \in Nat
  BY ClientBoundsAssumption, LenProperties DEF ClientTypes, MessagesInv
<1>2. n \in 0 .. Len(messages) /\ n <= SendBuffer - Len(sendbuf[c])
  <2>1. room \in Nat
    BY <1>1
  <2> HIDE DEF room
  <2>2. n \in 0 .. Len(messages) /\ n <= room
    BY <1>1, <2>1
  <2> QED
    BY <2>2 DEF room
<1> HIDE DEF n
<1>3. front \in Seq(Answers) /\ Len(front) = n /\ rest \in Seq(Answers)
      /\ front \o rest = messages
  BY <1>2, ConcatSplit
<1>4. /\ sendbuf' = [sendbuf EXCEPT ![c] = @ \o front]
      /\ \/ /\ outputMessages' = [outputMessages EXCEPT ![c] = rest]
            /\ watched' = [watched EXCEPT ![c] = EventsFor(rest)]
            /\ UNCHANGED <<stage, faults>>
         \/ Fails /\ RemoveClients({c})
  BY DEF SendLoop, n
<1> HIDE DEF front, rest
<1>5. sendbuf[c] \o front \in Seq(Answers)
      /\ Len(sendbuf[c] \o front) = Len(sendbuf[c]) + n
  BY <1>1, <1>3, ConcatProperties
<1>6. /\ sendbuf' \in [Clients -> Seq(Answers)]
      /\ sendbuf'[c] = sendbuf[c] \o front
      /\ \A d \in Clients \ {c} : sendbuf'[d] = sendbuf[d]
  BY <1>4, <1>5 DEF MessagesInv
<1>7. \A d \in Clients : Len(sendbuf'[d]) <= SendBuffer
  <2>1. Len(sendbuf[c]) + n <= SendBuffer
    BY <1>1, <1>2
  <2>2. Len(sendbuf'[c]) <= SendBuffer
    BY <2>1, <1>5, <1>6
  <2>3. \A d \in Clients \ {c} : Len(sendbuf'[d]) <= SendBuffer
    BY <1>6 DEF ClientTypes
  <2> QED
    BY <2>2, <2>3
<1>8. CASE /\ outputMessages' = [outputMessages EXCEPT ![c] = rest]
           /\ watched' = [watched EXCEPT ![c] = EventsFor(rest)]
           /\ UNCHANGED <<stage, faults>>
  <2>1. EventsFor(rest) \in SUBSET {"in", "out"} /\ EventsFor(rest) # {}
    BY DEF EventsFor
  <2>2. /\ watched' \in [Clients -> SUBSET {"in", "out"}]
        /\ outputMessages' \in [Clients -> Seq(Answers)]
    BY <1>3, <1>8, <2>1 DEF ClientTypes, MessagesInv
  <2>3. outputMessages'[c] = rest
    BY <1>8 DEF MessagesInv
  <2>4. \A r \in Seq(Answers) :
          (r \o sendbuf'[c]) \o outputMessages'[c] = (r \o sendbuf[c]) \o messages
    <3> TAKE r \in Seq(Answers)
    <3> DEFINE sb == sendbuf[c]
               before == r \o sb
    <3>1. sb \in Seq(Answers) /\ front \in Seq(Answers) /\ rest \in Seq(Answers)
      BY <1>1, <1>3
    <3> HIDE DEF sb
    <3>2. before \o front = r \o (sb \o front)
      BY <3>1, ConcatAssociative
    <3>3. before \in Seq(Answers)
      BY <3>1, ConcatProperties
    <3> HIDE DEF before
    <3>4. (before \o front) \o rest = before \o (front \o rest)
      BY <3>1, <3>3, ConcatAssociative
    <3> QED
      BY <1>3, <1>6, <2>3, <3>2, <3>4 DEF before, sb
  <2>5. \A d \in Clients : /\ stage'[d] = "open" <=> watched'[d] # {}
                           /\ stage'[d] # "open" => outputMessages'[d] = <<>>
    BY <1>8, <2>1 DEF ClientTypes, MessagesInv
  <2>6. /\ stage' \in [Clients -> {"new", "queued", "open", "gone"}]
        /\ faults' \in faults .. MaxFaults
    BY <1>8 DEF ClientTypes, PathInv, TypeOK
  <2>7. /\ \A d \in Clients \ {c} : /\ stage'[d] = stage[d]
                                    /\ outputMessages'[d] = outputMessages[d]
        /\ stage'[c] \in {"open", "gone"}
    BY <1>8 DEF MessagesInv
  <2> QED
    BY <1>6, <1>7, <2>2, <2>4, <2>5, <2>6, <2>7
<1>9. CASE Fails /\ RemoveClients({c})
  <2>1. faults' \in faults .. MaxFaults
    BY <1>9, BoundsAssumption DEF Fails, PathInv, TypeOK
  <2>2. {c} \in SUBSET Clients
    OBVIOUS
  <2> QED
    BY <1>6, <1>7, <1>9, <2>1, <2>2, RemoveKeeps
<1> QED
  BY <1>4, <1>8, <1>9

\* The client types and the messages survive every step of a client.
LEMMA ClientStepTypes ==
    ASSUME PathInv, ClientTypes, MessagesInv, NEW c \in Clients, ClientStep(c)
    PROVE  ClientTypes' /\ MessagesInv'
<1> USE ClientBoundsAssumption
<1>1. CASE Connect(c)
  <2>1. MessagesInv'
    BY <1>1 DEF Connect, MessagesInv
  <2>2. path \in Instances /\ stage[c] = "new"
    BY <1>1 DEF Connect
  <2>3. ClientTypes'
    BY <1>1, <2>2 DEF Connect, ClientTypes
  <2> QED
    BY <2>1, <2>3
<1>2. CASE ShutDown(c)
  <2>1. MessagesInv'
    BY <1>2 DEF ShutDown, MessagesInv, serverSide
  <2>2. ClientTypes'
    BY <1>2 DEF ShutDown, ClientTypes, serverSide
  <2> QED
    BY <2>1, <2>2
<1>3. CASE Close(c)
  <2>1. <<>> \in Seq(Answers) /\ Len(<<>>) = 0
    BY EmptySeq
  <2>2. MessagesInv'
    BY <1>3, <2>1 DEF Close, MessagesInv, serverSide
  <2>3. \A d \in Clients : sendbuf'[d] = IF d = c THEN <<>> ELSE sendbuf[d]
    BY <1>3 DEF Close, MessagesInv
  <2>4. ClientTypes'
    BY <1>3, <2>1, <2>3 DEF Close, ClientTypes, serverSide
  <2> QED
    BY <2>2, <2>4
<1>4. CASE Receive(c)
  <2>1. /\ sendbuf[c] \in Seq(Answers) /\ sendbuf[c] # <<>>
        /\ received[c] \in Seq(Answers)
    BY <1>4 DEF Receive, MessagesInv
  <2>2. /\ Head(sendbuf[c]) \in Answers /\ Tail(sendbuf[c]) \in Seq(Answers)
        /\ Len(Tail(sendbuf[c])) = Len(sendbuf[c]) - 1 /\ Len(sendbuf[c]) \in Nat
    BY <2>1, HeadTailProperties, LenProperties
  <2>3. Append(received[c], Head(sendbuf[c])) \in Seq(Answers)
    BY <2>1, <2>2, AppendProperties
  <2>4. MessagesInv'
    BY <1>4, <2>2, <2>3 DEF Receive, MessagesInv, serverSide
  <2>5. \A d \in Clients : Len(sendbuf'[d]) <= SendBuffer
    BY <1>4, <2>2 DEF Receive, MessagesInv, ClientTypes
  <2>6. ClientTypes'
    BY <1>4, <2>5 DEF Receive, ClientTypes, serverSide
  <2> QED
    BY <2>4, <2>6
<1>5. ASSUME NEW r \in Requests, Request(c, r)
      PROVE  ClientTypes' /\ MessagesInv'
  <2>1. /\ requests[c] \in Seq(Requests) /\ inbox[c] \in Seq(Requests)
        /\ Len(requests[c]) < MaxRequests
    BY <1>5 DEF Request, MessagesInv
  <2>2. /\ Append(requests[c], r) \in Seq(Requests) /\ Append(inbox[c], r) \in Seq(Requests)
        /\ Len(Append(requests[c], r)) = Len(requests[c]) + 1
    BY <2>1, AppendProperties
  <2>3. MessagesInv'
    BY <1>5, <2>2 DEF Request, MessagesInv, serverSide
  <2>4. Len(requests[c]) \in Nat
    BY <2>1, LenProperties
  <2>5. \A d \in Clients : Len(requests'[d]) <= MaxRequests
    BY <1>5, <2>1, <2>2, <2>4 DEF Request, MessagesInv, ClientTypes
  <2>6. ClientTypes'
    BY <1>5, <2>3, <2>5 DEF Request, ClientTypes, MessagesInv, serverSide
  <2> QED
    BY <2>3, <2>6
<1> QED
  BY <1>1, <1>2, <1>3, <1>4, <1>5 DEF ClientStep

\* The conservation law survives every step of a client: a request and its
\* response come in together, and reading moves a response on.
LEMMA ClientStepAnswers ==
    ASSUME ClientTypes, MessagesInv, AnswersInv, NEW c \in Clients, ClientStep(c)
    PROVE  AnswersInv'
<1>1. CASE Connect(c)
  <2>1. \A d \in Clients : stage'[d] # "gone" => stage[d] # "gone"
    BY <1>1 DEF Connect, ClientTypes
  <2> QED
    BY <1>1, <2>1 DEF Connect, AnswersInv, AllAnswers
<1>2. CASE ShutDown(c) \/ Close(c)
  <2>1. \A d \in Clients : /\ stage'[d] = stage[d]
                           /\ end'[d] # "closed" => end[d] # "closed" /\ sendbuf'[d] = sendbuf[d]
    BY <1>2 DEF ShutDown, Close, ClientTypes, MessagesInv, serverSide
  <2>2. UNCHANGED <<received, outputMessages, inbox, requests>>
    BY <1>2 DEF ShutDown, Close, serverSide
  <2> QED
    BY <2>1, <2>2 DEF AnswersInv, AllAnswers
<1>3. CASE Receive(c)
  <2>1. /\ sendbuf[c] \in Seq(Answers) /\ sendbuf[c] # <<>>
        /\ received[c] \in Seq(Answers)
    BY <1>3 DEF Receive, MessagesInv
  <2>2. /\ received'[c] = Append(received[c], Head(sendbuf[c]))
        /\ sendbuf'[c] = Tail(sendbuf[c])
        /\ \A d \in Clients \ {c} : received'[d] = received[d] /\ sendbuf'[d] = sendbuf[d]
        /\ UNCHANGED <<stage, end, outputMessages, inbox, requests>>
    BY <1>3 DEF Receive, MessagesInv, serverSide
  <2>3. received'[c] \o sendbuf'[c] = received[c] \o sendbuf[c]
    BY <2>1, <2>2, ConcatHeadTail
  <2>4. \A d \in Clients : received'[d] \o sendbuf'[d] = received[d] \o sendbuf[d]
    BY <2>2, <2>3
  <2> QED
    BY <2>2, <2>4 DEF AnswersInv, AllAnswers
<1>4. ASSUME NEW r \in Requests, Request(c, r)
      PROVE  AnswersInv'
  <2> DEFINE sent == received[c] \o sendbuf[c] \o outputMessages[c]
  <2>1. /\ requests[c] \in Seq(Requests) /\ inbox[c] \in Seq(Requests)
        /\ received[c] \in Seq(Answers) /\ sendbuf[c] \in Seq(Answers)
        /\ outputMessages[c] \in Seq(Answers)
    BY DEF MessagesInv
  <2>2. sent \in Seq(Answers) /\ Responses(inbox[c]) \in Seq(Answers)
        /\ Response(r) \in Answers
    BY <2>1, ConcatProperties, ResponsesType DEF Answers
  <2>3. /\ requests'[c] = Append(requests[c], r) /\ inbox'[c] = Append(inbox[c], r)
        /\ \A d \in Clients \ {c} : requests'[d] = requests[d] /\ inbox'[d] = inbox[d]
        /\ UNCHANGED <<stage, end, outputMessages, sendbuf, received>>
    BY <1>4 DEF Request, MessagesInv, serverSide
  <2>4. /\ Responses(requests'[c]) = Append(Responses(requests[c]), Response(r))
        /\ Responses(inbox'[c]) = Append(Responses(inbox[c]), Response(r))
    BY <2>1, <2>3, ResponsesAppend
  <2>5. AllAnswers(c)' = sent \o Append(Responses(inbox[c]), Response(r))
    BY <2>3, <2>4 DEF AllAnswers
  <2>6. AllAnswers(c) = sent \o Responses(inbox[c])
    BY DEF AllAnswers
  <2> HIDE DEF sent
  <2>7. AllAnswers(c)' = Append(AllAnswers(c), Response(r))
    BY <2>2, <2>5, <2>6, ConcatAppend
  <2>8. ASSUME NEW d \in Clients, stage'[d] # "gone", end'[d] # "closed"
        PROVE  AllAnswers(d)' = Responses(requests'[d])
    <3>1. AllAnswers(d) = Responses(requests[d])
      BY <2>3, <2>8 DEF AnswersInv
    <3>2. CASE d = c
      BY <3>1, <3>2, <2>4, <2>7
    <3>3. CASE d # c
      BY <3>1, <3>3, <2>3 DEF AllAnswers
    <3> QED
      BY <3>2, <3>3
  <2> QED
    BY <2>8 DEF AnswersInv
<1> QED
  BY <1>1, <1>2, <1>3, <1>4 DEF ClientStep

\* Accepting moves clients from the queue of the socket into clients_.
LEMMA AcceptKeeps ==
    ASSUME PathInv, ClientTypes, MessagesInv, AnswersInv, NEW i \in Instances,
           HandleAccept(i)
    PROVE  FaultStep /\ ClientTypes' /\ MessagesInv' /\ AnswersInv'
           /\ \A c \in Clients : Connected(c)' => Connected(c)
<1> DEFINE queued == ClientsOf(i, {"queued"})
<1>1. PICK taken \in SUBSET queued, failed \in SUBSET queued :
        /\ failed \subseteq taken
        /\ faults' = faults + Cardinality(failed) + (IF taken = queued THEN 0 ELSE 1)
        /\ faults' <= MaxFaults
        /\ stage' = [c \in Clients |-> IF c \in failed THEN "gone"
                                       ELSE IF c \in taken THEN "open" ELSE stage[c]]
        /\ watched' = [c \in Clients |->
                         IF c \in taken \ failed THEN {"in"} ELSE watched[c]]
  BY DEF HandleAccept
<1>2. /\ UNCHANGED <<path, pc, socket, owns, starts, crashes, outputMessages,
                     server, end, requests, inbox, sendbuf, received>>
  BY DEF HandleAccept
<1>3. \A c \in queued : c \in Clients /\ stage[c] = "queued"
  BY DEF ClientsOf
<1> HIDE DEF queued
<1>4. Cardinality(failed) \in Nat
  BY <1>1, <1>3, ClientsAssumption, FS_Subset, FS_CardinalityType
<1>5. FaultStep
  BY <1>1, <1>2, <1>4, BoundsAssumption DEF FaultStep, PathInv, TypeOK
<1>6. MessagesInv'
  BY <1>2 DEF MessagesInv
<1>7. ClientTypes'
  <2>1. stage' \in [Clients -> {"new", "queued", "open", "gone"}]
    BY <1>1 DEF ClientTypes
  <2>2. watched' \in [Clients -> SUBSET {"in", "out"}]
    BY <1>1 DEF ClientTypes
  <2>3. \A c \in Clients : /\ stage'[c] = "open" <=> watched'[c] # {}
                           /\ stage'[c] # "open" => stage[c] # "open"
    BY <1>1, <1>3 DEF ClientTypes
  <2> QED
    BY <1>2, <2>1, <2>2, <2>3 DEF ClientTypes
<1>8. \A c \in Clients : /\ stage'[c] # "gone" => stage[c] # "gone"
                         /\ Connected(c)' => Connected(c)
  BY <1>1, <1>3 DEF ClientTypes, Connected
<1>9. AnswersInv'
  BY <1>2, <1>8 DEF AnswersInv, AllAnswers
<1> QED
  BY <1>5, <1>6, <1>7, <1>8, <1>9

\* A client that is removed leaves the others, and its own messages, in order.
LEMMA RemoveStep ==
    ASSUME ClientTypes, MessagesInv, AnswersInv,
           NEW gone \in SUBSET Clients, RemoveClients(gone),
           inbox' \in [Clients -> Seq(Requests)],
           \A c \in Clients \ gone : inbox'[c] = inbox[c],
           UNCHANGED <<server, end, requests, sendbuf, received>>
    PROVE  /\ ClientTypes' /\ MessagesInv' /\ AnswersInv'
           /\ \A c \in Clients : Connected(c)' => Connected(c) /\ c \notin gone
<1>1. /\ stage' \in [Clients -> {"new", "queued", "open", "gone"}]
      /\ watched' \in [Clients -> SUBSET {"in", "out"}]
      /\ outputMessages' \in [Clients -> Seq(Answers)]
      /\ \A c \in Clients : /\ stage'[c] = "open" <=> watched'[c] # {}
                            /\ stage'[c] # "open" => outputMessages'[c] = <<>>
      /\ \A c \in gone : stage'[c] = "gone"
      /\ \A c \in Clients \ gone : /\ stage'[c] = stage[c]
                                   /\ outputMessages'[c] = outputMessages[c]
  BY RemoveKeeps
<1>2. MessagesInv'
  BY <1>1 DEF MessagesInv
<1>3. ClientTypes'
  BY <1>1 DEF ClientTypes
<1>4. \A c \in Clients : Connected(c)' => Connected(c) /\ c \notin gone
  BY <1>1 DEF Connected
<1>5. AnswersInv'
  <2> SUFFICES ASSUME NEW c \in Clients, stage'[c] # "gone", end'[c] # "closed"
               PROVE  AllAnswers(c)' = Responses(requests'[c])
    BY DEF AnswersInv
  <2>1. c \in Clients \ gone
    BY <1>1
  <2>2. AllAnswers(c) = Responses(requests[c])
    BY <1>1, <2>1 DEF AnswersInv
  <2> QED
    BY <1>1, <2>1, <2>2 DEF AllAnswers
<1> QED
  BY <1>2, <1>3, <1>4, <1>5

\* The callbacks of a client's channel: what is received is answered, what is
\* answered is sent, and the failure of a call costs the client its connection.
LEMMA HandlerKeeps ==
    ASSUME PathInv, ClientTypes, MessagesInv, AnswersInv, NEW c \in Clients, Handler(c)
    PROVE  /\ FaultStep \/ UNCHANGED vars
           /\ ClientTypes' /\ MessagesInv' /\ AnswersInv'
           /\ server' = server /\ \A d \in Clients : Connected(d)' => Connected(d)
<1>0. /\ {c} \in SUBSET Clients /\ <<>> \in Seq(Requests)
      /\ requests[c] \in Seq(Requests) /\ inbox[c] \in Seq(Requests)
      /\ received[c] \in Seq(Answers) /\ sendbuf[c] \in Seq(Answers)
      /\ outputMessages[c] \in Seq(Answers)
      /\ inbox \in [Clients -> Seq(Requests)]
  BY EmptySeq DEF MessagesInv
<1>1. CASE HandleError(c)
  <2>1. /\ RemoveClients({c}) /\ UNCHANGED vars
        /\ UNCHANGED <<server, end, requests, inbox, sendbuf, received>>
    BY <1>1 DEF HandleError
  <2> QED
    BY <1>0, <2>1, RemoveStep
<1>2. CASE HandleClientWrite(c) /\ end[c] = "closed"
  <2>1. /\ RemoveClients({c})
        /\ UNCHANGED <<path, pc, socket, owns, starts, crashes, faults>>
        /\ UNCHANGED <<server, end, requests, inbox, sendbuf, received>>
    BY <1>2 DEF HandleClientWrite
  <2>2. UNCHANGED vars
    BY <2>1 DEF vars, counters
  <2> QED
    BY <1>0, <2>1, <2>2, RemoveStep
<1>3. CASE HandleClientRead(c) /\ StreamEnds(c)
  <2>1. /\ RemoveClients({c}) /\ inbox' = [inbox EXCEPT ![c] = <<>>]
        /\ UNCHANGED <<path, pc, socket, owns, starts, crashes, faults>>
        /\ UNCHANGED <<server, end, requests, sendbuf, received>>
    BY <1>3 DEF HandleClientRead
  <2>2. /\ UNCHANGED vars
        /\ inbox' \in [Clients -> Seq(Requests)]
        /\ \A d \in Clients \ {c} : inbox'[d] = inbox[d]
    BY <1>0, <2>1 DEF vars, counters
  <2> QED
    BY <1>0, <2>1, <2>2, RemoveStep
<1>4. ASSUME NEW messages \in Seq(Answers), stage[c] = "open", SendLoop(c, messages),
             inbox' \in [Clients -> Seq(Requests)],
             \A d \in Clients \ {c} : inbox'[d] = inbox[d],
             \A s \in Seq(Answers) : (s \o messages) \o Responses(inbox'[c])
                          = (s \o outputMessages[c]) \o Responses(inbox[c]),
             UNCHANGED <<path, pc, socket, owns, starts, crashes, server, end, requests,
                         received>>
      PROVE  /\ FaultStep /\ ClientTypes' /\ MessagesInv' /\ AnswersInv'
             /\ server' = server /\ \A d \in Clients : Connected(d)' => Connected(d)
  <2>1. /\ stage' \in [Clients -> {"new", "queued", "open", "gone"}]
        /\ watched' \in [Clients -> SUBSET {"in", "out"}]
        /\ outputMessages' \in [Clients -> Seq(Answers)]
        /\ sendbuf' \in [Clients -> Seq(Answers)]
        /\ faults' \in faults .. MaxFaults
        /\ \A d \in Clients : /\ stage'[d] = "open" <=> watched'[d] # {}
                              /\ stage'[d] # "open" => outputMessages'[d] = <<>>
                              /\ Len(sendbuf'[d]) <= SendBuffer
        /\ \A d \in Clients \ {c} : /\ stage'[d] = stage[d]
                                    /\ outputMessages'[d] = outputMessages[d]
                                    /\ sendbuf'[d] = sendbuf[d]
        /\ stage'[c] \in {"open", "gone"}
        /\ stage'[c] = "open" => \A r \in Seq(Answers) :
             (r \o sendbuf'[c]) \o outputMessages'[c] = (r \o sendbuf[c]) \o messages
    BY <1>4, SendLoopKeeps
  <2>2. FaultStep
    BY <1>4, <2>1 DEF FaultStep
  <2>3. MessagesInv'
    BY <1>4, <2>1 DEF MessagesInv
  <2>4. ClientTypes'
    BY <1>4, <2>1 DEF ClientTypes
  <2>5. \A d \in Clients : Connected(d)' => Connected(d)
    BY <1>4, <2>1 DEF Connected
  <2>6. AnswersInv'
    <3> SUFFICES ASSUME NEW d \in Clients, stage'[d] # "gone", end'[d] # "closed"
                 PROVE  AllAnswers(d)' = Responses(requests'[d])
      BY DEF AnswersInv
    <3>1. CASE d # c
      <4>1. AllAnswers(d) = Responses(requests[d])
        BY <1>4, <2>1, <3>1 DEF AnswersInv
      <4> QED
        BY <1>4, <2>1, <3>1, <4>1 DEF AllAnswers
    <3>2. CASE d = c
      <4>1. AllAnswers(c) = Responses(requests[c])
        BY <1>4, <3>2 DEF AnswersInv
      <4>2. (received[c] \o sendbuf'[c]) \o outputMessages'[c]
              = (received[c] \o sendbuf[c]) \o messages
        BY <1>0, <2>1, <3>2
      <4>3. received[c] \o sendbuf[c] \in Seq(Answers)
        BY <1>0, ConcatProperties
      <4>4. ((received[c] \o sendbuf[c]) \o messages) \o Responses(inbox'[c])
              = ((received[c] \o sendbuf[c]) \o outputMessages[c]) \o Responses(inbox[c])
        BY <1>4, <4>3, Zenon
      <4>5. AllAnswers(c)' = AllAnswers(c)
        BY <1>4, <4>2, <4>4, Zenon DEF AllAnswers
      <4> QED
        BY <1>4, <3>2, <4>1, <4>5
    <3> QED
      BY <3>1, <3>2
  <2> QED
    BY <1>4, <2>2, <2>3, <2>4, <2>5, <2>6
<1>5. CASE HandleClientWrite(c) /\ end[c] # "closed"
  <2>1. /\ stage[c] = "open" /\ SendLoop(c, outputMessages[c]) /\ inbox' = inbox
        /\ UNCHANGED <<path, pc, socket, owns, starts, crashes, server, end, requests,
                       received>>
    BY <1>5 DEF HandleClientWrite
  <2> QED
    BY <1>0, <1>4, <2>1, Zenon
<1>6. CASE HandleClientRead(c) /\ ~StreamEnds(c)
  <2> DEFINE answers == Responses(inbox[c])
             queue == outputMessages[c]
  <2>1. /\ stage[c] = "open" /\ SendLoop(c, queue \o answers)
        /\ inbox' = [inbox EXCEPT ![c] = <<>>]
        /\ UNCHANGED <<path, pc, socket, owns, starts, crashes, server, end, requests,
                       received>>
    BY <1>6 DEF HandleClientRead
  <2>2. /\ inbox' \in [Clients -> Seq(Requests)] /\ inbox'[c] = <<>>
        /\ \A d \in Clients \ {c} : inbox'[d] = inbox[d]
    BY <1>0, <2>1
  <2>3. Responses(inbox'[c]) = <<>>
    BY <2>2, ResponsesEmpty
  <2>4. answers \in Seq(Answers) /\ queue \in Seq(Answers)
    BY <1>0, ResponsesType
  <2> HIDE DEF answers, queue
  <2>5. queue \o answers \in Seq(Answers)
    BY <2>4, ConcatProperties
  <2>6. ASSUME NEW s \in Seq(Answers)
        PROVE  (s \o (queue \o answers)) \o <<>> = (s \o queue) \o answers
    <3>1. (s \o queue) \o answers = s \o (queue \o answers)
      BY <2>4, ConcatAssociative
    <3>2. s \o (queue \o answers) \in Seq(Answers)
      BY <2>5, ConcatProperties
    <3> QED
      BY <3>1, <3>2, ConcatEmptySeq
  <2>7. \A s \in Seq(Answers) : (s \o (queue \o answers)) \o Responses(inbox'[c])
                                  = (s \o outputMessages[c]) \o Responses(inbox[c])
    BY <2>3, <2>6 DEF answers, queue
  <2> QED
    BY <1>4, <2>1, <2>2, <2>5, <2>7, Zenon
<1> QED
  BY <1>1, <1>2, <1>3, <1>5, <1>6 DEF Handler

\* Only what ends an instance touches a socket that listens.
LEMMA GoesOnKeepsListening ==
    ASSUME PathInv, NEW i \in Instances, GoesOn(i),
           NEW j \in Instances, socket[j] = "listening"
    PROVE  socket'[j] = "listening"
<1>1. CASE Start(i) \/ Lstat(i) \/ Probe(i) \/ Unlink(i) \/ Register(i) \/ StopEnds(i)
           \/ StopAgain(i)
  BY <1>1 DEF Start, Lstat, Probe, Unlink, Register, StopEnds, StopAgain
<1>2. CASE Bind(i)
  BY <1>2 DEF Bind, PathInv, TypeOK
<1>3. CASE Listen(i)
  BY <1>3 DEF Listen, PathInv, TypeOK
<1> QED
  BY <1>1, <1>2, <1>3 DEF GoesOn, StartStep

\* The end of an instance closes its own socket only.
LEMMA EndKeepsListening ==
    ASSUME PathInv, NEW i \in Instances, Ends(i),
           NEW j \in Instances, j # i
    PROVE  socket'[j] = socket[j]
  BY DEF Ends, StartFails, Stop, Crash, CloseSocket, PathInv, TypeOK

\* Every step of the whole is a step of the path protocol, a failed call, or
\* nothing to the path.
LEMMA ServerStepIsPathStep ==
    ASSUME PathInv, ClientTypes, MessagesInv, AnswersInv, ServerNext
    PROVE  Next \/ FaultStep \/ UNCHANGED vars
<1>1. CASE PutFile \/ \E i \in Instances : GoesOn(i) \/ Ends(i)
  BY <1>1 DEF Next
<1>2. CASE \E i \in Instances : HandleAccept(i)
  BY <1>2, AcceptKeeps
<1>3. CASE \E c \in Clients : Handler(c)
  BY <1>3, HandlerKeeps
<1>4. CASE \E c \in Clients : ClientStep(c)
  BY <1>4 DEF ClientStep, Connect, ShutDown, Close, Receive, Request
<1> QED
  BY <1>1, <1>2, <1>3, <1>4 DEF ServerNext

\* The whole invariant is inductive: one case per actor.
LEMMA ServerInvStep == ServerInv /\ [ServerNext]_allVars => ServerInv'
<1> SUFFICES ASSUME ServerInv, [ServerNext]_allVars PROVE ServerInv'
  OBVIOUS
<1>0. PathInv /\ ClientTypes /\ MessagesInv /\ ConnectedInv /\ AnswersInv
  BY DEF ServerInv, ServerTypeOK, ClientTypes
<1>1. PathInv'
  <2>1. Next \/ FaultStep \/ UNCHANGED vars
    BY <1>0, ServerStepIsPathStep DEF allVars
  <2> QED
    BY <1>0, <2>1, PathInvStep
<1> SUFFICES ClientTypes' /\ MessagesInv' /\ ConnectedInv' /\ AnswersInv'
  BY <1>1 DEF ServerInv, ServerTypeOK, ClientTypes, PathInv
<1>2. CASE UNCHANGED clientVars /\ (PutFile \/ \E i \in Instances : GoesOn(i))
  <2>1. ClientTypes' /\ MessagesInv'
    BY <1>0, <1>2 DEF clientVars, serverSide, ClientTypes, MessagesInv
  <2>2. AnswersInv'
    BY <1>0, <1>2 DEF clientVars, serverSide, AnswersInv, AllAnswers
  <2>3. \A j \in Instances : socket[j] = "listening" => socket'[j] = "listening"
    BY <1>0, <1>2, GoesOnKeepsListening DEF PutFile
  <2>4. ConnectedInv'
    BY <1>0, <1>2, <2>3 DEF clientVars, serverSide, ConnectedInv, Connected
  <2> QED
    BY <2>1, <2>2, <2>4
<1>3. ASSUME NEW i \in Instances, Ends(i), CloseClients(i)
      PROVE  ClientTypes' /\ MessagesInv' /\ ConnectedInv' /\ AnswersInv'
  <2> DEFINE gone == ClientsOf(i, {"queued", "open"})
  <2>1. /\ gone \in SUBSET Clients /\ RemoveClients(gone)
        /\ UNCHANGED <<server, end, requests, inbox, sendbuf, received>>
    BY <1>3 DEF CloseClients, ClientsOf
  <2>2. inbox' \in [Clients -> Seq(Requests)] /\ \A c \in Clients \ gone : inbox'[c] = inbox[c]
    BY <1>0, <2>1 DEF MessagesInv
  <2>3. \A c \in Clients : Connected(c) /\ c \notin gone => server[c] # i
    BY DEF Connected, ClientsOf
  <2> HIDE DEF gone
  <2>4. /\ ClientTypes' /\ MessagesInv' /\ AnswersInv'
        /\ \A c \in Clients : Connected(c)' => Connected(c) /\ c \notin gone
    BY <1>0, <2>1, <2>2, RemoveStep
  <2>5. ConnectedInv'
    <3> SUFFICES ASSUME NEW c \in Clients, Connected(c)'
                 PROVE  server'[c] \in Instances /\ socket'[server'[c]] = "listening"
      BY DEF ConnectedInv
    <3>1. /\ Connected(c) /\ server[c] # i
          /\ server[c] \in Instances /\ socket[server[c]] = "listening"
      BY <1>0, <2>3, <2>4 DEF ConnectedInv
    <3> QED
      BY <1>0, <1>3, <2>1, <3>1, EndKeepsListening
  <2> QED
    BY <2>4, <2>5
<1>4. ASSUME NEW i \in Instances, HandleAccept(i)
      PROVE  ClientTypes' /\ MessagesInv' /\ ConnectedInv' /\ AnswersInv'
  <2>1. /\ ClientTypes' /\ MessagesInv' /\ AnswersInv'
        /\ \A c \in Clients : Connected(c)' => Connected(c)
    BY <1>0, <1>4, AcceptKeeps
  <2>2. UNCHANGED <<server, socket>>
    BY <1>4 DEF HandleAccept
  <2> QED
    BY <1>0, <2>1, <2>2 DEF ConnectedInv
<1>5. ASSUME NEW c \in Clients, ClientStep(c)
      PROVE  ClientTypes' /\ MessagesInv' /\ ConnectedInv' /\ AnswersInv'
  <2>1. ClientTypes' /\ MessagesInv' /\ AnswersInv'
    BY <1>0, <1>5, ClientStepTypes, ClientStepAnswers
  <2>2. CASE Connect(c)
    BY <1>0, <2>1, <2>2 DEF Connect, ConnectedInv, Connected, vars, ClientTypes
  <2>3. CASE UNCHANGED <<stage, server, socket>>
    BY <1>0, <2>1, <2>3 DEF ConnectedInv, Connected
  <2> QED
    BY <1>5, <2>1, <2>2, <2>3
    DEF ClientStep, ShutDown, Close, Receive, Request, serverSide, vars
<1>6. ASSUME NEW c \in Clients, Handler(c)
      PROVE  ClientTypes' /\ MessagesInv' /\ ConnectedInv' /\ AnswersInv'
  <2>1. /\ FaultStep \/ UNCHANGED vars
        /\ ClientTypes' /\ MessagesInv' /\ AnswersInv'
        /\ server' = server /\ \A d \in Clients : Connected(d)' => Connected(d)
    BY <1>0, <1>6, HandlerKeeps
  <2>2. socket' = socket
    BY <2>1 DEF FaultStep, vars
  <2> QED
    BY <1>0, <2>1, <2>2 DEF ConnectedInv
<1>7. CASE UNCHANGED allVars
  <2>1. UNCHANGED <<vars, clientVars>>
    BY <1>7 DEF allVars
  <2>2. ClientTypes' /\ MessagesInv'
    BY <1>0, <2>1 DEF clientVars, serverSide, ClientTypes, MessagesInv
  <2>3. AnswersInv'
    BY <1>0, <2>1 DEF clientVars, serverSide, AnswersInv, AllAnswers
  <2>4. ConnectedInv'
    BY <1>0, <2>1 DEF clientVars, serverSide, ConnectedInv, Connected, vars
  <2> QED
    BY <2>2, <2>3, <2>4
<1> QED
  BY <1>2, <1>3, <1>4, <1>5, <1>6, <1>7 DEF ServerNext

\* The conservation law gives the count as well as the order of the answers.
LEMMA AnswersImply ==
    ASSUME ServerInv
    PROVE  OneAnswerEach
<1> SUFFICES ASSUME NEW c \in Clients, Connected(c), end[c] # "closed"
             PROVE  /\ Len(received[c]) + Len(sendbuf[c]) + Len(outputMessages[c])
                         + Len(inbox[c]) = Len(requests[c])
                    /\ received[c] \o sendbuf[c] \o outputMessages[c] \o Responses(inbox[c])
                         = Responses(requests[c])
  BY DEF OneAnswerEach
<1> DEFINE rc == received[c]
           sb == sendbuf[c]
           om == outputMessages[c]
           ra == Responses(inbox[c])
<1>1. ((rc \o sb) \o om) \o ra = Responses(requests[c])
  BY DEF ServerInv, AnswersInv, AllAnswers, Connected
<1>2. /\ rc \in Seq(Answers) /\ sb \in Seq(Answers) /\ om \in Seq(Answers)
      /\ inbox[c] \in Seq(Requests) /\ requests[c] \in Seq(Requests)
  BY DEF ServerInv, MessagesInv
<1>3. /\ ra \in Seq(Answers) /\ Len(ra) = Len(inbox[c])
      /\ Len(Responses(requests[c])) = Len(requests[c])
  BY <1>2, ResponsesType
<1> HIDE DEF rc, sb, om, ra
<1>4. rc \o sb \in Seq(Answers) /\ Len(rc \o sb) = Len(rc) + Len(sb)
  BY <1>2, ConcatProperties
<1> DEFINE rs == rc \o sb
<1> HIDE DEF rs
<1>5. rs \o om \in Seq(Answers) /\ Len(rs \o om) = Len(rs) + Len(om)
  BY <1>2, <1>4, ConcatProperties DEF rs
<1> DEFINE rso == rs \o om
<1> HIDE DEF rso
<1>6. Len(rso \o ra) = Len(rso) + Len(ra)
  BY <1>3, <1>5, ConcatProperties DEF rso
<1>7. rso \o ra = Responses(requests[c])
  BY <1>1 DEF rs, rso
<1>8. Len(rc) + Len(sb) + Len(om) + Len(inbox[c]) = Len(requests[c])
  BY <1>3, <1>4, <1>5, <1>6, <1>7 DEF rs, rso
<1> QED
  BY <1>1, <1>8 DEF rc, sb, om, ra

-----------------------------------------------------------------------------
(* The theorems.                                                           *)

\* The inductive invariant holds throughout.
THEOREM Invariance == ServerSpec => []ServerInv
<1>1. ServerInit => ServerInv
  BY InitServerInv
<1>2. ServerInv /\ [ServerNext]_allVars => ServerInv'
  BY ServerInvStep
<1> QED
  BY <1>1, <1>2, PTL DEF ServerSpec

\* UnixDomainServer::start() of gateways that are given one path, in any order
\* and with any number of crashes, never refuses all of them for good: unless a
\* file is in the way or a call has failed, one of them is not refused.
THEOREM StartSafety == ServerSpec => []NotAllRefused
<1>1. ServerInv => NotAllRefused
  BY PathInvImplies DEF ServerInv
<1> QED
  BY <1>1, Invariance, PTL

\* No client of the control interface is left with a gateway that has stopped
\* or died, and the types hold.
THEOREM ConnectionSafety == ServerSpec => []ServedByLiving
<1>1. ServerInv => ServedByLiving
  BY DEF ServerInv, ConnectedInv, ServedByLiving
<1> QED
  BY <1>1, Invariance, PTL

\* handleClientRead() and handleClientWrite() answer every request once and in
\* order, whatever the send buffer takes at a time.
THEOREM AnswerSafety == ServerSpec => []OneAnswerEach
<1>1. ServerInv => OneAnswerEach
  BY AnswersImply
<1> QED
  BY <1>1, Invariance, PTL

\* Whatever start(), stop(), the destructor and crashes of any number of
\* gateways do to one path: a file or a listening socket that nobody was
\* already on the way to unlink is never taken away, and a gateway at rest has
\* left no socket there.
THEOREM PathSafety == ServerSpec => PathIsRespected
<1>1. ServerInv /\ [ServerNext]_allVars => Respected
  <2> SUFFICES ASSUME ServerInv, [ServerNext]_allVars PROVE Respected
    OBVIOUS
  <2>1. PathInv /\ ClientTypes /\ MessagesInv /\ AnswersInv
    BY DEF ServerInv, ServerTypeOK, ClientTypes
  <2>2. Next \/ FaultStep \/ UNCHANGED vars
    BY <2>1, ServerStepIsPathStep DEF allVars
  <2> QED
    BY <2>1, <2>2, PathRespectedStep
<1>2. ServerInv /\ [ServerNext]_allVars
        => [/\ FileIsSafe => FileIsSafe'
            /\ \A j \in Instances : SocketIsSafe(j) =>
                  SocketIsSafe(j)' \/ pc'[j] \notin {"register", "running"}]_vars
  BY <1>1 DEF Respected
<1>3. ServerInv => \A i \in Instances : pc[i] \in {"off", "refused"} => path # i
  BY PathInvImplies DEF ServerInv
<1> QED
  BY <1>2, <1>3, Invariance, PTL DEF ServerSpec, PathIsRespected

=============================================================================
