------------------------ MODULE PluginManager_proofs ------------------------
(***************************************************************************)
(* The Modbus plugin's object keeps its promises, in a program that owns   *)
(* it (Spec) and in one that loads it with a PluginManager (ManagerSpec);  *)
(* and the PluginManager keeps its own.                                    *)
(*                                                                         *)
(* The calls are compositions of member functions, so the proof is too: a  *)
(* lemma says what each member function does to each field, the lemmas     *)
(* about the calls use only those, and an invariant of the objects is kept *)
(* by every call whoever makes it.                                         *)
(***************************************************************************)
EXTENDS PluginManager, FiniteSetTheorems, TLAPS

-----------------------------------------------------------------------------
(* What the member functions do, field by field.                           *)

SameBackoff(h, g) ==
    h.failureCount = g.failureCount /\ h.nextDelay = g.nextDelay /\ h.retryIn = g.retryIn
SameStates(h, g) ==
    h.state = g.state /\ h.deviceState = g.deviceState /\ h.registered = g.registered

\* transitionTo() does nothing, or moves both states along an allowed edge.
LEMMA TransitionToFields ==
    ASSUME NEW g \in Objects, NEW s \in ConnectionStates
    PROVE  LET h == TransitionTo(g, s)
           IN /\ h \in Objects
              /\ h.context = g.context /\ h.connected = g.connected
              /\ h.registered = g.registered /\ h.tags = g.tags
              /\ SameBackoff(h, g)
              /\ IF s \in Allowed[g.state] /\ s # g.state /\ g.registered
                 THEN h.state = s /\ h.deviceState = s
                 ELSE h = g
<1> DEFINE i == IF s = "Connected" THEN 0 ELSE g.idle
           h == [g EXCEPT !.state = s, !.deviceState = s, !.idle = i]
<1>1. i \in 0 .. Timeout
  BY DelayAssumption DEF Objects
<1> HIDE DEF i
<1>2. h \in Objects
  BY <1>1 DEF Objects
<1>3. /\ h.context = g.context /\ h.connected = g.connected
      /\ h.registered = g.registered /\ h.tags = g.tags
      /\ SameBackoff(h, g)
      /\ h.state = s /\ h.deviceState = s
  BY DEF Objects, SameBackoff
<1>4. TransitionTo(g, s) =
         IF s \in Allowed[g.state] /\ s # g.state /\ g.registered THEN h ELSE g
  BY DEF TransitionTo, i
<1>5. SameBackoff(g, g)
  BY DEF SameBackoff
<1> QED
  BY <1>2, <1>3, <1>4, <1>5

\* Tags of a device that is not registered stay as they are, and nothing but
\* the tags changes.
LEMMA UpdateTagsFields ==
    ASSUME NEW g \in Objects, NEW tags \in [Tags -> Qualities \union {"none"}]
    PROVE  LET h == UpdateTags(g, tags)
           IN /\ h \in Objects
              /\ h.context = g.context /\ h.connected = g.connected /\ h.idle = g.idle
              /\ SameStates(h, g) /\ SameBackoff(h, g)
              /\ h.tags = IF g.registered THEN tags ELSE g.tags
<1> DEFINE h == [g EXCEPT !.tags = tags]
<1>1. /\ h \in Objects
      /\ h.context = g.context /\ h.connected = g.connected /\ h.idle = g.idle
      /\ SameStates(h, g) /\ SameBackoff(h, g)
      /\ h.tags = tags
  BY DEF Objects, SameStates, SameBackoff
<1>2. SameStates(g, g) /\ SameBackoff(g, g)
  BY DEF SameStates, SameBackoff
<1> QED
  BY <1>1, <1>2 DEF UpdateTags

\* updateAllTagQualities() with anything but Good leaves no tag of a registered
\* device Good.
LEMMA QualitiesFields ==
    ASSUME NEW g \in Objects, NEW q \in Qualities \ {"Good"}
    PROVE  LET h == UpdateAllTagQualities(g, q)
           IN /\ h \in Objects
              /\ h.context = g.context /\ h.connected = g.connected /\ h.idle = g.idle
              /\ SameStates(h, g) /\ SameBackoff(h, g)
              /\ g.registered => \A t \in Tags : h.tags[t] # "Good"
              /\ ~g.registered => h.tags = g.tags
<1> DEFINE tags == [t \in Tags |-> IF g.tags[t] = "none" THEN "none" ELSE q]
<1>1. tags \in [Tags -> Qualities \union {"none"}] /\ \A t \in Tags : tags[t] # "Good"
  OBVIOUS
<1>2. UpdateAllTagQualities(g, q) = UpdateTags(g, tags)
  BY DEF UpdateAllTagQualities
<1> HIDE DEF tags
<1> QED
  BY <1>1, <1>2, UpdateTagsFields

-----------------------------------------------------------------------------
(* The backoff.                                                            *)

\* The wait is doubled from one failure to the next, capped, and the bound on
\* failureCount_ is so high that the cap has been reached before it.
LEMMA WaitDoubles ==
    /\ WaitAfter(1) = InitialDelay
    /\ \A k \in 1 .. MaxFailures : /\ WaitAfter(k) \in InitialDelay .. MaximumDelay
                                   /\ WaitAfter(k + 1) = Doubled(WaitAfter(k))
    /\ WaitAfter(MaxFailures) = MaximumDelay
<1>1. WaitAfter(1) = InitialDelay
  BY DelayAssumption, PowerAssumption DEF WaitAfter, Smaller
<1>2. ASSUME NEW k \in 1 .. MaxFailures
      PROVE  /\ WaitAfter(k) \in InitialDelay .. MaximumDelay
             /\ WaitAfter(k + 1) = Doubled(WaitAfter(k))
  <2>1. PICK p \in Nat \ {0} : p = 2 ^ (k - 1) /\ 2 ^ k = 2 * p
    <3>1. k - 1 \in 0 .. MaxFailures /\ (k - 1) + 1 = k
      BY BoundsAssumption
    <3> QED  BY <3>1, PowerAssumption
  <2>3. WaitAfter(k) = Smaller(InitialDelay * p, MaximumDelay)
    BY <2>1 DEF WaitAfter
  <2>4. WaitAfter(k + 1) = Smaller(InitialDelay * (2 * p), MaximumDelay)
    <3>1. (k + 1) - 1 = k
      BY BoundsAssumption
    <3> QED  BY <3>1, <2>1 DEF WaitAfter
  <2>5. PICK w \in Nat : /\ w = InitialDelay * p /\ w >= InitialDelay
                         /\ InitialDelay * (2 * p) = 2 * w
    <3>1. InitialDelay * p \in Nat /\ InitialDelay * p >= InitialDelay
      BY DelayAssumption
    <3>2. InitialDelay * (2 * p) = 2 * (InitialDelay * p)
      BY DelayAssumption
    <3> QED  BY <3>1, <3>2
  <2> QED
    BY <2>3, <2>4, <2>5, DelayAssumption DEF Smaller, Doubled
<1>3. WaitAfter(MaxFailures) = MaximumDelay
  BY DelayAssumption, BoundsAssumption DEF WaitAfter, Smaller
<1> QED
  BY <1>1, <1>2, <1>3

\* The backoff of the object: the wait is the one for the failures so far.
BackoffInv(g) ==
    /\ g.nextDelay = WaitAfter(g.failureCount + 1)
    /\ g.failureCount = 0 => g.retryIn = 0
    /\ g.failureCount > 0 => g.retryIn <= WaitAfter(g.failureCount)

\* recordFailure() schedules the next attempt no earlier than the initial delay.
LEMMA RecordFailureFields ==
    ASSUME NEW g \in Objects, BackoffInv(g)
    PROVE  LET h == RecordFailure(g)
           IN /\ h \in Objects
              /\ h.context = g.context /\ h.connected = g.connected
              /\ h.tags = g.tags /\ SameStates(h, g)
              /\ BackoffInv(h)
              /\ h.failureCount > 0 /\ h.retryIn >= InitialDelay
<1> DEFINE f == Smaller(g.failureCount + 1, MaxFailures)
           d == Doubled(g.nextDelay)
           r == g.nextDelay
           h == [g EXCEPT !.retryIn = r, !.nextDelay = d, !.failureCount = f]
<1>1. g.failureCount \in 0 .. MaxFailures /\ r \in InitialDelay .. MaximumDelay
  BY DEF Objects
<1>2. f \in 0 .. MaxFailures /\ f > 0
  BY <1>1, BoundsAssumption DEF Smaller
<1>3. d \in InitialDelay .. MaximumDelay
  BY <1>1, DelayAssumption DEF Doubled, Smaller
<1>4. r \in 0 .. MaximumDelay /\ r >= InitialDelay
  BY <1>1, DelayAssumption
<1>5. RecordFailure(g) = h
  BY DEF RecordFailure
<1>6. d = WaitAfter(f + 1) /\ r <= WaitAfter(f)
  <2>1. r = WaitAfter(g.failureCount + 1)
    BY DEF BackoffInv
  <2>2. CASE g.failureCount < MaxFailures
    <3>1. f = g.failureCount + 1 /\ f \in 1 .. MaxFailures
      BY <1>1, <2>2, BoundsAssumption DEF Smaller
    <3>2. WaitAfter(f + 1) = Doubled(WaitAfter(f))
      BY <3>1, WaitDoubles
    <3> QED
      BY <2>1, <3>1, <3>2, <1>4, DelayAssumption
  <2>3. CASE g.failureCount = MaxFailures
    <3>1. f = MaxFailures /\ MaxFailures \in 1 .. MaxFailures
      BY <2>3, BoundsAssumption DEF Smaller
    <3>2. WaitAfter(f) = MaximumDelay /\ WaitAfter(f + 1) = Doubled(MaximumDelay)
      BY <3>1, WaitDoubles
    <3>3. Doubled(MaximumDelay) = MaximumDelay
      BY DelayAssumption DEF Doubled
    <3>4. r = MaximumDelay
      BY <2>1, <2>3, <3>1, <3>2, <3>3
    <3> QED
      BY <3>2, <3>3, <3>4, DelayAssumption
  <2> QED
    BY <1>1, <2>2, <2>3, BoundsAssumption
<1> HIDE DEF f, d, r
<1>7. h \in Objects
  BY <1>2, <1>3, <1>4 DEF Objects
<1>8. /\ h.context = g.context /\ h.connected = g.connected
      /\ h.tags = g.tags /\ SameStates(h, g)
      /\ h.failureCount = f /\ h.nextDelay = d /\ h.retryIn = r
  BY DEF Objects, SameStates
<1> HIDE DEF h
<1>9. BackoffInv(h)
  BY <1>8, <1>6, <1>2 DEF BackoffInv
<1> QED
  BY <1>2, <1>4, <1>5, <1>7, <1>8, <1>9

\* reset() begins again.
LEMMA ResetFields ==
    ASSUME NEW g \in Objects
    PROVE  LET h == Reset(g)
           IN /\ h \in Objects
              /\ h.context = g.context /\ h.connected = g.connected
              /\ h.tags = g.tags /\ SameStates(h, g)
              /\ BackoffInv(h) /\ h.failureCount = 0
<1> DEFINE h == [g EXCEPT !.failureCount = 0, !.nextDelay = InitialDelay, !.retryIn = 0]
<1>1. /\ 0 \in 0 .. MaxFailures /\ InitialDelay \in InitialDelay .. MaximumDelay
      /\ 0 \in 0 .. MaximumDelay
  BY DelayAssumption, BoundsAssumption
<1>2. h \in Objects
  BY <1>1 DEF Objects
<1>3. /\ h.context = g.context /\ h.connected = g.connected
      /\ h.tags = g.tags /\ SameStates(h, g)
      /\ h.failureCount = 0 /\ h.nextDelay = InitialDelay /\ h.retryIn = 0
  BY DEF Objects, SameStates
<1>4. Reset(g) = h
  BY DEF Reset
<1> HIDE DEF h
<1>5. BackoffInv(h)
  BY <1>3, WaitDoubles DEF BackoffInv
<1> QED
  BY <1>2, <1>3, <1>4, <1>5

\* connected_ is set: nothing else changes.
LEMMA ConnectedFields ==
    ASSUME NEW g \in Objects, NEW b \in BOOLEAN
    PROVE  LET h == [g EXCEPT !.connected = b]
           IN /\ h \in Objects
              /\ h.context = g.context /\ h.connected = b /\ h.idle = g.idle
              /\ h.tags = g.tags /\ SameStates(h, g) /\ SameBackoff(h, g)
  BY DEF Objects, SameStates, SameBackoff

-----------------------------------------------------------------------------
(* The invariant of the objects and the calls that keep it.                *)

\* Of a plugin without context nothing has happened yet; an open socket means
\* Connected; the DeviceManager shows the machine's state or has been cleared
\* behind its back; and only an open connection has Good tags.
StatesInv(g) ==
    /\ ~g.context => /\ ~g.connected /\ g.state = "Disconnected"
                     /\ g.failureCount = 0
    /\ g.connected => g.state = "Connected"
    /\ g.state # "Connecting"
    /\ g.deviceState \in {g.state, "Disconnected"}
TagsInv(g) ==
    /\ ~g.registered => g.deviceState = "Disconnected" /\ g.tags = NoTags
    /\ \A t \in Tags : g.tags[t] = "Good" => g.connected
ObjectInv(g) == g \in Objects /\ StatesInv(g) /\ TagsInv(g) /\ BackoffInv(g)

\* While nobody removes the device, Connected means an open socket, and the
\* DeviceManager shows the machine's state.
Undisturbed(g) ==
    /\ g.state = "Connected" => g.connected
    /\ g.context => g.registered /\ g.deviceState = g.state

\* A failed connection has to wait for the initial delay at least.
Waits(g) == g.failureCount > 0 /\ g.retryIn >= InitialDelay

\* initialize() makes the machine start in the DeviceManager's state.
LEMMA InitializeKeeps ==
    ASSUME NEW g, ObjectInv(g)
    PROVE  LET h == Initialize(g)
           IN /\ ObjectInv(h) /\ h.context
              /\ Undisturbed(g) => Undisturbed(h)
              /\ h.connected = g.connected /\ h.failureCount = g.failureCount
              /\ g.context => h = g
<1>1. CASE g.context
  <2>1. Initialize(g) = g
    BY <1>1 DEF Initialize
  <2> QED
    BY <1>1, <2>1
<1>2. CASE ~g.context
  <2> DEFINE tags == IF g.registered THEN g.tags ELSE NoTags
             h == [context |-> TRUE, connected |-> FALSE, state |-> "Disconnected",
                   idle |-> 0, failureCount |-> 0, nextDelay |-> InitialDelay,
                   retryIn |-> 0, registered |-> TRUE,
                   deviceState |-> "Disconnected", tags |-> tags]
  <2>1. /\ g.deviceState = "Disconnected" /\ ~g.connected /\ g.failureCount = 0
        /\ g \in Objects
    BY <1>2 DEF ObjectInv, StatesInv
  <2>2. Initialize(g) = h
    BY <1>2, <2>1 DEF Initialize, With, NewPlugin
  <2>3. tags \in [Tags -> Qualities \union {"none"}]
    BY <2>1 DEF Objects, NoTags
  <2>4. \A t \in Tags : tags[t] # "Good"
    BY <1>2, <2>1 DEF ObjectInv, TagsInv, NoTags
  <2> HIDE DEF tags
  <2>5. /\ 0 \in 0 .. MaxFailures /\ InitialDelay \in InitialDelay .. MaximumDelay
        /\ 0 \in 0 .. MaximumDelay /\ 0 \in 0 .. Timeout
    BY DelayAssumption, BoundsAssumption
  <2>6. h \in Objects
    BY <2>3, <2>5 DEF Objects, ConnectionStates
  <2>7. BackoffInv(h)
    BY WaitDoubles DEF BackoffInv
  <2>8. StatesInv(h) /\ TagsInv(h) /\ Undisturbed(h)
    BY <2>4 DEF StatesInv, TagsInv, Undisturbed
  <2>9. h.connected = g.connected /\ h.context /\ h.failureCount = 0
    BY <2>1 DEF Objects
  <2> HIDE DEF h
  <2> QED
    BY <1>2, <2>1, <2>2, <2>6, <2>7, <2>8, <2>9 DEF ObjectInv
<1> QED
  BY <1>1, <1>2

\* connectTransport() makes no attempt, or ends with an open connection or a
\* failure.
LEMMA ConnectKeeps ==
    ASSUME NEW g, ObjectInv(g), g.context, NEW ok \in BOOLEAN
    PROVE  LET h == ConnectTransport(g, ok)
           IN /\ ObjectInv(h) /\ h.context
              /\ Undisturbed(g) => Undisturbed(h)
              /\ ~Attempts(g) => h = g
              /\ Attempts(g) => ~g.connected /\ (h.connected \/ Waits(h))
<1>1. CASE ~Attempts(g)
  BY <1>1 DEF ConnectTransport
<1>2. CASE Attempts(g)
  <2>1. PICK c : c = TransitionTo(g, "Connecting")
    OBVIOUS
  <2>2. g \in Objects /\ "Connecting" \in ConnectionStates
    BY DEF ObjectInv, ConnectionStates
  <2>3. ~g.connected /\ c.state = "Connecting"
    BY <1>2, <2>1 DEF Attempts
  <2>4. /\ c \in Objects /\ c.context /\ ~c.connected
        /\ c.registered = g.registered /\ c.tags = g.tags /\ SameBackoff(c, g)
    BY <2>1, <2>2, <2>3, TransitionToFields
  <2>5. g.registered
    <3>1. g.state # "Connecting"
      BY DEF ObjectInv, StatesInv
    <3> QED
      BY <2>1, <2>2, <2>3, <3>1, TransitionToFields
  <2>6. BackoffInv(c)
    BY <2>4 DEF SameBackoff, BackoffInv, ObjectInv
  <2>7. CASE ~ok
    <3>1. PICK e : e = TransitionTo(c, "Error")
      OBVIOUS
    <3>2. PICK u : u = UpdateAllTagQualities(e, "Disconnected")
      OBVIOUS
    <3>3. PICK h : h = RecordFailure(u)
      OBVIOUS
    <3>4. ConnectTransport(g, ok) = h
      BY <1>2, <2>1, <2>7, <3>1, <3>2, <3>3 DEF ConnectTransport, ConnectionFailed
    <3>5. /\ e \in Objects /\ e.context /\ ~e.connected /\ e.registered
          /\ e.state = "Error" /\ e.deviceState = "Error"
          /\ SameBackoff(e, c)
      <4>1. "Error" \in ConnectionStates /\ "Error" \in Allowed[c.state]
        BY <2>3 DEF ConnectionStates, Allowed
      <4> QED
        BY <2>3, <2>4, <2>5, <3>1, <4>1, TransitionToFields
    <3>6. /\ u \in Objects /\ u.context /\ ~u.connected
          /\ SameStates(u, e) /\ SameBackoff(u, e)
          /\ \A t \in Tags : u.tags[t] # "Good"
      <4>1. "Disconnected" \in Qualities \ {"Good"}
        BY DEF Qualities
      <4> QED
        BY <3>2, <3>5, <4>1, QualitiesFields
    <3>7. BackoffInv(u)
      BY <2>6, <3>5, <3>6 DEF BackoffInv, SameBackoff
    <3>8. /\ h \in Objects /\ h.context /\ ~h.connected /\ h.tags = u.tags
          /\ SameStates(h, u) /\ BackoffInv(h) /\ Waits(h)
      BY <3>3, <3>6, <3>7, RecordFailureFields DEF Waits
    <3>9. StatesInv(h) /\ TagsInv(h) /\ Undisturbed(h)
      BY <3>5, <3>6, <3>8 DEF SameStates, StatesInv, TagsInv, Undisturbed
    <3> QED
      BY <1>2, <2>3, <3>4, <3>8, <3>9 DEF ObjectInv
  <2>8. CASE ok
    <3>1. PICK d : d = [c EXCEPT !.connected = TRUE]
      OBVIOUS
    <3>2. PICK u : u = TransitionTo(d, "Connected")
      OBVIOUS
    <3>3. PICK h : h = Reset(u)
      OBVIOUS
    <3>4. /\ d \in Objects /\ d.context /\ d.connected /\ d.tags = c.tags
          /\ SameStates(d, c)
      BY <2>4, <3>1, ConnectedFields
    <3>5. /\ u \in Objects /\ u.context /\ u.connected /\ u.registered
          /\ u.state = "Connected" /\ u.deviceState = "Connected"
      <4>1. d.state = "Connecting" /\ d.registered
        BY <2>3, <2>4, <2>5, <3>4 DEF SameStates
      <4>2. "Connected" \in ConnectionStates /\ "Connected" \in Allowed[d.state]
        BY <4>1 DEF ConnectionStates, Allowed
      <4> QED
        BY <3>2, <3>4, <4>1, <4>2, TransitionToFields
    <3>6. ConnectTransport(g, ok) = h
      BY <1>2, <2>1, <2>8, <3>1, <3>2, <3>3, <3>5 DEF ConnectTransport
    <3>7. /\ h \in Objects /\ h.context /\ h.connected
          /\ SameStates(h, u) /\ BackoffInv(h)
      BY <3>3, <3>5, ResetFields
    <3>8. StatesInv(h) /\ TagsInv(h) /\ Undisturbed(h)
      BY <3>5, <3>7 DEF SameStates, StatesInv, TagsInv, Undisturbed
    <3> QED
      BY <1>2, <2>3, <3>6, <3>7, <3>8 DEF ObjectInv
  <2> QED
    BY <2>7, <2>8
<1> QED
  BY <1>1, <1>2

\* What pollOnce() makes of an open connection: it stays open, or it is given up.
LEMMA ReadTagsKeeps ==
    ASSUME NEW g, ObjectInv(g), g.connected,
           NEW answers \in [Tags -> Answers], NEW elapsed \in Durations
    PROVE  LET h == ReadTags(g, answers, elapsed)
           IN /\ ObjectInv(h) /\ h.context
              /\ Undisturbed(g) => Undisturbed(h)
              /\ h.connected \/ Waits(h)
<1> DEFINE i == Smaller(g.idle + elapsed, Timeout)
           tags == [t \in Tags |-> QualityOf[answers[t]]]
<1>1. /\ g \in Objects /\ g.context /\ g.state = "Connected"
      /\ g.deviceState \in {"Connected", "Disconnected"}
  BY DEF ObjectInv, StatesInv
<1>2. i \in 0 .. Timeout
  BY <1>1, DelayAssumption DEF Objects, Durations, Smaller
<1>3. tags \in [Tags -> Qualities \union {"none"}]
  BY DEF QualityOf, Answers, Qualities
<1> HIDE DEF i, tags
<1>4. PICK later : later = [g EXCEPT !.idle = i]
  OBVIOUS
<1>5. PICK read : read = UpdateTags(later, tags)
  OBVIOUS
<1>6. PICK late : late = TransitionTo(read, "Timeout")
  OBVIOUS
<1>7. /\ later \in Objects /\ later.context /\ later.connected
      /\ later.tags = g.tags
      /\ SameStates(later, g) /\ SameBackoff(later, g)
  BY <1>1, <1>2, <1>4 DEF Objects, SameStates, SameBackoff
<1>8. /\ read \in Objects /\ read.context /\ read.connected
      /\ read.tags = IF g.registered THEN tags ELSE g.tags
      /\ SameStates(read, g) /\ SameBackoff(read, g)
  <2>1. /\ read \in Objects /\ read.context /\ read.connected
        /\ read.tags = IF later.registered THEN tags ELSE later.tags
        /\ SameStates(read, later) /\ SameBackoff(read, later)
    BY <1>3, <1>5, <1>7, UpdateTagsFields
  <2> QED
    BY <1>7, <2>1 DEF SameStates, SameBackoff
<1>9. ObjectInv(read) /\ (Undisturbed(g) => Undisturbed(read))
  <2>1. BackoffInv(read)
    BY <1>8 DEF ObjectInv, BackoffInv, SameBackoff
  <2>2. StatesInv(read) /\ (Undisturbed(g) => Undisturbed(read))
    BY <1>1, <1>8 DEF StatesInv, Undisturbed, SameStates
  <2>3. TagsInv(read)
    BY <1>8 DEF ObjectInv, TagsInv, SameStates
  <2> QED
    BY <1>8, <2>1, <2>2, <2>3 DEF ObjectInv
<1>10. ReadTags(g, answers, elapsed) =
          IF \E t \in Tags : answers[t] # "short" THEN MarkActivity(read)
          ELSE IF Expired(read) /\ late.state = "Timeout" THEN GiveUp(late) ELSE read
  BY <1>4, <1>5, <1>6 DEF ReadTags, i, tags
<1>11. CASE ReadTags(g, answers, elapsed) = read
  BY <1>8, <1>9, <1>11
<1>12. CASE ReadTags(g, answers, elapsed) = MarkActivity(read)
  <2>1. PICK h : h = [read EXCEPT !.idle = 0]
    OBVIOUS
  <2>2. MarkActivity(read) \in {h, read}
    BY <2>1 DEF MarkActivity
  <2>3. /\ h \in Objects /\ h.context /\ h.connected /\ h.tags = read.tags
        /\ SameStates(h, read) /\ SameBackoff(h, read)
    BY <1>8, <2>1, DelayAssumption DEF Objects, SameStates, SameBackoff
  <2>4. BackoffInv(h)
    BY <1>9, <2>3 DEF ObjectInv, BackoffInv, SameBackoff
  <2>5. StatesInv(h) /\ (Undisturbed(read) => Undisturbed(h))
    BY <1>8, <1>9, <2>3 DEF ObjectInv, StatesInv, Undisturbed, SameStates
  <2>6. TagsInv(h)
    BY <1>9, <2>3 DEF ObjectInv, TagsInv, SameStates
  <2> QED
    BY <1>8, <1>9, <1>12, <2>2, <2>3, <2>4, <2>5, <2>6 DEF ObjectInv
<1>13. CASE late.state = "Timeout" /\ ReadTags(g, answers, elapsed) = GiveUp(late)
  <2>1. PICK u : u = UpdateAllTagQualities(late, "Timeout")
    OBVIOUS
  <2>2. PICK d : d = [u EXCEPT !.connected = FALSE]
    OBVIOUS
  <2>3. PICK h : h = RecordFailure(d)
    OBVIOUS
  <2>4. GiveUp(late) = h
    BY <2>1, <2>2, <2>3 DEF GiveUp
  <2>5. /\ late \in Objects /\ late.context /\ late.registered
        /\ late.deviceState = "Timeout" /\ SameBackoff(late, read)
    <3>1. "Timeout" \in ConnectionStates
      BY DEF ConnectionStates
    <3>2. read.state # "Timeout"
      BY <1>1, <1>8 DEF SameStates
    <3> QED
      BY <1>6, <1>8, <1>13, <3>1, <3>2, TransitionToFields
  <2>6. /\ u \in Objects /\ u.context /\ SameStates(u, late) /\ SameBackoff(u, late)
        /\ \A t \in Tags : u.tags[t] # "Good"
    <3>1. "Timeout" \in Qualities \ {"Good"}
      BY DEF Qualities
    <3> QED
      BY <2>1, <2>5, <3>1, QualitiesFields
  <2>7. /\ d \in Objects /\ d.context /\ ~d.connected /\ d.tags = u.tags
        /\ SameStates(d, u) /\ SameBackoff(d, u)
    BY <2>2, <2>6, ConnectedFields
  <2>8. BackoffInv(d)
    BY <1>9, <2>5, <2>6, <2>7 DEF ObjectInv, BackoffInv, SameBackoff
  <2>9. /\ h \in Objects /\ h.context /\ ~h.connected /\ h.tags = d.tags
        /\ SameStates(h, d) /\ BackoffInv(h) /\ Waits(h)
    BY <2>3, <2>7, <2>8, RecordFailureFields DEF Waits
  <2>10. StatesInv(h) /\ TagsInv(h) /\ Undisturbed(h)
    BY <1>13, <2>5, <2>6, <2>7, <2>9 DEF SameStates, StatesInv, TagsInv, Undisturbed
  <2> QED
    BY <1>13, <2>4, <2>9, <2>10 DEF ObjectInv
<1> QED
  BY <1>10, <1>11, <1>12, <1>13

\* pollOnce(): what is not connected afterwards waits, or was left alone.
LEMMA PollOnceKeeps ==
    ASSUME NEW g, ObjectInv(g), NEW ok \in BOOLEAN,
           NEW answers \in [Tags -> Answers], NEW elapsed \in Durations
    PROVE  LET h == PollOnce(g, ok, answers, elapsed)
               attempts == g.context /\ CanRetry(g) /\ Attempts(g)
           IN /\ ObjectInv(h) /\ h.context = g.context
              /\ Undisturbed(g) => Undisturbed(h)
              /\ attempts \/ g.connected => h.connected \/ Waits(h)
              /\ ~attempts /\ ~g.connected => h = g
<1>1. g \in Objects /\ (g.connected => g.context)
  BY DEF ObjectInv, StatesInv
<1>2. CASE ~g.connected /\ ~(g.context /\ CanRetry(g))
  BY <1>2 DEF PollOnce
<1>3. CASE g.connected \/ (g.context /\ CanRetry(g))
  <2>1. PICK c : c = ConnectTransport(g, ok)
    OBVIOUS
  <2>2. PICK h : h = IF c.connected THEN ReadTags(c, answers, elapsed) ELSE c
    OBVIOUS
  <2>3. PollOnce(g, ok, answers, elapsed) = h
    BY <1>3, <2>1, <2>2 DEF PollOnce
  <2>4. g.context
    BY <1>1, <1>3
  <2>5. /\ ObjectInv(c) /\ c.context
        /\ Undisturbed(g) => Undisturbed(c)
        /\ ~Attempts(g) => c = g
        /\ Attempts(g) => ~g.connected /\ (c.connected \/ Waits(c))
    BY <2>1, <2>4, ConnectKeeps
  <2>6. CASE c.connected
    <3>1. h = ReadTags(c, answers, elapsed)
      BY <2>2, <2>6
    <3>2. /\ ObjectInv(h) /\ h.context
          /\ Undisturbed(c) => Undisturbed(h)
          /\ h.connected \/ Waits(h)
      BY <2>5, <2>6, <3>1, ReadTagsKeeps
    <3>3. h.context = g.context
      <4>1. h \in Objects
        BY <3>2 DEF ObjectInv
      <4> QED  BY <1>1, <2>4, <3>2, <4>1 DEF Objects
    <3> QED
      BY <1>3, <2>3, <2>5, <2>6, <3>2, <3>3
  <2>7. CASE ~c.connected
    <3>1. h = c
      BY <2>2, <2>7
    <3>2. c.context = g.context
      <4>1. c \in Objects
        BY <2>5 DEF ObjectInv
      <4> QED  BY <1>1, <2>4, <2>5, <4>1 DEF Objects
    <3> QED
      BY <1>3, <2>3, <2>4, <2>5, <2>7, <3>1, <3>2
  <2> QED
    BY <2>6, <2>7
<1> QED
  BY <1>2, <1>3

\* start() of an initialized plugin.
LEMMA StartTransportKeeps ==
    ASSUME NEW g, ObjectInv(g), g.context, NEW ok \in BOOLEAN,
           NEW answers \in [Tags -> Answers], NEW elapsed \in Durations
    PROVE  LET h == StartTransport(g, ok, answers, elapsed)
               attempts == CanRetry(g) /\ Attempts(g)
           IN /\ ObjectInv(h) /\ h.context
              /\ Undisturbed(g) => Undisturbed(h)
              /\ attempts \/ (CanRetry(g) /\ g.connected) => h.connected \/ Waits(h)
              /\ ~attempts /\ ~g.connected => h = g
<1>1. CASE ~CanRetry(g)
  BY <1>1 DEF StartTransport
<1>2. CASE CanRetry(g)
  <2>1. PICK c : c = ConnectTransport(g, ok)
    OBVIOUS
  <2>2. PICK h : h = IF c.connected THEN PollOnce(c, ok, answers, elapsed) ELSE c
    OBVIOUS
  <2>3. StartTransport(g, ok, answers, elapsed) = h
    BY <1>2, <2>1, <2>2 DEF StartTransport
  <2>4. /\ ObjectInv(c) /\ c.context
        /\ Undisturbed(g) => Undisturbed(c)
        /\ ~Attempts(g) => c = g
        /\ Attempts(g) => ~g.connected /\ (c.connected \/ Waits(c))
    BY <2>1, ConnectKeeps
  <2>5. CASE c.connected
    <3>1. h = PollOnce(c, ok, answers, elapsed)
      BY <2>2, <2>5
    <3>2. /\ ObjectInv(h) /\ h.context = c.context
          /\ Undisturbed(c) => Undisturbed(h)
          /\ h.connected \/ Waits(h)
      BY <2>4, <2>5, <3>1, PollOnceKeeps
    <3> QED
      BY <1>2, <2>3, <2>4, <2>5, <3>2
  <2>6. CASE ~c.connected
    BY <1>2, <2>2, <2>3, <2>4, <2>6
  <2> QED
    BY <2>5, <2>6
<1> QED
  BY <1>1, <1>2

\* stop() closes the connection whatever its state, leaves no tag Good, and what
\* it leaves in the DeviceManager is Disconnected.
LEMMA StopKeeps ==
    ASSUME NEW g, ObjectInv(g)
    PROVE  LET h == StopTransport(g)
           IN /\ ObjectInv(h) /\ h.context = g.context
              /\ Undisturbed(g) => Undisturbed(h)
              /\ ~h.connected /\ h.deviceState = "Disconnected"
<1>1. PICK c : c = [g EXCEPT !.connected = FALSE]
  OBVIOUS
<1>2. /\ g \in Objects /\ c \in Objects /\ c.context = g.context /\ ~c.connected
      /\ c.tags = g.tags /\ SameStates(c, g) /\ SameBackoff(c, g)
  BY <1>1, ConnectedFields DEF ObjectInv
<1>3. BackoffInv(c)
  BY <1>2 DEF ObjectInv, BackoffInv, SameBackoff
<1>4. CASE ~g.context
  <2>1. StopTransport(g) = c
    BY <1>1, <1>4 DEF StopTransport
  <2>2. ~g.connected /\ g.state = "Disconnected" /\ g.deviceState = "Disconnected"
    BY <1>4 DEF ObjectInv, StatesInv
  <2>3. StatesInv(c) /\ c.deviceState = "Disconnected" /\ Undisturbed(c)
    BY <1>2, <1>4, <2>2 DEF ObjectInv, StatesInv, Undisturbed, SameStates, SameBackoff
  <2>4. TagsInv(c)
    BY <1>2, <2>2 DEF ObjectInv, TagsInv, SameStates
  <2> QED
    BY <1>2, <1>3, <2>1, <2>3, <2>4 DEF ObjectInv
<1>5. CASE g.context
  <2>1. PICK e : e = TransitionTo(c, "Disconnected")
    OBVIOUS
  <2>2. PICK u : u = UpdateAllTagQualities(e, "Disconnected")
    OBVIOUS
  <2>3. PICK k : k = IF c.state = "Disconnected" THEN c ELSE u
    OBVIOUS
  <2>4. PICK h : h = Reset(k)
    OBVIOUS
  <2>5. StopTransport(g) = h
    BY <1>1, <1>5, <2>1, <2>2, <2>3, <2>4 DEF StopTransport
  <2>6. /\ k \in Objects /\ k.context = g.context /\ ~k.connected
        /\ k.registered = g.registered
        /\ StatesInv(k) /\ TagsInv(k) /\ (Undisturbed(g) => Undisturbed(k))
        /\ k.deviceState = "Disconnected"
    <3>1. CASE g.state = "Disconnected"
      <4>1. k = c
        BY <1>2, <2>3, <3>1 DEF SameStates
      <4>2. ~g.connected /\ g.deviceState = "Disconnected"
        BY <3>1 DEF ObjectInv, StatesInv
      <4>3. StatesInv(c) /\ c.deviceState = "Disconnected" /\ c.registered = g.registered
        BY <1>2, <1>5, <3>1, <4>2 DEF StatesInv, SameStates
      <4>4. Undisturbed(g) => Undisturbed(c)
        BY <1>2, <3>1, <4>2 DEF Undisturbed, SameStates
      <4>5. TagsInv(c)
        BY <1>2, <4>2 DEF ObjectInv, TagsInv, SameStates
      <4> QED
        BY <1>2, <4>1, <4>3, <4>4, <4>5
    <3>2. CASE g.state # "Disconnected" /\ ~g.registered
      <4>1. ~c.registered
        BY <1>2, <3>2 DEF SameStates
      <4>2. "Disconnected" \in ConnectionStates /\ "Disconnected" \in Qualities \ {"Good"}
        BY DEF ConnectionStates, Qualities
      <4>3. e = c
        BY <1>2, <2>1, <4>1, <4>2, TransitionToFields
      <4>4. /\ u \in Objects /\ u.context = c.context /\ u.connected = c.connected
            /\ SameStates(u, c) /\ u.tags = c.tags
        BY <1>2, <2>2, <4>1, <4>2, <4>3, QualitiesFields
      <4>5. k = u
        BY <1>2, <2>3, <3>2 DEF SameStates
      <4>6. g.deviceState = "Disconnected" /\ g.tags = NoTags
        BY <3>2 DEF ObjectInv, TagsInv
      <4>7. u.deviceState = "Disconnected" /\ u.state = g.state /\ u.registered = g.registered
        BY <1>2, <4>4, <4>6 DEF SameStates
      <4>8. StatesInv(u)
        BY <1>2, <1>5, <4>4, <4>7 DEF ObjectInv, StatesInv
      <4>9. TagsInv(u)
        BY <1>2, <4>4, <4>6, <4>7 DEF TagsInv, NoTags
      <4>10. ~Undisturbed(g)
        BY <1>5, <3>2 DEF Undisturbed
      <4> QED
        BY <1>2, <4>4, <4>5, <4>7, <4>8, <4>9, <4>10
    <3>3. CASE g.state # "Disconnected" /\ g.registered
      <4>1. c.registered /\ c.state = g.state
        BY <1>2, <3>3 DEF SameStates
      <4>2. "Disconnected" \in ConnectionStates /\ "Disconnected" \in Qualities \ {"Good"}
        BY DEF ConnectionStates, Qualities
      <4>3. "Disconnected" \in Allowed[c.state]
        BY <1>2, <3>3, <4>1 DEF Objects, ConnectionStates, Allowed
      <4>4. /\ e \in Objects /\ e.context = c.context /\ e.connected = c.connected
            /\ e.registered = c.registered
            /\ e.state = "Disconnected" /\ e.deviceState = "Disconnected"
        BY <1>2, <2>1, <3>3, <4>1, <4>2, <4>3, TransitionToFields
      <4>5. /\ u \in Objects /\ u.context = e.context /\ u.connected = e.connected
            /\ SameStates(u, e) /\ \A t \in Tags : u.tags[t] # "Good"
        BY <2>2, <4>1, <4>2, <4>4, QualitiesFields
      <4>6. k = u
        BY <1>2, <2>3, <3>3 DEF SameStates
      <4>7. /\ u.deviceState = "Disconnected" /\ u.state = "Disconnected"
            /\ u.registered = g.registered /\ u.registered
        BY <1>2, <4>1, <4>4, <4>5 DEF SameStates
      <4>8. StatesInv(u) /\ TagsInv(u) /\ Undisturbed(u)
        BY <1>2, <1>5, <4>4, <4>5, <4>7 DEF StatesInv, TagsInv, Undisturbed
      <4> QED
        BY <1>2, <4>4, <4>5, <4>6, <4>7, <4>8
    <3> QED
      BY <3>1, <3>2, <3>3
  <2>7. /\ h \in Objects /\ h.context = k.context /\ h.connected = k.connected
        /\ h.tags = k.tags /\ SameStates(h, k) /\ BackoffInv(h)
    BY <2>4, <2>6, ResetFields
  <2>8. StatesInv(h) /\ h.deviceState = "Disconnected" /\ ~h.connected
    BY <1>5, <2>6, <2>7 DEF StatesInv, SameStates
  <2>9. Undisturbed(g) => Undisturbed(h)
    BY <2>6, <2>7 DEF Undisturbed, SameStates
  <2>10. TagsInv(h)
    BY <2>6, <2>7 DEF TagsInv, SameStates
  <2> QED
    BY <2>5, <2>6, <2>7, <2>8, <2>9, <2>10 DEF ObjectInv
<1> QED
  BY <1>4, <1>5

\* A new object for a device that the DeviceManager shows as Disconnected,
\* without a Good tag, is as good as new.
LEMMA NewPluginInv ==
    ASSUME NEW r \in BOOLEAN, NEW tags \in [Tags -> Qualities \union {"none"}],
           \A t \in Tags : tags[t] # "Good", ~r => tags = NoTags
    PROVE  LET h == With(NewPlugin, r, "Disconnected", tags)
           IN /\ ObjectInv(h) /\ Undisturbed(h)
              /\ ~h.context /\ ~h.connected /\ h.failureCount = 0
<1> DEFINE h == [context |-> FALSE, connected |-> FALSE, state |-> "Disconnected",
                 idle |-> 0, failureCount |-> 0, nextDelay |-> InitialDelay,
                 retryIn |-> 0, registered |-> r,
                 deviceState |-> "Disconnected", tags |-> tags]
<1>1. With(NewPlugin, r, "Disconnected", tags) = h
  BY DEF With, NewPlugin
<1>2. /\ 0 \in 0 .. MaxFailures /\ InitialDelay \in InitialDelay .. MaximumDelay
      /\ 0 \in 0 .. MaximumDelay /\ 0 \in 0 .. Timeout
  BY DelayAssumption, BoundsAssumption
<1>3. h \in Objects
  BY <1>2 DEF Objects, ConnectionStates
<1>4. BackoffInv(h)
  BY WaitDoubles DEF BackoffInv
<1>5. /\ StatesInv(h) /\ TagsInv(h) /\ Undisturbed(h)
      /\ ~h.context /\ ~h.connected /\ h.failureCount = 0
  BY DEF StatesInv, TagsInv, Undisturbed
<1> HIDE DEF h
<1> QED
  BY <1>1, <1>3, <1>4, <1>5 DEF ObjectInv

\* Others clear the device's entry, or register it anew.
LEMMA ClearedInv ==
    ASSUME NEW g, ObjectInv(g), NEW r \in BOOLEAN
    PROVE  LET h == With(g, r, "Disconnected", NoTags)
           IN /\ ObjectInv(h) /\ SameBackoff(h, g)
              /\ h.context = g.context /\ h.connected = g.connected /\ h.state = g.state
              /\ ~g.context => Undisturbed(h)
<1> DEFINE h == With(g, r, "Disconnected", NoTags)
<1>1. /\ h.context = g.context /\ h.connected = g.connected /\ h.state = g.state
      /\ h.deviceState = "Disconnected" /\ h.tags = NoTags /\ SameBackoff(h, g)
  BY DEF With, SameBackoff
<1>2. h \in Objects
  <2>1. g \in Objects
    BY DEF ObjectInv
  <2> QED
    BY <2>1 DEF Objects, With, NoTags, ConnectionStates
<1> HIDE DEF h
<1>3. BackoffInv(h)
  BY <1>1 DEF ObjectInv, BackoffInv, SameBackoff
<1>4. StatesInv(h)
  BY <1>1 DEF ObjectInv, StatesInv, SameBackoff
<1>5. TagsInv(h)
  BY <1>1 DEF TagsInv, NoTags
<1>6. ~g.context => Undisturbed(h)
  BY <1>1 DEF ObjectInv, StatesInv, Undisturbed
<1> QED
  BY <1>1, <1>2, <1>3, <1>4, <1>5, <1>6 DEF ObjectInv, h

\* Time passes.
LEMMA TickKeeps ==
    ASSUME NEW g, ObjectInv(g)
    PROVE  LET h == [g EXCEPT !.idle = Smaller(@ + 1, Timeout),
                              !.retryIn = IF @ > 0 THEN @ - 1 ELSE 0]
           IN /\ ObjectInv(h) /\ (Undisturbed(g) => Undisturbed(h))
              /\ h.context = g.context /\ h.connected = g.connected
              /\ h.failureCount = g.failureCount /\ h.retryIn >= g.retryIn - 1
<1> DEFINE i == Smaller(g.idle + 1, Timeout)
           r == IF g.retryIn > 0 THEN g.retryIn - 1 ELSE 0
           h == [g EXCEPT !.idle = i, !.retryIn = r]
<1>1. g \in Objects
  BY DEF ObjectInv
<1>2. /\ i \in 0 .. Timeout /\ r \in 0 .. MaximumDelay
      /\ g.retryIn \in 0 .. MaximumDelay /\ g.failureCount \in 0 .. MaxFailures
      /\ r >= g.retryIn - 1 /\ r <= g.retryIn
  BY <1>1, DelayAssumption DEF Objects, Smaller
<1>3. [g EXCEPT !.idle = Smaller(@ + 1, Timeout),
                !.retryIn = IF @ > 0 THEN @ - 1 ELSE 0] = h
  OBVIOUS
<1> HIDE DEF i, r
<1>4. /\ h \in Objects /\ SameStates(h, g)
      /\ h.context = g.context /\ h.connected = g.connected /\ h.tags = g.tags
      /\ h.failureCount = g.failureCount /\ h.nextDelay = g.nextDelay /\ h.retryIn = r
  BY <1>1, <1>2 DEF Objects, SameStates
<1> HIDE DEF h
<1>5. BackoffInv(h)
  <2>1. CASE g.failureCount = 0
    BY <2>1, <1>2, <1>4, DelayAssumption DEF ObjectInv, BackoffInv
  <2>2. CASE g.failureCount > 0
    <3>1. WaitAfter(g.failureCount) \in InitialDelay .. MaximumDelay
      BY <1>2, <2>2, WaitDoubles, BoundsAssumption
    <3> QED
      BY <2>2, <3>1, <1>2, <1>4, DelayAssumption DEF ObjectInv, BackoffInv
  <2> QED
    BY <1>2, <2>1, <2>2, BoundsAssumption
<1>6. StatesInv(h) /\ (Undisturbed(g) => Undisturbed(h))
  BY <1>4 DEF ObjectInv, StatesInv, Undisturbed, SameStates
<1>7. TagsInv(h)
  BY <1>4 DEF ObjectInv, TagsInv, SameStates
<1> QED
  BY <1>2, <1>3, <1>4, <1>5, <1>6, <1>7 DEF ObjectInv

-----------------------------------------------------------------------------
(* The pace of the connection attempts.                                    *)

\* q, the time since the last attempt: an attempt that CanRetry() would let
\* through now comes no earlier than the initial delay.
Paced(g, q) ==
    \/ q = InitialDelay
    \/ g.connected
    \/ g.failureCount > 0 /\ q + g.retryIn >= InitialDelay

\* What is attempted comes after the initial delay.
LEMMA AttemptIsLate ==
    ASSUME NEW g \in Objects, NEW q \in 0 .. InitialDelay, Paced(g, q),
           CanRetry(g), Attempts(g)
    PROVE  q = InitialDelay
<1>1. ~g.connected
  BY DEF Attempts
<1>2. CASE g.failureCount = 0
  BY <1>1, <1>2 DEF Paced
<1>3. CASE g.retryIn = 0
  BY <1>1, <1>3, DelayAssumption DEF Paced
<1> QED
  BY <1>2, <1>3 DEF CanRetry

\* A call that makes an attempt, or is left with the connection it had or the
\* failure of it, or does nothing, keeps the pace.
LEMMA PaceIsKept ==
    ASSUME NEW g \in Objects, NEW h \in Objects, NEW q \in 0 .. InitialDelay,
           Paced(g, q), NEW elapsed \in Durations, NEW happens \in BOOLEAN,
           happens \/ g.connected => h.connected \/ Waits(h),
           ~happens /\ ~g.connected => h = g
    PROVE  Paced(h, IF happens THEN Smaller(elapsed, InitialDelay) ELSE q)
<1>1. PICK p : p = IF happens THEN Smaller(elapsed, InitialDelay) ELSE q
  OBVIOUS
<1>2. p \in 0 .. InitialDelay
  BY <1>1, DelayAssumption DEF Durations, Smaller
<1>3. CASE h.connected
  BY <1>1, <1>3 DEF Paced
<1>4. CASE Waits(h)
  <2>1. h.retryIn \in 0 .. MaximumDelay
    BY DEF Objects
  <2>2. p + h.retryIn >= InitialDelay
    BY <1>2, <1>4, <2>1, DelayAssumption DEF Waits
  <2> QED
    BY <1>1, <1>4, <2>2 DEF Paced, Waits
<1>5. CASE ~happens /\ ~g.connected
  BY <1>5
<1> QED
  BY <1>3, <1>4, <1>5

-----------------------------------------------------------------------------
(* A program that owns the plugin.                                         *)

DeviceTypes ==
    /\ device \in Devices /\ quiet \in 0 .. InitialDelay
    /\ removals \in 0 .. MaxRemovals
PaceInv == gap = InitialDelay /\ Paced(m, quiet)
DeviceInv ==
    /\ ObjectInv(m) /\ DeviceTypes /\ PaceInv
    /\ removals = 0 => Undisturbed(m)

\* What the invariant is for.
LEMMA DeviceInvImplies ==
    DeviceInv => StatesAgree /\ GoodMeansConnected /\ BackoffIsExponential
<1> SUFFICES ASSUME DeviceInv
             PROVE  StatesAgree /\ GoodMeansConnected /\ BackoffIsExponential
  OBVIOUS
<1>1. ObjectInv(m) /\ m \in Objects
  BY DEF DeviceInv, ObjectInv
<1>2. TypeOK
  BY <1>1, DelayAssumption DEF DeviceInv, DeviceTypes, PaceInv, TypeOK
<1>3. /\ ~m.context => m.deviceState = "Disconnected"
      /\ m.connected => m.context /\ m.state = "Connected"
      /\ m.state # "Connecting" /\ m.deviceState # "Connecting"
  BY <1>1 DEF ObjectInv, StatesInv
<1>4. StatesAgree
  BY <1>2, <1>3 DEF DeviceInv, Undisturbed, StatesAgree
<1>5. GoodMeansConnected
  BY <1>1, <1>3 DEF ObjectInv, TagsInv, GoodMeansConnected
<1>6. BackoffIsExponential
  BY <1>1, DelayAssumption DEF ObjectInv, BackoffInv, DeviceInv, PaceInv, BackoffIsExponential
<1> QED
  BY <1>4, <1>5, <1>6

\* The answers to a poll give every tag one.
LEMMA AnswersType ==
    PossibleAnswers \subseteq [Tags -> Answers] /\ Reachable \in BOOLEAN
<1>1. PossibleAnswers \subseteq [Tags -> Answers]
  BY DEF PossibleAnswers, Answers
<1>2. Reachable \in BOOLEAN
  BY Zenon DEF Reachable
<1> QED
  BY <1>1, <1>2

\* A new plugin and an empty DeviceManager are in order.
LEMMA NewDeviceInv ==
    /\ ObjectInv(NewDevice) /\ Undisturbed(NewDevice)
    /\ ~NewDevice.context /\ ~NewDevice.connected /\ NewDevice.failureCount = 0
<1>1. /\ FALSE \in BOOLEAN /\ NoTags \in [Tags -> Qualities \union {"none"}]
      /\ \A t \in Tags : NoTags[t] # "Good"
  BY DEF NoTags
<1> QED
  BY <1>1, NewPluginInv DEF NewDevice

\* The device's invariant holds of a plugin that was just made.
LEMMA DeviceInitInv ==
    Init => DeviceInv
<1> SUFFICES ASSUME Init PROVE DeviceInv
  OBVIOUS
<1>1. ObjectInv(m) /\ Undisturbed(m)
  BY NewDeviceInv DEF Init
<1>2. DeviceTypes /\ PaceInv
  BY DelayAssumption, BoundsAssumption DEF Init, DeviceTypes, PaceInv, Paced
<1> QED
  BY <1>1, <1>2 DEF DeviceInv

\* pollOnce() keeps it, whatever the device answers and however long that takes;
\* the modbus context stays.
LEMMA PollStep ==
    ASSUME DeviceInv, CallPollOnce
    PROVE  DeviceInv' /\ m'.context = m.context
<1>1. PICK answers \in PossibleAnswers, elapsed \in Durations :
          /\ m' = PollOnce(m, Reachable, answers, elapsed)
          /\ Attempt(m.context /\ CanRetry(m) /\ Attempts(m), elapsed)
  BY DEF CallPollOnce
<1>2. PICK happens \in BOOLEAN : happens <=> m.context /\ CanRetry(m) /\ Attempts(m)
  BY Zenon
<1>3. UNCHANGED <<device, removals>>
  BY DEF CallPollOnce
<1>4. answers \in [Tags -> Answers] /\ Reachable \in BOOLEAN
  BY AnswersType
<1>5. ObjectInv(m) /\ m \in Objects /\ quiet \in 0 .. InitialDelay
  BY DEF DeviceInv, ObjectInv, DeviceTypes
<1>6. /\ ObjectInv(m') /\ m'.context = m.context
      /\ Undisturbed(m) => Undisturbed(m')
      /\ happens \/ m.connected => m'.connected \/ Waits(m')
      /\ ~happens /\ ~m.connected => m' = m
  <2>1. PICK ok \in BOOLEAN : ok = Reachable
    BY <1>4
  <2>2. PICK h : h = PollOnce(m, ok, answers, elapsed)
    OBVIOUS
  <2>3. /\ ObjectInv(h) /\ h.context = m.context
        /\ Undisturbed(m) => Undisturbed(h)
        /\ (m.context /\ CanRetry(m) /\ Attempts(m)) \/ m.connected => h.connected \/ Waits(h)
        /\ ~(m.context /\ CanRetry(m) /\ Attempts(m)) /\ ~m.connected => h = m
    BY <1>4, <1>5, <2>2, PollOnceKeeps
  <2>4. m' = h
    BY <1>1, <2>1, <2>2
  <2> QED
    BY <1>2, <2>3, <2>4
<1>7. m' \in Objects
  BY <1>6 DEF ObjectInv
<1>8. /\ gap' = IF happens THEN quiet ELSE gap
      /\ quiet' = IF happens THEN Smaller(elapsed, InitialDelay) ELSE quiet
  BY <1>1, <1>2 DEF Attempt
<1>9. gap' = InitialDelay
  BY <1>2, <1>5, <1>8, AttemptIsLate DEF DeviceInv, PaceInv
<1>10. Paced(m', quiet')
  BY <1>5, <1>6, <1>7, <1>8, PaceIsKept DEF DeviceInv, PaceInv
<1>11. quiet' \in 0 .. InitialDelay
  BY <1>5, <1>8, DelayAssumption DEF Smaller, Durations
<1> QED
  BY <1>3, <1>6, <1>9, <1>10, <1>11 DEF DeviceInv, DeviceTypes, PaceInv

\* start(), of a plugin that may not have been initialized.
LEMMA StartStep ==
    ASSUME DeviceInv, CallStart
    PROVE  DeviceInv'
<1>1. PICK g : g = Initialize(m)
  OBVIOUS
<1>2. PICK answers \in PossibleAnswers, elapsed \in Durations :
          /\ m' = StartTransport(g, Reachable, answers, elapsed)
          /\ Attempt(CanRetry(g) /\ Attempts(g), elapsed)
  BY <1>1 DEF CallStart
<1>3. PICK happens \in BOOLEAN : happens <=> CanRetry(g) /\ Attempts(g)
  BY Zenon
<1>4. UNCHANGED <<device, removals>>
  BY DEF CallStart
<1>5. answers \in [Tags -> Answers] /\ Reachable \in BOOLEAN
  BY AnswersType
<1>6. ObjectInv(m) /\ m \in Objects /\ quiet \in 0 .. InitialDelay /\ ~m.connected
  BY DEF DeviceInv, ObjectInv, DeviceTypes, CallStart
<1>7. /\ ObjectInv(g) /\ g.context /\ (Undisturbed(m) => Undisturbed(g))
      /\ ~g.connected /\ g.failureCount = m.failureCount
      /\ m.context => g = m
  BY <1>1, <1>6, InitializeKeeps
<1>8. g \in Objects /\ Paced(g, quiet)
  <2>1. CASE m.context
    BY <2>1, <1>6, <1>7 DEF DeviceInv, PaceInv
  <2>2. CASE ~m.context
    BY <2>2, <1>6, <1>7 DEF DeviceInv, PaceInv, Paced, ObjectInv, StatesInv
  <2> QED
    BY <2>1, <2>2
<1>9. /\ ObjectInv(m') /\ (Undisturbed(g) => Undisturbed(m'))
      /\ happens \/ g.connected => m'.connected \/ Waits(m')
      /\ ~happens /\ ~g.connected => m' = g
  <2>1. PICK ok \in BOOLEAN : ok = Reachable
    BY <1>5
  <2>2. PICK h : h = StartTransport(g, ok, answers, elapsed)
    OBVIOUS
  <2>3. /\ ObjectInv(h) /\ (Undisturbed(g) => Undisturbed(h))
        /\ CanRetry(g) /\ Attempts(g) => h.connected \/ Waits(h)
        /\ ~(CanRetry(g) /\ Attempts(g)) /\ ~g.connected => h = g
    BY <1>5, <1>7, <2>2, StartTransportKeeps
  <2>4. m' = h
    BY <1>2, <2>1, <2>2
  <2> QED
    BY <1>3, <1>7, <2>3, <2>4
<1>10. m' \in Objects
  BY <1>9 DEF ObjectInv
<1>11. /\ gap' = IF happens THEN quiet ELSE gap
       /\ quiet' = IF happens THEN Smaller(elapsed, InitialDelay) ELSE quiet
  BY <1>2, <1>3 DEF Attempt
<1>12. gap' = InitialDelay
  BY <1>3, <1>6, <1>8, <1>11, AttemptIsLate DEF DeviceInv, PaceInv
<1>13. Paced(m', quiet')
  BY <1>6, <1>8, <1>9, <1>10, <1>11, PaceIsKept
<1>14. quiet' \in 0 .. InitialDelay
  BY <1>6, <1>11, DelayAssumption DEF Smaller, Durations
<1> QED
  BY <1>4, <1>7, <1>9, <1>12, <1>13, <1>14 DEF DeviceInv, DeviceTypes, PaceInv

\* The device comes and goes, and time passes, in both programs.
LEMMA EnvironmentStep ==
    ASSUME DeviceInv, DeviceChanges \/ Tick
    PROVE  /\ DeviceInv' /\ m'.context = m.context /\ m'.connected = m.connected
           /\ removals' = removals
<1>1. CASE DeviceChanges
  BY <1>1 DEF DeviceChanges, DeviceInv, DeviceTypes, PaceInv
<1>2. CASE Tick
  <2>1. ObjectInv(m) /\ m \in Objects /\ quiet \in 0 .. InitialDelay
    BY DEF DeviceInv, ObjectInv, DeviceTypes
  <2>2. PICK h : h = [m EXCEPT !.idle = Smaller(@ + 1, Timeout),
                               !.retryIn = IF @ > 0 THEN @ - 1 ELSE 0]
    OBVIOUS
  <2>3. /\ ObjectInv(h) /\ (Undisturbed(m) => Undisturbed(h))
        /\ h.context = m.context /\ h.connected = m.connected
        /\ h.failureCount = m.failureCount /\ h.retryIn >= m.retryIn - 1
    BY <2>1, <2>2, TickKeeps
  <2>4. /\ m' = h /\ quiet' = Smaller(quiet + 1, InitialDelay)
        /\ UNCHANGED <<device, gap, removals>>
    BY <1>2, <2>2 DEF Tick
  <2>5. quiet' \in 0 .. InitialDelay
    BY <2>1, <2>4, DelayAssumption DEF Smaller
  <2>6. Paced(h, quiet')
    <3>1. h.retryIn \in 0 .. MaximumDelay /\ m.retryIn \in 0 .. MaximumDelay
      BY <2>1, <2>3 DEF ObjectInv, Objects
    <3>2. CASE quiet = InitialDelay
      BY <3>2, <2>4, DelayAssumption DEF Smaller, Paced
    <3>3. CASE m.connected
      BY <3>3, <2>3 DEF Paced
    <3>4. CASE m.failureCount > 0 /\ quiet + m.retryIn >= InitialDelay
      <4>1. quiet' = InitialDelay \/ quiet' + h.retryIn >= InitialDelay
        BY <3>1, <3>4, <2>1, <2>3, <2>4, DelayAssumption DEF Smaller
      <4> QED
        BY <3>4, <4>1, <2>3 DEF Paced
    <3> QED
      BY <3>2, <3>3, <3>4 DEF DeviceInv, PaceInv, Paced
  <2> QED
    BY <2>3, <2>4, <2>5, <2>6 DEF DeviceInv, DeviceTypes, PaceInv
<1> QED
  BY <1>1, <1>2

\* Every public call of the plugin, the removal of its device and the passing of
\* time keep it.
LEMMA DeviceStep ==
    DeviceInv /\ [Next]_vars => DeviceInv'
<1> SUFFICES ASSUME DeviceInv, [Next]_vars PROVE DeviceInv'
  OBVIOUS
<1>1. /\ ObjectInv(m) /\ m \in Objects /\ DeviceTypes /\ PaceInv
      /\ removals = 0 => Undisturbed(m)
  BY DEF DeviceInv, ObjectInv
<1>2. CASE CallInitialize
  <2>1. /\ ObjectInv(m') /\ (Undisturbed(m) => Undisturbed(m'))
        /\ m'.connected = m.connected /\ m'.failureCount = m.failureCount
    BY <1>1, <1>2, InitializeKeeps DEF CallInitialize
  <2>2. UNCHANGED <<device, quiet, gap, removals>>
    BY <1>2 DEF CallInitialize
  <2>3. quiet = InitialDelay
    BY <1>1, <1>2 DEF CallInitialize, PaceInv, Paced, ObjectInv, StatesInv
  <2>4. DeviceTypes' /\ PaceInv'
    BY <1>1, <2>2, <2>3 DEF DeviceTypes, PaceInv, Paced
  <2> QED
    BY <1>1, <2>1, <2>2, <2>4 DEF DeviceInv
<1>3. CASE CallStart
  BY <1>3, StartStep
<1>4. CASE CallPollOnce
  BY <1>4, PollStep
<1>5. CASE CallStop
  <2>1. ObjectInv(m') /\ (Undisturbed(m) => Undisturbed(m'))
    BY <1>1, <1>5, StopKeeps DEF CallStop
  <2>2. quiet' = InitialDelay /\ UNCHANGED <<device, gap, removals>>
    BY <1>5 DEF CallStop
  <2>3. DeviceTypes' /\ PaceInv'
    BY <1>1, <2>2, DelayAssumption DEF DeviceTypes, PaceInv, Paced
  <2> QED
    BY <1>1, <2>1, <2>2, <2>3 DEF DeviceInv
<1>6. CASE Destroy
  <2>1. PICK g : g = StopTransport(m)
    OBVIOUS
  <2>2. ObjectInv(g) /\ ~g.connected /\ g.deviceState = "Disconnected"
    BY <1>1, <2>1, StopKeeps
  <2>3. m' = With(NewPlugin, g.registered, "Disconnected", g.tags)
    BY <1>6, <2>1, <2>2 DEF Destroy
  <2>4. /\ g.registered \in BOOLEAN /\ g.tags \in [Tags -> Qualities \union {"none"}]
        /\ \A t \in Tags : g.tags[t] # "Good"
        /\ ~g.registered => g.tags = NoTags
    BY <2>2 DEF ObjectInv, TagsInv, Objects
  <2>5. ObjectInv(m') /\ Undisturbed(m')
    BY <2>3, <2>4, NewPluginInv
  <2>6. quiet' = InitialDelay /\ UNCHANGED <<device, gap, removals>>
    BY <1>6 DEF Destroy
  <2>7. DeviceTypes' /\ PaceInv'
    BY <1>1, <2>6, DelayAssumption DEF DeviceTypes, PaceInv, Paced
  <2> QED
    BY <2>5, <2>7 DEF DeviceInv
<1>7. CASE RemoveDevice
  <2>1. m' = With(m, FALSE, "Disconnected", NoTags) /\ FALSE \in BOOLEAN
    BY <1>7 DEF RemoveDevice
  <2>2. ObjectInv(m') /\ SameBackoff(m', m) /\ m'.connected = m.connected
    BY <1>1, <2>1, ClearedInv
  <2>3. /\ removals < MaxRemovals /\ removals' = removals + 1
        /\ UNCHANGED <<device, quiet, gap>>
    BY <1>7 DEF RemoveDevice
  <2>4. DeviceTypes' /\ removals' # 0
    BY <1>1, <2>3, BoundsAssumption DEF DeviceTypes
  <2>5. PaceInv'
    BY <1>1, <2>2, <2>3 DEF PaceInv, Paced, SameBackoff
  <2> QED
    BY <2>2, <2>4, <2>5 DEF DeviceInv
<1>8. CASE AddDevice
  <2>1. m' = With(m, TRUE, "Disconnected", NoTags) /\ TRUE \in BOOLEAN
    BY <1>8 DEF AddDevice
  <2>2. /\ ObjectInv(m') /\ SameBackoff(m', m) /\ m'.connected = m.connected
        /\ ~m.context => Undisturbed(m')
    BY <1>1, <2>1, ClearedInv
  <2>3. ~m.registered /\ UNCHANGED <<device, quiet, gap, removals>>
    BY <1>8 DEF AddDevice
  <2>4. removals = 0 => ~m.context
    BY <1>1, <2>3 DEF Undisturbed
  <2>5. DeviceTypes' /\ PaceInv'
    BY <1>1, <2>2, <2>3 DEF DeviceTypes, PaceInv, Paced, SameBackoff
  <2> QED
    BY <2>2, <2>3, <2>4, <2>5 DEF DeviceInv
<1>9. CASE DeviceChanges \/ Tick
  BY <1>9, EnvironmentStep
<1>10. CASE UNCHANGED vars
  BY <1>10 DEF vars, DeviceInv, DeviceTypes, PaceInv
<1> QED
  BY <1>2, <1>3, <1>4, <1>5, <1>6, <1>7, <1>8, <1>9, <1>10 DEF Next

\* The plugin's objects keep their invariant in a program that owns them.
THEOREM DeviceInvariance == Spec => []DeviceInv
<1> QED
  BY DeviceInitInv, DeviceStep, PTL DEF Spec

\* Socket, state machine and DeviceManager agree after every call, however the
\* calls follow each other and whoever removes the device in between.
THEOREM StateSafety == Spec => []StatesAgree
<1>1. DeviceInv => StatesAgree
  BY DeviceInvImplies
<1> QED
  BY <1>1, DeviceInvariance, PTL

\* A tag is Good only while there is a connection.
THEOREM QualitySafety == Spec => []GoodMeansConnected
<1>1. DeviceInv => GoodMeansConnected
  BY DeviceInvImplies
<1> QED
  BY <1>1, DeviceInvariance, PTL

\* The waits grow as ReconnectBackoff says, for all delays, and two attempts
\* without a stop() in between are the initial delay apart.
THEOREM BackoffSafety == Spec => []BackoffIsExponential
<1>1. DeviceInv => BackoffIsExponential
  BY DeviceInvImplies
<1> QED
  BY <1>1, DeviceInvariance, PTL

-----------------------------------------------------------------------------
(* The PluginManager: the worlds it may leave behind.                      *)

CanObjects == [initialized : BOOLEAN, open : BOOLEAN]
Worlds ==
    [plugins : [Names -> Libraries \union {"none"}], started : SUBSET Names,
     handles : [Libraries -> Int], instances : [Names -> Int], m : Objects,
     quiet : 0 .. InitialDelay, gap : {InitialDelay}, can : CanObjects]

SameTable(v, w) ==
    v.plugins = w.plugins /\ v.handles = w.handles /\ v.instances = w.instances

\* The references the table accounts for.
Holders(p, lib) == {n \in Names : p[n] = lib}
HandlesInv(w) == \A lib \in Libraries : w.handles[lib] = Cardinality(Holders(w.plugins, lib))
InstancesInv(w) == \A n \in Names : w.instances[n] = IF n \in Loaded(w.plugins) THEN 1 ELSE 0
StartedInv(w) ==
    /\ w.started \subseteq Loaded(w.plugins)
    /\ w.can.open <=> Can \in w.started
    /\ w.m.context <=> Modbus \in Loaded(w.plugins)
ModbusInv(w) == ObjectInv(w.m) /\ Undisturbed(w.m) /\ Paced(w.m, w.quiet)
WorldInv(w) ==
    /\ w \in Worlds
    /\ HandlesInv(w) /\ InstancesInv(w) /\ StartedInv(w) /\ ModbusInv(w)

\* The names are two strings, and "none" is no library.
LEMMA NamesFacts ==
    /\ Modbus # Can /\ Names = {Modbus, Can}
    /\ "none" \notin Libraries
    /\ \A lib \in Libraries : NameOf[lib] \in Names
<1>1. Modbus # Can /\ Names = {Modbus, Can}
  BY DEF Modbus, Can, Names
<1>2. "none" \notin Libraries
  BY LibraryAssumption
<1>3. \A lib \in Libraries : NameOf[lib] \in Names
  BY LibraryAssumption DEF NameOf, Names
<1> QED
  BY <1>1, <1>2, <1>3

\* Two worlds with the same fields are equally good.
LEMMA SameFieldsInv ==
    ASSUME NEW v, NEW w, WorldInv(w), v \in Worlds, SameTable(v, w),
           v.started = w.started, v.m = w.m, v.quiet = w.quiet, v.can = w.can
    PROVE  WorldInv(v)
  BY DEF WorldInv, SameTable, HandlesInv, InstancesInv, StartedInv, ModbusInv

\* stop() of some plugins, whether started or not, leaves a world in order in
\* which they are not started and have no connection.
LEMMA StopInstancesKeeps ==
    ASSUME NEW w, WorldInv(w), NEW S \in SUBSET Names
    PROVE  LET v == StopInstances(w, S)
           IN /\ WorldInv(v) /\ SameTable(v, w) /\ v.started = w.started \ S
              /\ Modbus \in S => ~v.m.connected
              /\ Modbus \notin S => v.m = w.m
              /\ Can \in S => ~v.can.open
              /\ Can \notin S => v.can = w.can
<1> DEFINE s == w.started \ S
           g == IF Modbus \in S THEN StopTransport(w.m) ELSE w.m
           q == IF Modbus \in S THEN InitialDelay ELSE w.quiet
           c == IF Can \in S THEN StopCan(w.can) ELSE w.can
           v == [w EXCEPT !.started = s, !.m = g, !.quiet = q, !.can = c]
<1>1. w \in Worlds /\ ModbusInv(w) /\ StartedInv(w)
  BY DEF WorldInv
<1>2. /\ ObjectInv(g) /\ Undisturbed(g) /\ g.context = w.m.context
      /\ Modbus \in S => ~g.connected
      /\ Modbus \notin S => g = w.m
  BY <1>1, StopKeeps DEF ModbusInv
<1>3. q \in 0 .. InitialDelay /\ Paced(g, q)
  BY <1>1, DelayAssumption DEF Worlds, ModbusInv, Paced
<1>4. /\ c \in CanObjects
      /\ Can \in S => ~c.open
      /\ Can \notin S => c = w.can
  <2>1. w.can \in CanObjects
    BY <1>1 DEF Worlds
  <2>2. StopCan(w.can) \in CanObjects /\ ~StopCan(w.can).open
    BY <2>1 DEF CanObjects, StopCan
  <2> QED
    BY <2>1, <2>2
<1>5. s \in SUBSET Names /\ g \in Objects
  BY <1>1, <1>2 DEF Worlds, ObjectInv
<1>6. StopInstances(w, S) = v
  BY DEF StopInstances
<1> HIDE DEF g, q, c
<1>7. v \in Worlds
  BY <1>1, <1>3, <1>4, <1>5 DEF Worlds
<1>8. /\ SameTable(v, w) /\ v.started = s /\ v.m = g /\ v.quiet = q /\ v.can = c
  BY <1>1 DEF Worlds, SameTable
<1> HIDE DEF v
<1>9. ModbusInv(v)
  BY <1>2, <1>3, <1>8 DEF ModbusInv
<1>10. HandlesInv(v) /\ InstancesInv(v)
  BY <1>8 DEF WorldInv, HandlesInv, InstancesInv, SameTable
<1>11. StartedInv(v)
  BY <1>1, <1>2, <1>4, <1>8 DEF StartedInv, SameTable
<1> QED
  BY <1>2, <1>4, <1>6, <1>7, <1>8, <1>9, <1>10, <1>11 DEF WorldInv

\* dlopen() and dlclose() count a handle.
LEMMA HandleFields ==
    ASSUME NEW w \in Worlds, NEW lib \in Libraries
    PROVE  /\ LET v == Dlopen(w, lib)
              IN /\ v \in Worlds /\ v.plugins = w.plugins /\ v.instances = w.instances
                 /\ v.started = w.started /\ v.m = w.m /\ v.quiet = w.quiet /\ v.can = w.can
                 /\ v.handles = [w.handles EXCEPT ![lib] = @ + 1]
           /\ LET v == Dlclose(w, lib)
              IN /\ v \in Worlds /\ v.plugins = w.plugins /\ v.instances = w.instances
                 /\ v.started = w.started /\ v.m = w.m /\ v.quiet = w.quiet /\ v.can = w.can
                 /\ v.handles = [w.handles EXCEPT ![lib] = @ - 1]
<1> DEFINE h == [w.handles EXCEPT ![lib] = @ + 1]
           k == [w.handles EXCEPT ![lib] = @ - 1]
<1>1. h \in [Libraries -> Int] /\ k \in [Libraries -> Int]
  BY DEF Worlds
<1>2. Dlopen(w, lib) = [w EXCEPT !.handles = h] /\ Dlclose(w, lib) = [w EXCEPT !.handles = k]
  BY DEF Dlopen, Dlclose
<1> HIDE DEF h, k
<1>3. [w EXCEPT !.handles = h] \in Worlds /\ [w EXCEPT !.handles = k] \in Worlds
  BY <1>1 DEF Worlds
<1> QED
  BY <1>2, <1>3 DEF Worlds, h, k

\* Objects are counted too.
LEMMA CreateFields ==
    ASSUME NEW w \in Worlds, NEW n \in Names
    PROVE  /\ LET v == Create(w, n)
              IN /\ v \in Worlds /\ v.plugins = w.plugins /\ v.handles = w.handles
                 /\ v.started = w.started /\ v.m = w.m /\ v.quiet = w.quiet /\ v.can = w.can
                 /\ v.instances = [w.instances EXCEPT ![n] = @ + 1]
           /\ LET v == Discarded(w, n)
              IN /\ v \in Worlds /\ v.plugins = w.plugins /\ v.handles = w.handles
                 /\ v.started = w.started /\ v.m = w.m /\ v.quiet = w.quiet /\ v.can = w.can
                 /\ v.instances = [w.instances EXCEPT ![n] = @ - 1]
<1> DEFINE h == [w.instances EXCEPT ![n] = @ + 1]
           k == [w.instances EXCEPT ![n] = @ - 1]
<1>1. h \in [Names -> Int] /\ k \in [Names -> Int]
  BY DEF Worlds
<1>2. Create(w, n) = [w EXCEPT !.instances = h] /\ Discarded(w, n) = [w EXCEPT !.instances = k]
  BY DEF Create, Discarded
<1> HIDE DEF h, k
<1>3. [w EXCEPT !.instances = h] \in Worlds /\ [w EXCEPT !.instances = k] \in Worlds
  BY <1>1 DEF Worlds
<1> QED
  BY <1>2, <1>3 DEF Worlds, h, k

\* destroyPlugin() leaves nothing of the object.
LEMMA DestroyedFields ==
    ASSUME NEW w \in Worlds, NEW n \in Names
    PROVE  LET v == Destroyed(w, n)
           IN /\ v \in Worlds /\ v.plugins = w.plugins /\ v.handles = w.handles
              /\ v.started = w.started
              /\ v.instances = [w.instances EXCEPT ![n] = @ - 1]
              /\ v.m = IF n = Modbus THEN NewDevice ELSE w.m
              /\ v.quiet = IF n = Modbus THEN InitialDelay ELSE w.quiet
              /\ v.can = IF n = Can THEN NewCan ELSE w.can
<1> DEFINE i == [w.instances EXCEPT ![n] = @ - 1]
           g == IF n = Modbus THEN NewDevice ELSE w.m
           q == IF n = Modbus THEN InitialDelay ELSE w.quiet
           c == IF n = Can THEN NewCan ELSE w.can
           v == [w EXCEPT !.instances = i, !.m = g, !.quiet = q, !.can = c]
<1>1. i \in [Names -> Int]
  BY DEF Worlds
<1>2. g \in Objects
  BY NewDeviceInv DEF Worlds, ObjectInv
<1>3. q \in 0 .. InitialDelay
  BY DelayAssumption DEF Worlds
<1>4. c \in CanObjects
  BY DEF Worlds, CanObjects, NewCan
<1>5. Destroyed(w, n) = v
  BY DEF Destroyed
<1> HIDE DEF i, g, q, c
<1>6. v \in Worlds
  BY <1>1, <1>2, <1>3, <1>4 DEF Worlds
<1>7. /\ v.plugins = w.plugins /\ v.handles = w.handles /\ v.started = w.started
      /\ v.instances = i /\ v.m = g /\ v.quiet = q /\ v.can = c
  BY DEF Worlds
<1> QED
  BY <1>5, <1>6, <1>7 DEF i, g, q, c

\* An entry of the table is made or erased.
LEMMA EntryFields ==
    ASSUME NEW w \in Worlds, NEW n \in Names, NEW lib \in Libraries \union {"none"}
    PROVE  LET v == [w EXCEPT !.plugins[n] = lib]
           IN /\ v \in Worlds /\ v.handles = w.handles /\ v.instances = w.instances
              /\ v.started = w.started /\ v.m = w.m /\ v.quiet = w.quiet /\ v.can = w.can
              /\ v.plugins = [w.plugins EXCEPT ![n] = lib]
<1> DEFINE p == [w.plugins EXCEPT ![n] = lib]
<1>1. p \in [Names -> Libraries \union {"none"}]
  BY DEF Worlds
<1>2. [w EXCEPT !.plugins[n] = lib] = [w EXCEPT !.plugins = p]
  OBVIOUS
<1> HIDE DEF p
<1>3. [w EXCEPT !.plugins = p] \in Worlds
  BY <1>1 DEF Worlds
<1> QED
  BY <1>2, <1>3 DEF Worlds, p

\* An entry more or less in the table is a reference more or less.
LEMMA HoldersCount ==
    ASSUME NEW p \in [Names -> Libraries \union {"none"}], NEW n \in Names,
           NEW lib \in Libraries
    PROVE  /\ p[n] = "none" =>
                Cardinality(Holders([p EXCEPT ![n] = lib], lib)) = Cardinality(Holders(p, lib)) + 1
           /\ p[n] = lib =>
                Cardinality(Holders([p EXCEPT ![n] = "none"], lib)) = Cardinality(Holders(p, lib)) - 1
           /\ \A other \in Libraries \ {lib} :
                /\ p[n] = "none" => Holders([p EXCEPT ![n] = lib], other) = Holders(p, other)
                /\ p[n] = lib => Holders([p EXCEPT ![n] = "none"], other) = Holders(p, other)
           /\ Cardinality(Holders(p, lib)) \in Nat
<1>1. IsFiniteSet(Holders(p, lib))
  <2>1. IsFiniteSet(Names)
    <3>1. IsFiniteSet({Modbus})
      BY FS_Singleton
    <3>2. IsFiniteSet({Modbus} \union {Can})
      BY <3>1, FS_AddElement
    <3>3. Names = {Modbus} \union {Can}
      BY DEF Names
    <3> QED
      BY <3>2, <3>3
  <2> QED
    BY <2>1, FS_Subset DEF Holders
<1>2. ASSUME p[n] = "none"
      PROVE  Cardinality(Holders([p EXCEPT ![n] = lib], lib)) = Cardinality(Holders(p, lib)) + 1
  <2>1. n \notin Holders(p, lib)
    BY <1>2, NamesFacts DEF Holders
  <2>2. Holders([p EXCEPT ![n] = lib], lib) = Holders(p, lib) \union {n}
    BY DEF Holders
  <2> QED
    BY <1>1, <2>1, <2>2, FS_AddElement
<1>3. ASSUME p[n] = lib
      PROVE  Cardinality(Holders([p EXCEPT ![n] = "none"], lib)) = Cardinality(Holders(p, lib)) - 1
  <2>1. n \in Holders(p, lib)
    BY <1>3 DEF Holders
  <2>2. Holders([p EXCEPT ![n] = "none"], lib) = Holders(p, lib) \ {n}
    BY <1>3, NamesFacts DEF Holders
  <2> QED
    BY <1>1, <2>1, <2>2, FS_RemoveElement
<1>4. ASSUME NEW other \in Libraries \ {lib}
      PROVE  /\ p[n] = "none" => Holders([p EXCEPT ![n] = lib], other) = Holders(p, other)
             /\ p[n] = lib => Holders([p EXCEPT ![n] = "none"], other) = Holders(p, other)
  BY NamesFacts DEF Holders
<1>5. Cardinality(Holders(p, lib)) \in Nat
  BY <1>1, FS_CardinalityType
<1> QED
  BY <1>2, <1>3, <1>4, <1>5

\* loadPlugin(): wherever it fails, nothing has changed; otherwise there is a new
\* plugin, initialized and not started.
LEMMA LoadKeeps ==
    ASSUME NEW w, WorldInv(w), NEW lib \in Libraries, NEW fault \in Failures \union {"none"}
    PROVE  WorldInv(LoadPlugin(w, lib, fault))
<1>1. w \in Worlds /\ InstancesInv(w) /\ HandlesInv(w) /\ StartedInv(w) /\ ModbusInv(w)
  BY DEF WorldInv
<1>2. PICK n \in Names : n = NameOf[lib]
  BY NamesFacts
<1>3. PICK o : o = Dlopen(w, lib)
  OBVIOUS
<1>4. PICK c : c = Create(o, n)
  OBVIOUS
<1>5. /\ o \in Worlds /\ o.plugins = w.plugins /\ o.instances = w.instances
      /\ o.started = w.started /\ o.m = w.m /\ o.quiet = w.quiet /\ o.can = w.can
      /\ o.handles = [w.handles EXCEPT ![lib] = @ + 1]
  BY <1>1, <1>3, HandleFields
<1>6. /\ c \in Worlds /\ c.plugins = w.plugins /\ c.handles = o.handles
      /\ c.started = w.started /\ c.m = w.m /\ c.quiet = w.quiet /\ c.can = w.can
      /\ c.instances = [w.instances EXCEPT ![n] = @ + 1]
  <2>1. /\ c \in Worlds /\ c.plugins = o.plugins /\ c.handles = o.handles
        /\ c.started = o.started /\ c.m = o.m /\ c.quiet = o.quiet /\ c.can = o.can
        /\ c.instances = [o.instances EXCEPT ![n] = @ + 1]
    BY <1>4, <1>5, CreateFields
  <2> QED
    BY <1>5, <2>1
<1>7. w.handles \in [Libraries -> Int] /\ w.instances \in [Names -> Int]
  BY <1>1 DEF Worlds
<1>8. [[w.handles EXCEPT ![lib] = @ + 1] EXCEPT ![lib] = @ - 1] = w.handles
  BY <1>7
<1>9. [[w.instances EXCEPT ![n] = @ + 1] EXCEPT ![n] = @ - 1] = w.instances
  BY <1>7
<1>10. WorldInv(Dlclose(o, lib))
  <2>1. PICK v : v = Dlclose(o, lib)
    OBVIOUS
  <2>2. /\ v \in Worlds /\ v.plugins = w.plugins /\ v.instances = w.instances
        /\ v.started = w.started /\ v.m = w.m /\ v.quiet = w.quiet /\ v.can = w.can
        /\ v.handles = [o.handles EXCEPT ![lib] = @ - 1]
    BY <1>5, <2>1, HandleFields
  <2>3. SameTable(v, w)
    BY <1>5, <1>8, <2>2 DEF SameTable
  <2>4. WorldInv(v)
    BY <2>2, <2>3, SameFieldsInv
  <2> QED
    BY <2>1, <2>4
<1>11. WorldInv(Refused(c, n, lib))
  <2>1. PICK d : d = Discarded(c, n)
    OBVIOUS
  <2>2. PICK v : v = Dlclose(d, lib)
    OBVIOUS
  <2>3. /\ d \in Worlds /\ d.plugins = w.plugins /\ d.handles = o.handles
        /\ d.started = w.started /\ d.m = w.m /\ d.quiet = w.quiet /\ d.can = w.can
        /\ d.instances = [c.instances EXCEPT ![n] = @ - 1]
    BY <1>6, <2>1, CreateFields
  <2>4. /\ v \in Worlds /\ v.plugins = w.plugins /\ v.instances = d.instances
        /\ v.started = w.started /\ v.m = w.m /\ v.quiet = w.quiet /\ v.can = w.can
        /\ v.handles = [d.handles EXCEPT ![lib] = @ - 1]
    BY <2>2, <2>3, HandleFields
  <2>5. SameTable(v, w)
    BY <1>5, <1>6, <1>8, <1>9, <2>3, <2>4 DEF SameTable
  <2>6. WorldInv(v)
    BY <2>4, <2>5, SameFieldsInv
  <2> QED
    BY <2>1, <2>2, <2>6 DEF Refused
<1>12. ASSUME n \notin Loaded(w.plugins)
       PROVE  WorldInv([c EXCEPT
                   !.plugins[n] = lib,
                   !.m = IF n = Modbus THEN Initialize(NewDevice) ELSE @,
                   !.can = IF n = Can THEN [NewCan EXCEPT !.initialized = TRUE] ELSE @])
  <2> DEFINE e == [c EXCEPT !.plugins[n] = lib]
             g == IF n = Modbus THEN Initialize(NewDevice) ELSE w.m
             k == IF n = Can THEN [NewCan EXCEPT !.initialized = TRUE] ELSE w.can
             v == [e EXCEPT !.m = g, !.can = k]
  <2>1. w.plugins[n] = "none" /\ w.plugins \in [Names -> Libraries \union {"none"}]
    BY <1>1, <1>12 DEF Loaded, Worlds
  <2>2. /\ e \in Worlds /\ e.handles = c.handles /\ e.instances = c.instances
        /\ e.started = w.started /\ e.m = w.m /\ e.quiet = w.quiet /\ e.can = w.can
        /\ e.plugins = [w.plugins EXCEPT ![n] = lib]
    BY <1>6, EntryFields
  <2>3. /\ ObjectInv(g) /\ Undisturbed(g) /\ g \in Objects
        /\ n = Modbus => g.context
    <3>1. /\ ObjectInv(Initialize(NewDevice)) /\ Undisturbed(Initialize(NewDevice))
          /\ Initialize(NewDevice).context
      BY NewDeviceInv, InitializeKeeps
    <3> QED
      BY <1>1, <3>1 DEF ModbusInv, ObjectInv
  <2>4. Paced(g, w.quiet)
    <3>1. CASE n = Modbus
      <4>1. ~w.m.context
        BY <1>1, <1>12, <3>1 DEF StartedInv
      <4>2. w.quiet = InitialDelay
        BY <1>1, <4>1 DEF ModbusInv, ObjectInv, StatesInv, Paced
      <4> QED
        BY <4>2 DEF Paced
    <3>2. CASE n # Modbus
      BY <1>1, <3>2 DEF ModbusInv
    <3> QED
      BY <3>1, <3>2
  <2>5. k \in CanObjects /\ (n = Can => ~k.open)
    BY <1>1 DEF Worlds, CanObjects, NewCan
  <2>6. [c EXCEPT !.plugins[n] = lib,
                  !.m = IF n = Modbus THEN Initialize(NewDevice) ELSE @,
                  !.can = IF n = Can THEN [NewCan EXCEPT !.initialized = TRUE] ELSE @] = v
    <3>1. /\ [c EXCEPT !.plugins[n] = lib,
                       !.m = IF n = Modbus THEN Initialize(NewDevice) ELSE @,
                       !.can = IF n = Can THEN [NewCan EXCEPT !.initialized = TRUE] ELSE @]
             = [c EXCEPT !.plugins[n] = lib, !.m = IF n = Modbus THEN Initialize(NewDevice) ELSE c.m,
                         !.can = IF n = Can THEN [NewCan EXCEPT !.initialized = TRUE] ELSE c.can]
      OBVIOUS
    <3> QED
      BY <1>6, <3>1
  <2> HIDE DEF e, g, k
  <2>7. v \in Worlds
    BY <2>2, <2>3, <2>5 DEF Worlds
  <2>8. /\ v.handles = o.handles /\ v.instances = c.instances /\ v.started = w.started
        /\ v.quiet = w.quiet /\ v.plugins = [w.plugins EXCEPT ![n] = lib]
        /\ v.m = g /\ v.can = k
    BY <1>6, <2>2 DEF Worlds
  <2> HIDE DEF v
  <2>9. Loaded(v.plugins) = Loaded(w.plugins) \union {n}
    BY <2>1, <2>8, NamesFacts DEF Loaded
  <2>10. HandlesInv(v)
    <3> SUFFICES ASSUME NEW other \in Libraries
                 PROVE  v.handles[other] = Cardinality(Holders(v.plugins, other))
      BY DEF HandlesInv
    <3>1. CASE other = lib
      BY <3>1, <1>1, <1>5, <1>7, <2>1, <2>8, HoldersCount DEF HandlesInv
    <3>2. CASE other # lib
      BY <3>2, <1>1, <1>5, <1>7, <2>1, <2>8, HoldersCount DEF HandlesInv
    <3> QED
      BY <3>1, <3>2
  <2>11. InstancesInv(v)
    BY <1>1, <1>6, <1>7, <1>12, <2>8, <2>9 DEF InstancesInv
  <2>12. StartedInv(v)
    <3>1. v.started \subseteq Loaded(v.plugins)
      BY <1>1, <2>8, <2>9 DEF StartedInv
    <3>2. v.can.open <=> Can \in v.started
      BY <1>1, <1>12, <2>5, <2>8 DEF StartedInv, k
    <3>3. v.m.context <=> Modbus \in Loaded(v.plugins)
      BY <1>1, <2>3, <2>8, <2>9, NamesFacts DEF StartedInv, g
    <3> QED
      BY <3>1, <3>2, <3>3 DEF StartedInv
  <2>13. ModbusInv(v)
    BY <2>3, <2>4, <2>8 DEF ModbusInv
  <2> QED
    BY <2>6, <2>7, <2>10, <2>11, <2>12, <2>13 DEF WorldInv
<1> DEFINE new == [c EXCEPT
                   !.plugins[n] = lib,
                   !.m = IF n = Modbus THEN Initialize(NewDevice) ELSE @,
                   !.can = IF n = Can THEN [NewCan EXCEPT !.initialized = TRUE] ELSE @]
           closed == Dlclose(o, lib)
           refused == Refused(c, n, lib)
<1>13. LoadPlugin(w, lib, fault) =
         CASE fault = "dlopen" -> w
           [] fault \in {"symbol", "create"} -> closed
           [] fault = "name" \/ n \in Loaded(w.plugins) \/ fault = "initialize" -> refused
           [] OTHER -> new
  BY <1>2, <1>3, <1>4, Zenon DEF LoadPlugin
<1>14. WorldInv(closed) /\ WorldInv(refused) /\ (n \notin Loaded(w.plugins) => WorldInv(new))
  BY <1>10, <1>11, <1>12
<1> HIDE DEF new, closed, refused
<1>15. \/ LoadPlugin(w, lib, fault) \in {w, closed, refused}
       \/ LoadPlugin(w, lib, fault) = new /\ n \notin Loaded(w.plugins)
  BY <1>13
<1> QED
  BY <1>14, <1>15

\* unloadPlugin(): nothing of the plugin is left.
LEMMA UnloadKeeps ==
    ASSUME NEW w, WorldInv(w), NEW n \in Loaded(w.plugins)
    PROVE  LET v == UnloadPlugin(w, n)
           IN WorldInv(v) /\ Loaded(v.plugins) = Loaded(w.plugins) \ {n}
<1> DEFINE lib == w.plugins[n]
<1>1. w \in Worlds /\ n \in Names /\ {n} \in SUBSET Names /\ lib # "none"
  BY DEF WorldInv, Loaded
<1>2. w.plugins \in [Names -> Libraries \union {"none"}] /\ lib \in Libraries
  BY <1>1 DEF Worlds
<1>3. PICK x : x = IF n \in w.started THEN StopInstances(w, {n}) ELSE w
  OBVIOUS
<1>4. WorldInv(x) /\ SameTable(x, w) /\ n \notin x.started
  <2>1. CASE n \in w.started
    <3>1. x = StopInstances(w, {n})
      BY <1>3, <2>1
    <3>2. WorldInv(x) /\ SameTable(x, w) /\ x.started = w.started \ {n}
      BY <1>1, <3>1, StopInstancesKeeps
    <3> QED
      BY <3>2
  <2>2. CASE n \notin w.started
    <3>1. x = w
      BY <1>3, <2>2
    <3> QED
      BY <3>1, <2>2 DEF SameTable
  <2> QED
    BY <2>1, <2>2
<1>5. /\ x \in Worlds /\ HandlesInv(x) /\ InstancesInv(x) /\ StartedInv(x) /\ ModbusInv(x)
      /\ x.plugins = w.plugins
  BY <1>4 DEF WorldInv, SameTable
<1>6. PICK d : d = Destroyed(x, n)
  OBVIOUS
<1>7. PICK e : e = Dlclose(d, lib)
  OBVIOUS
<1>8. PICK v : v = [e EXCEPT !.plugins[n] = "none"]
  OBVIOUS
<1>9. UnloadPlugin(w, n) = v
  BY <1>3, <1>6, <1>7, <1>8 DEF UnloadPlugin
<1>10. /\ d \in Worlds /\ d.plugins = x.plugins /\ d.handles = x.handles
       /\ d.started = x.started
       /\ d.instances = [x.instances EXCEPT ![n] = @ - 1]
       /\ d.m = IF n = Modbus THEN NewDevice ELSE x.m
       /\ d.quiet = IF n = Modbus THEN InitialDelay ELSE x.quiet
       /\ d.can = IF n = Can THEN NewCan ELSE x.can
  BY <1>1, <1>5, <1>6, DestroyedFields
<1>11. /\ e \in Worlds /\ e.plugins = d.plugins /\ e.instances = d.instances
       /\ e.started = d.started /\ e.m = d.m /\ e.quiet = d.quiet /\ e.can = d.can
       /\ e.handles = [d.handles EXCEPT ![lib] = @ - 1]
  BY <1>2, <1>7, <1>10, HandleFields
<1>12. /\ v \in Worlds /\ v.handles = e.handles /\ v.instances = e.instances
       /\ v.started = e.started /\ v.m = e.m /\ v.quiet = e.quiet /\ v.can = e.can
       /\ v.plugins = [e.plugins EXCEPT ![n] = "none"]
  BY <1>1, <1>8, <1>11, EntryFields
<1>13. /\ v.handles = [x.handles EXCEPT ![lib] = @ - 1]
       /\ v.instances = [x.instances EXCEPT ![n] = @ - 1]
       /\ v.started = x.started
       /\ v.plugins = [w.plugins EXCEPT ![n] = "none"]
  BY <1>5, <1>10, <1>11, <1>12
<1>14. /\ v.m = IF n = Modbus THEN NewDevice ELSE x.m
       /\ v.quiet = IF n = Modbus THEN InitialDelay ELSE x.quiet
       /\ v.can = IF n = Can THEN NewCan ELSE x.can
  BY <1>10, <1>11, <1>12
<1>15. Loaded(v.plugins) = Loaded(w.plugins) \ {n}
  BY <1>2, <1>13 DEF Loaded
<1>16. x.handles \in [Libraries -> Int] /\ x.instances \in [Names -> Int]
  BY <1>5 DEF Worlds
<1>17. HandlesInv(v)
  <2> SUFFICES ASSUME NEW other \in Libraries
               PROVE  v.handles[other] = Cardinality(Holders(v.plugins, other))
    BY DEF HandlesInv
  <2>1. x.handles[other] = Cardinality(Holders(w.plugins, other))
    BY <1>5 DEF HandlesInv
  <2>2. CASE other = lib
    BY <2>1, <2>2, <1>1, <1>2, <1>13, <1>16, HoldersCount
  <2>3. CASE other # lib
    <3>1. Holders([w.plugins EXCEPT ![n] = "none"], other) = Holders(w.plugins, other)
      BY <2>3, <1>1, <1>2, HoldersCount
    <3>2. v.handles[other] = x.handles[other]
      BY <2>3, <1>13, <1>16
    <3> QED
      BY <2>1, <3>1, <3>2, <1>13
  <2> QED
    BY <2>2, <2>3
<1>18. InstancesInv(v)
  BY <1>1, <1>5, <1>13, <1>15, <1>16 DEF InstancesInv
<1>19. StartedInv(v)
  <2>1. v.started \subseteq Loaded(v.plugins)
    BY <1>4, <1>5, <1>13, <1>15 DEF StartedInv
  <2>2. v.can.open <=> Can \in v.started
    BY <1>4, <1>5, <1>13, <1>14 DEF StartedInv, NewCan
  <2>3. v.m.context <=> Modbus \in Loaded(v.plugins)
    BY <1>5, <1>14, <1>15, NewDeviceInv DEF StartedInv
  <2> QED
    BY <2>1, <2>2, <2>3 DEF StartedInv
<1>20. ModbusInv(v)
  BY <1>5, <1>14, NewDeviceInv DEF ModbusInv, Paced
<1> QED
  BY <1>9, <1>12, <1>15, <1>17, <1>18, <1>19, <1>20 DEF WorldInv

\* instance->start() touches its own object only; a failed one is left without
\* connection.  Once the flag is set the world is in order again.
LEMMA StartInstanceKeeps ==
    ASSUME NEW w, WorldInv(w), NEW n \in Loaded(w.plugins) \ w.started,
           canUp \in BOOLEAN,
           NEW answers \in PossibleAnswers, NEW elapsed \in Durations
    PROVE  LET r == StartInstance(w, n, answers, elapsed)
           IN /\ r.ok => WorldInv([r.w EXCEPT !.started = @ \union {n}])
              /\ ~r.ok => /\ WorldInv(r.w)
                          /\ n = Can => ~r.w.can.open
                          /\ n = Modbus => ~r.w.m.connected
              /\ r.w \in Worlds /\ SameTable(r.w, w) /\ r.w.started = w.started
              /\ n # Can => r.w.can = w.can
              /\ n # Modbus => r.w.m = w.m
<1>1. /\ w \in Worlds /\ HandlesInv(w) /\ InstancesInv(w) /\ StartedInv(w) /\ ModbusInv(w)
      /\ n \in Names /\ n \in Loaded(w.plugins) /\ n \notin w.started
  BY DEF WorldInv, Loaded
<1>2. ASSUME NEW v \in Worlds, SameTable(v, w), v.started = w.started, ModbusInv(v),
             v.m.context = w.m.context,
             NEW ok \in BOOLEAN, n = Can => (v.can.open <=> ok), n # Can => v.can = w.can
      PROVE  /\ ok => WorldInv([v EXCEPT !.started = @ \union {n}])
             /\ ~ok => WorldInv(v)
  <2>1. HandlesInv(v) /\ InstancesInv(v)
    BY <1>1, <1>2 DEF HandlesInv, InstancesInv, SameTable
  <2>2. ASSUME ~ok PROVE WorldInv(v)
    <3>1. StartedInv(v)
      BY <1>1, <1>2, <2>2 DEF StartedInv, SameTable
    <3> QED
      BY <1>2, <2>1, <3>1 DEF WorldInv
  <2>3. ASSUME ok PROVE WorldInv([v EXCEPT !.started = @ \union {n}])
    <3> DEFINE s == v.started \union {n}
    <3>1. PICK u : u = [v EXCEPT !.started = s]
      OBVIOUS
    <3>2. s \in SUBSET Names
      BY <1>1, <1>2 DEF Worlds
    <3> HIDE DEF s
    <3>3. u \in Worlds
      BY <1>2, <3>1, <3>2 DEF Worlds
    <3>4. /\ SameTable(u, v) /\ u.started = s /\ u.m = v.m /\ u.quiet = v.quiet
          /\ u.can = v.can
      BY <1>2, <3>1 DEF Worlds, SameTable
    <3>5. HandlesInv(u) /\ InstancesInv(u)
      BY <2>1, <3>4 DEF HandlesInv, InstancesInv, SameTable
    <3>6. ModbusInv(u)
      BY <1>2, <3>4 DEF ModbusInv
    <3>7. u.started = w.started \union {n} /\ u.plugins = w.plugins
      BY <1>2, <3>4 DEF s, SameTable
    <3>8. StartedInv(u)
      BY <1>1, <1>2, <2>3, <3>4, <3>7 DEF StartedInv
    <3>9. WorldInv(u)
      BY <3>3, <3>5, <3>6, <3>8 DEF WorldInv
    <3> QED
      BY <3>1, <3>9 DEF s
  <2> QED
    BY <2>2, <2>3
<1>3. CASE n = Can
  <2>1. PICK c : c = StartCan(w.can, canUp)
    OBVIOUS
  <2>2. c \in CanObjects /\ c.open \in BOOLEAN
    <3>1. w.can.open \in BOOLEAN
      BY <1>1 DEF Worlds, CanObjects
    <3>2. (w.can.open \/ canUp) \in BOOLEAN
      BY Zenon
    <3> QED
      BY <2>1, <3>2 DEF StartCan, CanObjects
  <2>3. PICK v : v = [w EXCEPT !.can = c]
    OBVIOUS
  <2>4. v \in Worlds
    BY <1>1, <2>2, <2>3 DEF Worlds
  <2>5. SameTable(v, w) /\ v.started = w.started /\ v.m = w.m /\ v.quiet = w.quiet /\ v.can = c
    BY <1>1, <2>3 DEF Worlds, SameTable
  <2>6. ModbusInv(v)
    BY <1>1, <2>5 DEF ModbusInv
  <2>7. /\ c.open => WorldInv([v EXCEPT !.started = @ \union {n}])
        /\ ~c.open => WorldInv(v)
    BY <1>2, <1>3, <2>2, <2>4, <2>5, <2>6
  <2>8. StartInstance(w, n, answers, elapsed) = [ok |-> c.open, w |-> v]
    BY <1>3, <2>1, <2>3 DEF StartInstance
  <2>9. PICK r : r = StartInstance(w, n, answers, elapsed)
    OBVIOUS
  <2>10. r.ok = c.open /\ r.w = v
    BY <2>8, <2>9
  <2> QED
    BY <1>3, <2>4, <2>5, <2>7, <2>9, <2>10, NamesFacts
<1>4. CASE n = Modbus
  <2> DEFINE attempt == ~w.m.connected /\ CanRetry(w.m) /\ Attempts(w.m)
             g == IF w.m.connected THEN w.m
                  ELSE StartTransport(w.m, Reachable, answers, elapsed)
             p == IF attempt THEN w.quiet ELSE w.gap
             q == IF attempt THEN Smaller(elapsed, InitialDelay) ELSE w.quiet
             v == [w EXCEPT !.m = g, !.gap = p, !.quiet = q]
  <2>1. /\ ObjectInv(w.m) /\ Undisturbed(w.m) /\ Paced(w.m, w.quiet) /\ w.m \in Objects
        /\ w.quiet \in 0 .. InitialDelay /\ w.gap = InitialDelay /\ w.m.context
    BY <1>1, <1>4 DEF ModbusInv, ObjectInv, Worlds, StartedInv
  <2>2. /\ ObjectInv(g) /\ Undisturbed(g) /\ g.context
        /\ attempt \/ w.m.connected => g.connected \/ Waits(g)
        /\ ~attempt /\ ~w.m.connected => g = w.m
    <3>1. CASE w.m.connected
      BY <2>1, <3>1
    <3>2. CASE ~w.m.connected
      <4>1. answers \in [Tags -> Answers]
        BY AnswersType
      <4>2. PICK ok \in BOOLEAN : ok = Reachable
        BY AnswersType
      <4>3. PICK h : h = StartTransport(w.m, ok, answers, elapsed)
        OBVIOUS
      <4>4. /\ ObjectInv(h) /\ (Undisturbed(w.m) => Undisturbed(h)) /\ h.context
            /\ CanRetry(w.m) /\ Attempts(w.m) => h.connected \/ Waits(h)
            /\ ~(CanRetry(w.m) /\ Attempts(w.m)) /\ ~w.m.connected => h = w.m
        BY <2>1, <4>1, <4>3, StartTransportKeeps
      <4>5. g = h
        BY <3>2, <4>2, <4>3
      <4> QED
        BY <2>1, <3>2, <4>4, <4>5
    <3> QED
      BY <3>1, <3>2
  <2>3. g \in Objects /\ (g.context = w.m.context)
    BY <2>1, <2>2 DEF ObjectInv, Objects
  <2>4. p = InitialDelay
    BY <2>1, AttemptIsLate
  <2>5. q \in 0 .. InitialDelay
    BY <2>1, DelayAssumption DEF Smaller, Durations
  <2>6. Paced(g, q)
    <3>1. PICK happens \in BOOLEAN : happens <=> attempt
      BY Zenon
    <3>2. q = IF happens THEN Smaller(elapsed, InitialDelay) ELSE w.quiet
      BY <3>1
    <3>3. /\ happens \/ w.m.connected => g.connected \/ Waits(g)
          /\ ~happens /\ ~w.m.connected => g = w.m
      BY <2>2, <3>1
    <3> HIDE DEF g, q, attempt
    <3> QED
      BY <2>1, <2>3, <3>2, <3>3, PaceIsKept
  <2>7. PICK ok \in BOOLEAN : ok <=> StartSucceeds(w.m, Reachable)
    BY Zenon
  <2>8. ~ok => ~g.connected
    <3>1. CASE ok
      BY <3>1
    <3>2. CASE ~ok
      <4>1. ~w.m.connected /\ (CanRetry(w.m) => ~ConnectTransport(w.m, Reachable).connected)
        BY <2>7, <3>2 DEF StartSucceeds
      <4>2. g = IF ~CanRetry(w.m) THEN w.m ELSE ConnectTransport(w.m, Reachable)
        BY <4>1 DEF StartTransport
      <4> QED
        BY <4>1, <4>2
    <3> QED
      BY <3>1, <3>2
  <2>9. PICK r : r = StartInstance(w, n, answers, elapsed)
    OBVIOUS
  <2>10. r = [ok |-> StartSucceeds(w.m, Reachable), w |-> v]
    BY <1>4, <2>9, NamesFacts DEF StartInstance
  <2> HIDE DEF g, p, q, attempt
  <2>11. v \in Worlds
    BY <1>1, <2>3, <2>4, <2>5 DEF Worlds
  <2>12. /\ SameTable(v, w) /\ v.started = w.started /\ v.m = g /\ v.quiet = q
         /\ v.can = w.can
    BY <1>1 DEF Worlds, SameTable
  <2> HIDE DEF v
  <2>13. ModbusInv(v)
    BY <2>2, <2>6, <2>12 DEF ModbusInv
  <2>14. /\ ok => WorldInv([v EXCEPT !.started = @ \union {n}])
         /\ ~ok => WorldInv(v)
    BY <1>2, <1>4, <2>3, <2>11, <2>12, <2>13, NamesFacts
  <2>15. (r.ok <=> ok) /\ r.w = v
    BY <2>7, <2>10
  <2> QED
    BY <1>4, <2>8, <2>9, <2>11, <2>12, <2>14, <2>15, NamesFacts
<1> QED
  BY <1>1, <1>3, <1>4, NamesFacts

-----------------------------------------------------------------------------
(* startAll().                                                             *)

\* What a startAll() that began in the world w has done so far: the world is in
\* order; a call that still goes on has started mine, none of which had been,
\* and left the others alone; one that has failed has undone all of it.
SoFar(w, done) ==
    /\ WorldInv(done.w) /\ done.w.plugins = w.plugins /\ done.ok \in BOOLEAN
    /\ done.mine \in SUBSET Names /\ done.mine \intersect w.started = {}
    /\ done.ok => /\ done.w.started = w.started \union done.mine
                  /\ Can \notin done.mine => done.w.can = w.can
                  /\ Modbus \notin done.mine => done.w.m = w.m
    /\ ~done.ok => /\ done.w.started = w.started
                   /\ done.w.can.open => w.can.open
                   /\ done.w.m.connected => w.m.connected

\* One round of the loop in startAll().
LEMMA StartNextKeeps ==
    ASSUME NEW w, WorldInv(w), NEW done, SoFar(w, done), NEW n \in Names,
           canUp \in BOOLEAN,
           NEW answers \in PossibleAnswers, NEW elapsed \in Durations
    PROVE  LET next == StartNext(done, n, answers, elapsed)
           IN /\ SoFar(w, next)
              /\ next.ok /\ n \in Loaded(w.plugins) => n \in next.w.started
              /\ next.ok => done.ok /\ done.w.started \subseteq next.w.started
<1>1. PICK r : r = StartInstance(done.w, n, answers, elapsed)
  OBVIOUS
<1>2. PICK next : next = StartNext(done, n, answers, elapsed)
  OBVIOUS
<1>3. next = IF ~done.ok \/ n \notin Loaded(done.w.plugins) \/ n \in done.w.started THEN done
             ELSE IF r.ok THEN [ok |-> TRUE, mine |-> done.mine \union {n},
                                w |-> [r.w EXCEPT !.started = @ \union {n}]]
             ELSE [ok |-> FALSE, mine |-> done.mine, w |-> RollBack(r.w, done.mine)]
  BY <1>1, <1>2 DEF StartNext
<1>4. CASE ~done.ok \/ n \notin Loaded(done.w.plugins) \/ n \in done.w.started
  <2>1. next = done
    BY <1>3, <1>4
  <2> QED
    BY <1>2, <1>4, <2>1 DEF SoFar
<1>5. CASE done.ok /\ n \in Loaded(done.w.plugins) /\ n \notin done.w.started
  <2>1. /\ WorldInv(done.w) /\ done.w.plugins = w.plugins
        /\ done.w.started = w.started \union done.mine
        /\ done.mine \in SUBSET Names /\ done.mine \intersect w.started = {}
        /\ Can \notin done.mine => done.w.can = w.can
        /\ Modbus \notin done.mine => done.w.m = w.m
    BY <1>5 DEF SoFar
  <2>2. n \in Loaded(done.w.plugins) \ done.w.started
    BY <1>5
  <2>3. /\ r.ok => WorldInv([r.w EXCEPT !.started = @ \union {n}])
        /\ ~r.ok => /\ WorldInv(r.w)
                    /\ n = Can => ~r.w.can.open
                    /\ n = Modbus => ~r.w.m.connected
        /\ r.w \in Worlds /\ SameTable(r.w, done.w) /\ r.w.started = done.w.started
        /\ n # Can => r.w.can = done.w.can
        /\ n # Modbus => r.w.m = done.w.m
    BY <1>1, <2>1, <2>2, StartInstanceKeeps
  <2>4. CASE r.ok
    <3>1. PICK v : v = [r.w EXCEPT !.started = @ \union {n}]
      OBVIOUS
    <3>2. next = [ok |-> TRUE, mine |-> done.mine \union {n}, w |-> v]
      BY <1>3, <1>5, <2>4, <3>1
    <3>3. next.ok = TRUE /\ next.mine = done.mine \union {n} /\ next.w = v
      BY <3>2
    <3>4. /\ WorldInv(v) /\ v.plugins = w.plugins
          /\ v.started = w.started \union (done.mine \union {n})
          /\ v.can = r.w.can /\ v.m = r.w.m
      BY <2>1, <2>3, <2>4, <3>1 DEF Worlds, SameTable
    <3>5. next.mine \in SUBSET Names /\ next.mine \intersect w.started = {}
      BY <2>1, <2>2, <3>3
    <3>6. /\ Can \notin next.mine => v.can = w.can
          /\ Modbus \notin next.mine => v.m = w.m
      BY <2>1, <2>3, <3>3, <3>4
    <3>7. next.ok \in BOOLEAN /\ next.ok
      BY <3>3
    <3>8. SoFar(w, next)
      BY <3>3, <3>4, <3>5, <3>6, <3>7 DEF SoFar
    <3> QED
      BY <1>2, <1>5, <2>1, <3>3, <3>4, <3>8
  <2>5. CASE ~r.ok
    <3>1. PICK v : v = RollBack(r.w, done.mine)
      OBVIOUS
    <3>2. next = [ok |-> FALSE, mine |-> done.mine, w |-> v]
      BY <1>3, <1>5, <2>5, <3>1
    <3>3. next.ok = FALSE /\ next.mine = done.mine /\ next.w = v
      BY <3>2
    <3>4. v = StopInstances(r.w, done.mine)
      BY <3>1 DEF RollBack
    <3>5. /\ WorldInv(v) /\ SameTable(v, r.w) /\ v.started = r.w.started \ done.mine
          /\ Modbus \in done.mine => ~v.m.connected
          /\ Modbus \notin done.mine => v.m = r.w.m
          /\ Can \in done.mine => ~v.can.open
          /\ Can \notin done.mine => v.can = r.w.can
      BY <2>1, <2>3, <2>5, <3>4, StopInstancesKeeps
    <3>6. v.plugins = w.plugins /\ v.started = w.started
      BY <2>1, <2>3, <3>5 DEF SameTable
    <3>7. v.can.open => w.can.open
      BY <2>1, <2>3, <2>5, <3>5
    <3>8. v.m.connected => w.m.connected
      BY <2>1, <2>3, <2>5, <3>5
    <3>9. next.ok \in BOOLEAN /\ ~next.ok
      BY <3>3
    <3>10. SoFar(w, next)
      BY <2>1, <3>3, <3>5, <3>6, <3>7, <3>8, <3>9 DEF SoFar
    <3> QED
      BY <1>2, <3>9, <3>10
  <2> QED
    BY <2>4, <2>5
<1>6. done.ok \in BOOLEAN
  BY DEF SoFar
<1> QED
  BY <1>4, <1>5, <1>6

\* startAll() starts all of them or none.
LEMMA StartAllKeeps ==
    ASSUME NEW w, WorldInv(w), NEW first \in Names, canUp \in BOOLEAN,
           NEW answers \in PossibleAnswers, NEW elapsed \in Durations
    PROVE  LET done == StartAll(w, first, answers, elapsed)
           IN SoFar(w, done) /\ (done.ok => done.w.started = Loaded(w.plugins))
<1>1. PICK second \in Names : second = (CHOOSE n \in Names : n # first) /\ second # first
  <2>1. \E n \in Names : n # first
    BY NamesFacts
  <2> QED
    BY <2>1
<1>2. PICK begin : begin = [ok |-> TRUE, mine |-> {}, w |-> w]
  OBVIOUS
<1>3. PICK one : one = StartNext(begin, first, answers, elapsed)
  OBVIOUS
<1>4. PICK done : done = StartNext(one, second, answers, elapsed)
  OBVIOUS
<1>5. StartAll(w, first, answers, elapsed) = done
  BY <1>1, <1>2, <1>3, <1>4 DEF StartAll
<1>6. SoFar(w, begin)
  <2>1. begin.ok = TRUE /\ begin.mine = {} /\ begin.w = w
    BY <1>2
  <2>2. begin.ok \in BOOLEAN /\ begin.ok
    BY <2>1
  <2> QED
    BY <2>1, <2>2 DEF SoFar
<1>7. /\ SoFar(w, one)
      /\ one.ok /\ first \in Loaded(w.plugins) => first \in one.w.started
  BY <1>3, <1>6, StartNextKeeps
<1>8. /\ SoFar(w, done)
      /\ done.ok /\ second \in Loaded(w.plugins) => second \in done.w.started
      /\ done.ok => one.ok /\ one.w.started \subseteq done.w.started
  BY <1>4, <1>7, StartNextKeeps
<1>9. ASSUME done.ok PROVE done.w.started = Loaded(w.plugins)
  <2>1. done.w.started \subseteq Loaded(w.plugins)
    BY <1>8 DEF SoFar, WorldInv, StartedInv
  <2>2. Names = {first, second}
    BY <1>1, NamesFacts
  <2>3. Loaded(w.plugins) \subseteq done.w.started
    BY <1>7, <1>8, <1>9, <2>2 DEF Loaded
  <2> QED
    BY <2>1, <2>3
<1> QED
  BY <1>5, <1>8, <1>9

-----------------------------------------------------------------------------
(* CAN frames.                                                             *)

\* Every frame a caller can build: any 32-bit word as the identifier.
AllFrames ==
    [id : [flags : SUBSET Flags, low : 0 .. EffSize - 1], dataLength : Nat,
     extended : BOOLEAN, remoteTransmissionRequest : BOOLEAN]

\* The limits, as far as the proofs need them.
LEMMA SizesFacts ==
    /\ SffSize \in Nat \ {0} /\ EffSize \in Nat /\ SffSize < EffSize
    /\ \A i \in Nat : i % SffSize \in 0 .. SffSize - 1
    /\ \A i \in 0 .. SffSize - 1 : i % SffSize = i
<1>1. SffSize \in Nat \ {0} /\ EffSize \in Nat /\ SffSize < EffSize
  BY SMT DEF SffSize, EffSize
<1>2. ASSUME NEW i \in Nat PROVE i % SffSize \in 0 .. SffSize - 1
  BY SMT DEF SffSize
<1>3. ASSUME NEW i \in 0 .. SffSize - 1 PROVE i % SffSize = i
  BY SMT DEF SffSize
<1> QED
  BY <1>1, <1>2, <1>3

\* isValidFrame() accepts exactly the frames that arrive as they were meant,
\* for every identifier word and every length.
THEOREM ValidMeansSurvives ==
    ASSUME NEW f \in AllFrames
    PROVE  IsValidFrame(f) <=> Receives(Encode(f)) /\ Decode(Encode(f)) = f
<1> DEFINE set == f.id.flags \union (IF f.extended THEN {"EFF"} ELSE {})
                             \union (IF f.remoteTransmissionRequest THEN {"RTR"} ELSE {})
           dlc == IF f.dataLength <= MaxDataLength THEN f.dataLength ELSE MaxDataLength
           ext == "EFF" \in set
           low == IF ext THEN f.id.low ELSE f.id.low % SffSize
<1>1. /\ f.id.flags \in SUBSET Flags /\ f.id.low \in 0 .. EffSize - 1
      /\ f.dataLength \in Nat /\ f.extended \in BOOLEAN
      /\ f.remoteTransmissionRequest \in BOOLEAN
      /\ f.id \in [flags : SUBSET Flags, low : 0 .. EffSize - 1]
  BY DEF AllFrames
<1>2. Encode(f) = [can_id |-> [f.id EXCEPT !.flags = set], can_dlc |-> dlc]
  BY DEF Encode
<1>3. [f.id EXCEPT !.flags = set] = [flags |-> set, low |-> f.id.low]
  <2> HIDE DEF set
  <2> QED  BY <1>1
<1>4. /\ Receives(Encode(f)) <=> "ERR" \notin set
      /\ Decode(Encode(f)) =
            [id |-> [flags |-> {}, low |-> low], dataLength |-> dlc,
             extended |-> ext, remoteTransmissionRequest |-> "RTR" \in set]
  <2>1. Encode(f) = [can_id |-> [flags |-> set, low |-> f.id.low], can_dlc |-> dlc]
    BY <1>2, <1>3
  <2> HIDE DEF set, dlc
  <2> QED
    BY <2>1 DEF Receives, Decode
<1>5. ASSUME IsValidFrame(f)
      PROVE  Receives(Encode(f)) /\ Decode(Encode(f)) = f
  <2>1. f.dataLength <= MaxDataLength /\ f.id.flags = {}
    BY <1>5 DEF IsValidFrame
  <2>2. "ERR" \notin set /\ (ext <=> f.extended) /\ ("RTR" \in set <=> f.remoteTransmissionRequest)
    BY <2>1
  <2>3. low = f.id.low
    <3>1. CASE f.extended
      BY <2>2, <3>1
    <3>2. CASE ~f.extended
      <4>1. f.id.low \in 0 .. SffSize - 1
        BY <1>1, <1>5, <3>2, SizesFacts DEF IsValidFrame
      <4>2. f.id.low % SffSize = f.id.low
        BY <4>1, SizesFacts
      <4> QED
        BY <2>2, <3>2, <4>2
    <3> QED
      BY <3>1, <3>2
  <2>4. dlc = f.dataLength
    BY <2>1
  <2>5. ext = f.extended /\ ("RTR" \in set) = f.remoteTransmissionRequest
    <3> HIDE DEF set
    <3> QED  BY <1>1, <2>2
  <2>6. f.id = [flags |-> {}, low |-> f.id.low]
    BY <1>1, <2>1
  <2> HIDE DEF set, dlc, low, ext
  <2>7. f = [id |-> f.id, dataLength |-> f.dataLength, extended |-> f.extended,
             remoteTransmissionRequest |-> f.remoteTransmissionRequest]
    BY DEF AllFrames
  <2> QED
    BY <1>4, <2>2, <2>3, <2>4, <2>5, <2>6, <2>7
<1>6. ASSUME Receives(Encode(f)), Decode(Encode(f)) = f
      PROVE  IsValidFrame(f)
  <2> HIDE DEF set, dlc, low, ext
  <2>1. f.id = [flags |-> {}, low |-> low] /\ f.dataLength = dlc /\ f.extended = ext
    BY <1>4, <1>6
  <2>2. f.id.flags = {} /\ f.id.low = low
    BY <2>1
  <2>3. f.dataLength <= MaxDataLength
    BY <1>1, <2>1 DEF dlc, MaxDataLength
  <2>4. CASE f.extended
    BY <1>1, <2>2, <2>3, <2>4 DEF IsValidFrame
  <2>5. CASE ~f.extended
    <3>1. low = f.id.low % SffSize
      BY <2>1, <2>5 DEF low
    <3>2. f.id.low <= SffSize - 1
      BY <1>1, <2>2, <3>1, SizesFacts
    <3> QED
      BY <2>2, <2>3, <2>5, <3>2 DEF IsValidFrame
  <2> QED
    BY <2>4, <2>5
<1> QED
  BY <1>5, <1>6

\* The frames at the edges are some of them.
LEMMA FramesAreFrames == Frames \subseteq AllFrames
<1>1. {SffSize - 1, SffSize, EffSize - 1} \subseteq 0 .. EffSize - 1
  BY SizesFacts
<1>2. {MaxDataLength, MaxDataLength + 1} \subseteq Nat
  BY DEF MaxDataLength
<1> QED
  BY <1>1, <1>2 DEF Frames, AllFrames, Words

-----------------------------------------------------------------------------
(* A program with a PluginManager.                                         *)

ManagerInv ==
    /\ WorldInv(World)
    /\ device \in Devices /\ removals = 0 /\ canUp \in BOOLEAN
    /\ manager \in {"alive", "destroyed"}
    /\ manager = "destroyed" => Loaded(plugins) = {}

\* The fields of the world are the variables.
LEMMA WorldFields ==
    /\ World.plugins = plugins /\ World.started = started /\ World.handles = handles
    /\ World.instances = instances /\ World.m = m /\ World.quiet = quiet
    /\ World.gap = gap /\ World.can = can
  BY DEF World

\* A call that leaves its objects in order leaves the variables in order.
LEMMA BecomesKeeps ==
    ASSUME NEW w, WorldInv(w), Becomes(w)
    PROVE  WorldInv(World') /\ plugins' = w.plugins
<1>1. w \in Worlds
  BY DEF WorldInv
<1>2. /\ World'.plugins = w.plugins /\ World'.started = w.started
      /\ World'.handles = w.handles /\ World'.instances = w.instances
      /\ World'.m = w.m /\ World'.quiet = w.quiet /\ World'.gap = w.gap
      /\ World'.can = w.can
  BY DEF Becomes, World
<1>3. World' \in Worlds
  BY <1>1 DEF World, Worlds, Becomes
<1>4. SameTable(World', w)
  BY <1>2 DEF SameTable
<1>5. PICK v : v = World'
  OBVIOUS
<1>6. WorldInv(v)
  BY <1>2, <1>3, <1>4, <1>5, SameFieldsInv
<1>7. plugins' = w.plugins
  BY DEF Becomes
<1> QED
  BY <1>5, <1>6, <1>7

\* The Modbus plugin is a device as in a program that owns it, and nobody
\* removes it behind its back.
LEMMA ManagedDevice == ManagerInv => DeviceInv
<1> SUFFICES ASSUME ManagerInv PROVE DeviceInv
  OBVIOUS
<1>1. ModbusInv(World) /\ World \in Worlds
  BY DEF ManagerInv, WorldInv
<1>2. ObjectInv(m) /\ Undisturbed(m) /\ Paced(m, quiet)
  BY <1>1, WorldFields DEF ModbusInv
<1>3. quiet \in 0 .. InitialDelay /\ gap = InitialDelay
  <2>1. World.quiet \in 0 .. InitialDelay /\ World.gap = InitialDelay
    BY <1>1 DEF Worlds
  <2> QED
    BY <2>1, WorldFields
<1> QED
  BY <1>2, <1>3, BoundsAssumption DEF ManagerInv, DeviceInv, DeviceTypes, PaceInv

\* Steps of the Modbus device, as long as it stays initialized, do not touch the
\* manager's table.
LEMMA DeviceKeeps ==
    ASSUME ManagerInv, DeviceInv', m'.context = m.context, removals' = removals,
           UNCHANGED <<plugins, started, handles, instances, can, canUp, manager>>
    PROVE  ManagerInv'
<1>1. PICK v : v = World'
  OBVIOUS
<1>2. /\ v.plugins = plugins /\ v.started = started /\ v.handles = handles
      /\ v.instances = instances /\ v.m = m' /\ v.quiet = quiet' /\ v.gap = gap'
      /\ v.can = can
  BY <1>1 DEF World
<1>3. /\ World \in Worlds /\ HandlesInv(World) /\ InstancesInv(World) /\ StartedInv(World)
  BY DEF ManagerInv, WorldInv
<1>4. /\ ObjectInv(m') /\ m' \in Objects /\ quiet' \in 0 .. InitialDelay
      /\ gap' = InitialDelay /\ Paced(m', quiet') /\ device' \in Devices
      /\ removals' = 0 /\ Undisturbed(m')
  BY DEF DeviceInv, DeviceTypes, PaceInv, ObjectInv, ManagerInv
<1>5. v \in Worlds
  <2>1. /\ plugins \in [Names -> Libraries \union {"none"}] /\ started \in SUBSET Names
        /\ handles \in [Libraries -> Int] /\ instances \in [Names -> Int]
        /\ can \in CanObjects
    BY <1>3 DEF World, Worlds
  <2>2. v = [plugins |-> plugins, started |-> started, handles |-> handles,
             instances |-> instances, m |-> m', quiet |-> quiet', gap |-> gap', can |-> can]
    BY <1>1 DEF World
  <2> QED
    BY <1>4, <2>1, <2>2 DEF Worlds
<1>6. HandlesInv(v) /\ InstancesInv(v)
  BY <1>2, <1>3, WorldFields DEF HandlesInv, InstancesInv
<1>7. StartedInv(v)
  BY <1>2, <1>3, WorldFields DEF StartedInv
<1>8. ModbusInv(v)
  BY <1>2, <1>4 DEF ModbusInv
<1>9. WorldInv(v)
  BY <1>5, <1>6, <1>7, <1>8 DEF WorldInv
<1> QED
  BY <1>1, <1>4, <1>9 DEF ManagerInv

\* A manager with nothing loaded.
LEMMA ManagerInitInv ==
    Init /\ ManagerInit => ManagerInv
<1> SUFFICES ASSUME Init, ManagerInit PROVE ManagerInv
  OBVIOUS
<1>1. /\ plugins = [n \in Names |-> "none"] /\ started = {}
      /\ handles = [lib \in Libraries |-> 0] /\ instances = [n \in Names |-> 0]
      /\ can = NewCan /\ m = NewDevice /\ quiet = InitialDelay /\ gap = InitialDelay
  BY DEF Init, ManagerInit
<1>2. ObjectInv(m) /\ Undisturbed(m) /\ m \in Objects /\ ~m.context
  BY <1>1, NewDeviceInv DEF ObjectInv
<1>3. Loaded(plugins) = {}
  BY <1>1 DEF Loaded
<1>4. World \in Worlds
  <2>1. /\ plugins \in [Names -> Libraries \union {"none"}] /\ started \in SUBSET Names
        /\ handles \in [Libraries -> Int] /\ instances \in [Names -> Int]
        /\ can \in CanObjects /\ quiet \in 0 .. InitialDelay
    BY <1>1, DelayAssumption DEF CanObjects, NewCan
  <2> QED
    BY <1>1, <1>2, <2>1 DEF World, Worlds
<1>5. HandlesInv(World)
  <2> SUFFICES ASSUME NEW lib \in Libraries
               PROVE  handles[lib] = Cardinality(Holders(plugins, lib))
    BY WorldFields DEF HandlesInv
  <2>1. Holders(plugins, lib) = {}
    BY <1>1, NamesFacts DEF Holders
  <2> QED
    BY <1>1, <2>1, FS_EmptySet
<1>6. InstancesInv(World)
  BY <1>1, <1>3, WorldFields DEF InstancesInv
<1>7. StartedInv(World)
  BY <1>1, <1>2, <1>3, WorldFields DEF StartedInv, NewCan
<1>8. ModbusInv(World)
  BY <1>1, <1>2, WorldFields DEF ModbusInv, Paced
<1> QED
  BY <1>3, <1>4, <1>5, <1>6, <1>7, <1>8 DEF Init, ManagerInit, ManagerInv, WorldInv

\* What each startAll() has done to the variables.
LEMMA StartAllStep ==
    ASSUME ManagerInv, CallStartAll
    PROVE  /\ WorldInv(World') /\ plugins' = plugins
           /\ IF call'.ok THEN started' = Loaded(plugins)
              ELSE /\ started' = started
                   /\ can'.open => can.open
                   /\ m'.connected => m.connected
<1>1. PICK first \in Names, answers \in PossibleAnswers, elapsed \in Durations :
          LET done == StartAll(World, first, answers, elapsed)
          IN Becomes(done.w) /\ Returns("startAll", done.ok)
  BY DEF CallStartAll
<1>2. PICK done : done = StartAll(World, first, answers, elapsed)
  OBVIOUS
<1>3. Becomes(done.w) /\ call' = [op |-> "startAll", ok |-> done.ok]
  BY <1>1, <1>2 DEF Returns
<1>4. WorldInv(World) /\ canUp \in BOOLEAN
  BY DEF ManagerInv
<1>5. SoFar(World, done) /\ (done.ok => done.w.started = Loaded(World.plugins))
  BY <1>2, <1>4, StartAllKeeps
<1>6. WorldInv(World') /\ plugins' = plugins
  <2>1. WorldInv(done.w) /\ done.w.plugins = World.plugins
    BY <1>5 DEF SoFar
  <2> QED
    BY <1>3, <2>1, BecomesKeeps, WorldFields
<1>7. /\ started' = done.w.started /\ can' = done.w.can /\ m' = done.w.m
      /\ call'.ok = done.ok
  BY <1>3 DEF Becomes
<1>8. CASE done.ok
  BY <1>5, <1>6, <1>7, <1>8, WorldFields
<1>9. CASE ~done.ok
  <2>1. /\ done.w.started = started
        /\ done.w.can.open => can.open
        /\ done.w.m.connected => m.connected
    BY <1>5, <1>9, WorldFields DEF SoFar
  <2> QED
    BY <1>6, <1>7, <1>9, <2>1
<1> QED
  BY <1>8, <1>9

\* Every call of the manager, and of a loaded plugin, keeps the invariant.
LEMMA ManagerStep ==
    ManagerInv /\ [ManagerNext]_managerAllVars => ManagerInv'
<1> SUFFICES ASSUME ManagerInv, [ManagerNext]_managerAllVars PROVE ManagerInv'
  OBVIOUS
<1>1. /\ WorldInv(World) /\ device \in Devices /\ removals = 0 /\ canUp \in BOOLEAN
      /\ manager \in {"alive", "destroyed"}
      /\ World.plugins = plugins /\ World.started = started
  BY WorldFields DEF ManagerInv
<1>2. Loaded(plugins) \subseteq Names /\ started \in SUBSET Names
  <2>1. World \in Worlds
    BY <1>1 DEF WorldInv
  <2> QED
    BY <1>1, <2>1 DEF Loaded, Worlds
<1>3. ASSUME NEW w, WorldInv(w), Becomes(w), manager = "alive",
             UNCHANGED <<device, removals, canUp, manager>>
      PROVE  ManagerInv'
  <2>1. WorldInv(World')
    BY <1>3, BecomesKeeps
  <2> QED
    BY <1>1, <1>3, <2>1 DEF ManagerInv
<1>4. CASE CallLoadPlugin
  <2>1. PICK lib \in Libraries, fault \in Failures \union {"none"} :
            Becomes(LoadPlugin(World, lib, fault))
    BY <1>4 DEF CallLoadPlugin
  <2>2. WorldInv(LoadPlugin(World, lib, fault))
    BY <1>1, LoadKeeps
  <2> QED
    BY <1>3, <1>4, <2>1, <2>2 DEF CallLoadPlugin
<1>5. CASE CallUnloadPlugin
  <2>1. PICK n \in Loaded(plugins) : Becomes(UnloadPlugin(World, n))
    BY <1>5 DEF CallUnloadPlugin
  <2>2. WorldInv(UnloadPlugin(World, n))
    BY <1>1, UnloadKeeps
  <2> QED
    BY <1>3, <1>5, <2>1, <2>2 DEF CallUnloadPlugin
<1>6. CASE CallStartPlugin
  <2>1. PICK n \in Loaded(plugins) \ started, answers \in PossibleAnswers, elapsed \in Durations :
            LET r == StartInstance(World, n, answers, elapsed)
            IN Becomes(IF r.ok THEN [r.w EXCEPT !.started = @ \union {n}] ELSE r.w)
    BY <1>6 DEF CallStartPlugin
  <2>2. PICK r : r = StartInstance(World, n, answers, elapsed)
    OBVIOUS
  <2>3. PICK w : w = IF r.ok THEN [r.w EXCEPT !.started = @ \union {n}] ELSE r.w
    OBVIOUS
  <2>4. /\ r.ok => WorldInv([r.w EXCEPT !.started = @ \union {n}])
        /\ ~r.ok => WorldInv(r.w)
    BY <1>1, <2>2, StartInstanceKeeps
  <2>5. WorldInv(w)
    <3>1. CASE r.ok
      BY <2>3, <2>4, <3>1
    <3>2. CASE ~r.ok
      BY <2>3, <2>4, <3>2
    <3> QED
      BY <3>1, <3>2
  <2>6. Becomes(w)
    BY <2>1, <2>2, <2>3
  <2> QED
    BY <1>3, <1>6, <2>5, <2>6 DEF CallStartPlugin
<1>7. CASE CallStopPlugin
  <2>1. PICK n \in started : Becomes(StopInstances(World, {n}))
    BY <1>7 DEF CallStopPlugin
  <2>2. {n} \in SUBSET Names
    BY <1>2
  <2>3. WorldInv(StopInstances(World, {n}))
    BY <1>1, <2>2, StopInstancesKeeps
  <2> QED
    BY <1>3, <1>7, <2>1, <2>3 DEF CallStopPlugin
<1>8. CASE CallStartAll
  <2>1. WorldInv(World')
    BY <1>8, StartAllStep
  <2>2. manager = "alive" /\ UNCHANGED <<device, removals, canUp, manager>>
    BY <1>8 DEF CallStartAll
  <2> QED
    BY <1>1, <2>1, <2>2 DEF ManagerInv
<1>9. CASE CallStopAll
  <2>1. WorldInv(StopInstances(World, started))
    BY <1>1, <1>2, StopInstancesKeeps
  <2> QED
    BY <1>3, <1>9, <2>1 DEF CallStopAll
<1>10. CASE DestroyManager
  <2>1. PICK one : one = IF Modbus \in Loaded(plugins) THEN UnloadPlugin(World, Modbus) ELSE World
    OBVIOUS
  <2>2. PICK w : w = IF Can \in Loaded(plugins) THEN UnloadPlugin(one, Can) ELSE one
    OBVIOUS
  <2>3. Becomes(w) /\ manager' = "destroyed" /\ UNCHANGED <<device, removals, canUp>>
    BY <1>10, <2>1, <2>2 DEF DestroyManager
  <2>4. WorldInv(one) /\ Loaded(one.plugins) = Loaded(plugins) \ {Modbus}
    <3>1. CASE Modbus \in Loaded(plugins)
      BY <1>1, <2>1, <3>1, UnloadKeeps
    <3>2. CASE Modbus \notin Loaded(plugins)
      BY <1>1, <2>1, <3>2
    <3> QED
      BY <3>1, <3>2
  <2>5. WorldInv(w) /\ Loaded(w.plugins) = Loaded(one.plugins) \ {Can}
    <3>1. CASE Can \in Loaded(plugins)
      <4>1. Can \in Loaded(one.plugins)
        BY <2>4, <3>1, NamesFacts
      <4>2. w = UnloadPlugin(one, Can)
        BY <2>2, <3>1
      <4> QED
        BY <2>4, <4>1, <4>2, UnloadKeeps
    <3>2. CASE Can \notin Loaded(plugins)
      BY <2>2, <2>4, <3>2
    <3> QED
      BY <3>1, <3>2
  <2>6. WorldInv(World') /\ plugins' = w.plugins
    BY <2>3, <2>5, BecomesKeeps
  <2>7. Loaded(w.plugins) = {}
    BY <1>2, <2>4, <2>5, NamesFacts
  <2>8. Loaded(plugins)' = {}
    BY <2>6, <2>7 DEF Loaded
  <2> QED
    BY <1>1, <2>3, <2>6, <2>8 DEF ManagerInv
<1>11. CASE Poll
  <2>1. DeviceInv' /\ m'.context = m.context /\ removals' = removals
    BY <1>11, ManagedDevice, PollStep DEF Poll, CallPollOnce
  <2> QED
    BY <1>11, <2>1, DeviceKeeps DEF Poll, Untouched
<1>12. CASE InterfaceChanges
  <2>1. canUp' \in BOOLEAN
    BY <1>12, Zenon DEF InterfaceChanges
  <2>2. UNCHANGED <<m, device, quiet, gap, removals, plugins, started, handles, instances,
                    can, manager>>
    BY <1>12 DEF InterfaceChanges, vars
  <2>3. World' = World /\ Loaded(plugins)' = Loaded(plugins)
    BY <2>2 DEF World, Loaded
  <2> QED
    BY <2>1, <2>2, <2>3 DEF ManagerInv
<1>13. CASE (DeviceChanges \/ Tick) /\ Untouched
  <2>1. DeviceInv' /\ m'.context = m.context /\ removals' = removals
    BY <1>13, ManagedDevice, EnvironmentStep
  <2> QED
    BY <1>13, <2>1, DeviceKeeps DEF Untouched
<1>14. CASE UNCHANGED managerAllVars
  <2>1. UNCHANGED <<m, device, quiet, gap, removals, plugins, started, handles, instances,
                    can, canUp, manager>>
    BY <1>14 DEF managerAllVars, managerVars, vars
  <2>2. World' = World /\ Loaded(plugins)' = Loaded(plugins)
    BY <2>1 DEF World, Loaded
  <2> QED
    BY <2>1, <2>2 DEF ManagerInv
<1> QED
  BY <1>4, <1>5, <1>6, <1>7, <1>8, <1>9, <1>10, <1>11, <1>12, <1>13, <1>14 DEF ManagerNext

\* The manager and its plugins keep their invariant.
THEOREM ManagerInvariance == ManagerSpec => []ManagerInv
<1> QED
  BY ManagerInitInv, ManagerStep, PTL DEF ManagerSpec

\* The table is all there is: no object, handle, socket or connection outlives
\* its entry, however loadPlugin() or startPlugin() fail.
THEOREM LeakSafety == ManagerSpec => []NothingLeaks
<1>1. ManagerInv => NothingLeaks
  <2> SUFFICES ASSUME ManagerInv PROVE NothingLeaks
    OBVIOUS
  <2>1. HandlesInv(World) /\ InstancesInv(World) /\ StartedInv(World) /\ ModbusInv(World)
    BY DEF ManagerInv, WorldInv
  <2>2. \A lib \in Libraries : handles[lib] = Cardinality({n \in Names : plugins[n] = lib})
    BY <2>1, WorldFields DEF HandlesInv, Holders
  <2>3. \A n \in Names : instances[n] = IF n \in Loaded(plugins) THEN 1 ELSE 0
    BY <2>1, WorldFields DEF InstancesInv
  <2>4. /\ started \subseteq Loaded(plugins)
        /\ can.open <=> Can \in started
        /\ m.context <=> Modbus \in Loaded(plugins)
    BY <2>1, WorldFields DEF StartedInv
  <2>5. ~m.context => ~m.connected
    BY <2>1, WorldFields DEF ModbusInv, ObjectInv, StatesInv
  <2> QED
    BY <2>2, <2>3, <2>4, <2>5 DEF ManagerInv, NothingLeaks
<1> QED
  BY <1>1, ManagerInvariance, PTL

\* sendFrame() lets through what arrives as it was meant, while the plugin is
\* started, and nothing else.
THEOREM FrameSafety == ManagerSpec => []FramesSurvive
<1>1. ManagerInv => FramesSurvive
  <2> SUFFICES ASSUME ManagerInv
               PROVE  {f \in Frames : SendFrame(can, f)} =
                          IF Can \in started THEN SurvivingFrames ELSE {}
    BY DEF FramesSurvive
  <2>1. can.open <=> Can \in started
    BY WorldFields DEF ManagerInv, WorldInv, StartedInv
  <2>2. \A f \in Frames :
            IsValidFrame(f) <=> Receives(Encode(f)) /\ Decode(Encode(f)) = f
    BY FramesAreFrames, ValidMeansSurvives
  <2> QED
    BY <2>1, <2>2 DEF SendFrame, SurvivingFrames
<1> QED
  BY <1>1, ManagerInvariance, PTL

\* A startAll() that fails has started nothing and opened nothing; one that
\* succeeds has started everything that is loaded.
THEOREM StartAllAtomicity == ManagerSpec => StartAllIsAtomic
<1>1. ManagerInv /\ [ManagerNext]_managerAllVars =>
        [call'.op = "startAll" =>
          IF call'.ok THEN started' = Loaded(plugins)
          ELSE /\ started' = started
               /\ can'.open => can.open
               /\ m'.connected => m.connected]_managerAllVars
  <2> SUFFICES ASSUME ManagerInv, ManagerNext, call'.op = "startAll"
               PROVE  IF call'.ok THEN started' = Loaded(plugins)
                      ELSE /\ started' = started
                           /\ can'.open => can.open
                           /\ m'.connected => m.connected
    OBVIOUS
  <2>1. CallStartAll
    <3>1. CallLoadPlugin => call'.op = "load"
      BY DEF CallLoadPlugin, Returns
    <3>2. CallUnloadPlugin => call'.op = "unload"
      BY DEF CallUnloadPlugin, Returns
    <3>3. CallStartPlugin => call'.op = "start"
      BY DEF CallStartPlugin, Returns
    <3>4. CallStopPlugin \/ CallStopAll => call'.op \in {"stop", "stopAll"}
      BY DEF CallStopPlugin, CallStopAll, Returns
    <3>5. DestroyManager => call'.op = "unloadAll"
      BY DEF DestroyManager, Returns
    <3>6. Untouched \/ InterfaceChanges => call'.op = "none"
      BY DEF Untouched, InterfaceChanges, NoCall
    <3>7. Poll => Untouched
      BY DEF Poll
    <3> QED
      BY <3>1, <3>2, <3>3, <3>4, <3>5, <3>6, <3>7 DEF ManagerNext
  <2> QED
    BY <2>1, StartAllStep
<1> QED
  BY <1>1, ManagerInvariance, PTL DEF ManagerSpec, StartAllIsAtomic

\* A Modbus plugin that is loaded, started and unloaded by a manager keeps the
\* promises it keeps in a program that owns it.
THEOREM ManagedDeviceSafety ==
    ManagerSpec => [](StatesAgree /\ GoodMeansConnected /\ BackoffIsExponential)
<1>1. ManagerInv => StatesAgree /\ GoodMeansConnected /\ BackoffIsExponential
  BY ManagedDevice, DeviceInvImplies
<1> QED
  BY <1>1, ManagerInvariance, PTL

=============================================================================
