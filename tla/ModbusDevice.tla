---------------------------- MODULE ModbusDevice ----------------------------
(***************************************************************************)
(* One field device behind the Modbus TCP plugin                           *)
(* (plugins/modbus_plugin/modbus_plugin.cpp) with its connection state     *)
(* machine, its reconnect backoff and its entry in the DeviceManager.      *)
(*                                                                         *)
(* All of it runs in one thread and none of it is locked, so each public   *)
(* call is one action: initialize(), start(), stop(), pollOnce() and the   *)
(* destructor, after which PluginManager may create the plugin anew.  The  *)
(* calls are compositions of member functions, which are written here as   *)
(* functions from a state of the objects to the next.                      *)
(*                                                                         *)
(* Both timers compare differences of the monotonic clock, so the model    *)
(* keeps the time since lastActivity_ and the time left until retryAt_     *)
(* instead of a clock.  The device and libmodbus are external: a device is *)
(* off, accepts connections, or answers too, and a register read ends in a *)
(* value, in a value that is not finite, or in no or a short answer.       *)
(***************************************************************************)
EXTENDS Integers

CONSTANTS
    Tags,          \* the configured tags
    InitialDelay,  \* reconnectInitialDelayMs
    MaximumDelay,  \* reconnectMaximumDelayMs
    Timeout,       \* communicationTimeoutMs
    MaxFailures,   \* bound: failureCount_ is not counted any further
    MaxRemovals    \* bound: how often others remove the device

ASSUME DelayAssumption ==
    /\ InitialDelay \in Nat \ {0} /\ MaximumDelay \in Nat
    /\ InitialDelay <= MaximumDelay
    /\ Timeout \in Nat \ {0}
ASSUME BoundsAssumption ==
    /\ MaxFailures \in Nat \ {0} /\ MaxRemovals \in Nat
    /\ MaximumDelay <= InitialDelay * 2 ^ (MaxFailures - 1)
\* The powers of two that occur, which the provers do not know by themselves.
ASSUME PowerAssumption ==
    /\ 2 ^ 0 = 1
    /\ \A k \in 0 .. MaxFailures : 2 ^ k \in Nat \ {0} /\ 2 ^ (k + 1) = 2 * 2 ^ k

VARIABLES
    m,         \* the objects: the fields of Objects
    device,    \* "off", "mute" (accepts connections, never answers), "on"
    quiet,     \* time since the last modbus_connect, counted to InitialDelay
    gap,       \* the same between the last two without a stop() in between
    removals   \* how often the device was removed

vars == <<m, device, quiet, gap, removals>>

ConnectionStates == {"Disconnected", "Connecting", "Connected", "Timeout", "Error"}
Qualities == {"Good", "Timeout", "Invalid", "Disconnected"}
Devices == {"off", "mute", "on"}
Answers == {"value", "infinite", "short"}

Smaller(a, b) == IF a <= b THEN a ELSE b

\* The fields of the plugin object, its state machine and its backoff, and the
\* device's entry in the DeviceManager.
Objects ==
    [context : BOOLEAN, connected : BOOLEAN, state : ConnectionStates,
     idle : 0 .. Timeout, failureCount : 0 .. MaxFailures,
     nextDelay : InitialDelay .. MaximumDelay, retryIn : 0 .. MaximumDelay,
     registered : BOOLEAN, deviceState : ConnectionStates,
     tags : [Tags -> Qualities \union {"none"}]]

\* A plugin object right after its constructor.
NewPlugin == [context |-> FALSE, connected |-> FALSE, state |-> "Disconnected",
              idle |-> 0, failureCount |-> 0, nextDelay |-> InitialDelay,
              retryIn |-> 0]

NoTags == [t \in Tags |-> "none"]

\* The plugin p with the device of the DeviceManager.
With(p, registered, deviceState, tags) ==
    [context |-> p.context, connected |-> p.connected, state |-> p.state,
     idle |-> p.idle, failureCount |-> p.failureCount,
     nextDelay |-> p.nextDelay, retryIn |-> p.retryIn,
     registered |-> registered, deviceState |-> deviceState, tags |-> tags]

\* A new plugin and an empty DeviceManager.
NewDevice == With(NewPlugin, FALSE, "Disconnected", NoTags)

Init ==
    /\ m = NewDevice
    /\ device \in Devices
    /\ quiet = InitialDelay /\ gap = InitialDelay /\ removals = 0

-----------------------------------------------------------------------------
(* DeviceManager.  Of a device that is not registered nothing is updated.  *)

UpdateTags(g, tags) == IF g.registered THEN [g EXCEPT !.tags = tags] ELSE g

\* updateAllTagQualities(): every tag that exists so far.
UpdateAllTagQualities(g, q) ==
    UpdateTags(g, [t \in Tags |-> IF g.tags[t] = "none" THEN "none" ELSE q])

-----------------------------------------------------------------------------
(* DeviceConnectionStateMachine.                                           *)

\* isTransitionAllowed()
Allowed ==
    [Disconnected |-> {"Connecting"},
     Connecting   |-> {"Connected", "Timeout", "Error", "Disconnected"},
     Connected    |-> {"Timeout", "Error", "Disconnected"},
     Timeout      |-> {"Connecting", "Disconnected"},
     Error        |-> {"Connecting", "Disconnected"}]

\* Mutant of TransitionTo: state_ is set before the DeviceManager agrees.
TransitionTo_Eager(g, s) ==
    IF s \notin Allowed[g.state] THEN g
    ELSE [g EXCEPT !.state = s,
                   !.idle = IF s = "Connected" THEN 0 ELSE @]

\* transitionTo(s): the DeviceManager is updated first, and a refusal leaves
\* both as they are.  It returns true exactly when state_ is s afterwards.
TransitionTo(g, s) ==
    IF s = g.state \/ s \notin Allowed[g.state] \/ ~g.registered THEN g
    ELSE [g EXCEPT !.state = s, !.deviceState = s,
                   !.idle = IF s = "Connected" THEN 0 ELSE @]

MarkActivity(g) == IF g.state = "Connected" THEN [g EXCEPT !.idle = 0] ELSE g

\* checkTimeout() asks for the transition to Timeout.
Expired(g) == g.state = "Connected" /\ g.idle >= Timeout

-----------------------------------------------------------------------------
(* ReconnectBackoff.                                                       *)

\* Mutant of Doubled: the cap is forgotten.
Doubled_NoCap(d) == 2 * d

Doubled(d) == IF d >= MaximumDelay THEN MaximumDelay ELSE Smaller(2 * d, MaximumDelay)

RecordFailure(g) ==
    [g EXCEPT !.retryIn = g.nextDelay, !.nextDelay = Doubled(g.nextDelay),
              !.failureCount = Smaller(@ + 1, MaxFailures)]

Reset(g) == [g EXCEPT !.failureCount = 0, !.nextDelay = InitialDelay, !.retryIn = 0]

\* Mutant of CanRetry: the scheduled time is never compared.
CanRetry_OnlyFirst(g) == g.failureCount = 0

CanRetry(g) == g.failureCount = 0 \/ g.retryIn = 0

-----------------------------------------------------------------------------
(* ModbusPlugin.                                                           *)

\* initialize(): registers the device if nobody has, and takes the state the
\* machine starts in from the DeviceManager.
Initialize(g) ==
    IF g.context THEN g
    ELSE LET deviceState == IF g.registered THEN g.deviceState ELSE "Disconnected"
             tags == IF g.registered THEN g.tags ELSE NoTags
         IN With([NewPlugin EXCEPT !.context = TRUE, !.state = deviceState],
                 TRUE, deviceState, tags)

\* connectTransport() gets as far as modbus_connect.
Attempts(g) == ~g.connected /\ TransitionTo(g, "Connecting").state = "Connecting"

ConnectionFailed(g) ==
    RecordFailure(UpdateAllTagQualities(TransitionTo(g, "Error"), "Disconnected"))

\* connectTransport(), ok: modbus_connect succeeds.
ConnectTransport(g, ok) ==
    IF ~Attempts(g) THEN g
    ELSE LET connecting == TransitionTo(g, "Connecting")
             up == TransitionTo([connecting EXCEPT !.connected = TRUE], "Connected")
         IN IF ~ok THEN ConnectionFailed(connecting)
            ELSE IF up.state # "Connected"
                 THEN RecordFailure([up EXCEPT !.connected = FALSE])
                 ELSE Reset(up)

\* The quality a tag gets for the answer to its read.
QualityOf == [value |-> "Good", infinite |-> "Invalid", short |-> "Timeout"]

\* The end of a connection without answers for longer than Timeout.
GiveUp(g) ==
    RecordFailure([UpdateAllTagQualities(g, "Timeout") EXCEPT !.connected = FALSE])

\* The body of pollOnce() on a connection: all tags are read, which takes a
\* while, then the time of the last answer is kept or checked.
ReadTags(g, answers, elapsed) ==
    LET later == [g EXCEPT !.idle = Smaller(@ + elapsed, Timeout)]
        read == UpdateTags(later, [t \in Tags |-> QualityOf[answers[t]]])
        late == TransitionTo(read, "Timeout")
    IN IF \E t \in Tags : answers[t] # "short" THEN MarkActivity(read)
       ELSE IF Expired(read) /\ late.state = "Timeout" THEN GiveUp(late) ELSE read

\* pollOnce() connects first when there is no connection and it is time to.
PollOnce(g, ok, answers, elapsed) ==
    IF ~g.connected /\ ~(g.context /\ CanRetry(g)) THEN g
    ELSE LET c == ConnectTransport(g, ok)
         IN IF c.connected THEN ReadTags(c, answers, elapsed) ELSE c

\* start() on an initialized plugin that is not connected.  Its first poll may
\* give the connection up again, and start() still returns true.
StartTransport(g, ok, answers, elapsed) ==
    IF ~CanRetry(g) THEN g
    ELSE LET c == ConnectTransport(g, ok)
         IN IF c.connected THEN PollOnce(c, ok, answers, elapsed) ELSE c

StartSucceeds(g, ok) ==
    g.connected \/ (CanRetry(g) /\ ConnectTransport(g, ok).connected)

\* Mutant of StopTransport: the tags are left as they are.
StopTransport_KeepsTags(g) ==
    LET closed == [g EXCEPT !.connected = FALSE]
    IN IF g.context THEN Reset(TransitionTo(closed, "Disconnected")) ELSE closed

\* stop(): state machine and backoff exist once initialize() has run.
StopTransport(g) ==
    LET closed == [g EXCEPT !.connected = FALSE]
        marked == IF closed.state = "Disconnected" THEN closed
                  ELSE UpdateAllTagQualities(TransitionTo(closed, "Disconnected"),
                                             "Disconnected")
    IN IF g.context THEN Reset(marked) ELSE closed

-----------------------------------------------------------------------------
(* The actions.                                                            *)

\* What the device answers to one poll.
PossibleAnswers ==
    IF device # "on" THEN {[t \in Tags |-> "short"]}
    ELSE {a \in [Tags -> Answers] : \E t \in Tags : a[t] # "short"}

\* modbus_connect succeeds.
Reachable == device # "off"

\* How long the reads of a poll may take: they wait for each answer.
Durations == 0 .. Timeout

\* Bookkeeping of the connection attempts.
Attempt(happens, elapsed) ==
    IF happens THEN gap' = quiet /\ quiet' = Smaller(elapsed, InitialDelay)
               ELSE UNCHANGED <<gap, quiet>>

\* initialize(), called when the plugin is loaded.  (When it fails, it leaves
\* everything as it was.)
CallInitialize ==
    /\ ~m.context
    /\ m' = Initialize(m)
    /\ UNCHANGED <<device, quiet, gap, removals>>

CallStart ==
    /\ ~m.connected
    /\ LET g == Initialize(m)
       IN \E answers \in PossibleAnswers, elapsed \in Durations :
             /\ m' = StartTransport(g, Reachable, answers, elapsed)
             /\ Attempt(CanRetry(g) /\ Attempts(g), elapsed)
    /\ UNCHANGED <<device, removals>>

CallPollOnce ==
    /\ \E answers \in PossibleAnswers, elapsed \in Durations :
          /\ m' = PollOnce(m, Reachable, answers, elapsed)
          /\ Attempt(m.context /\ CanRetry(m) /\ Attempts(m), elapsed)
    /\ UNCHANGED <<device, removals>>

\* stop(); the next attempt is then deliberate and may come at once.
CallStop ==
    /\ m' = StopTransport(m)
    /\ quiet' = InitialDelay
    /\ UNCHANGED <<device, gap, removals>>

\* ~ModbusPlugin(), and a new object for the same DeviceManager.
Destroy ==
    /\ LET g == StopTransport(m)
       IN m' = With(NewPlugin, g.registered, g.deviceState, g.tags)
    /\ quiet' = InitialDelay
    /\ UNCHANGED <<device, gap, removals>>

\* Another user of the DeviceManager removes the device (or clears it) ...
RemoveDevice ==
    /\ m.registered /\ removals < MaxRemovals
    /\ m' = With(m, FALSE, "Disconnected", NoTags)
    /\ removals' = removals + 1
    /\ UNCHANGED <<device, quiet, gap>>

\* ... or registers it, disconnected and without tags.
AddDevice ==
    /\ ~m.registered
    /\ m' = With(m, TRUE, "Disconnected", NoTags)
    /\ UNCHANGED <<device, quiet, gap, removals>>

\* The device comes and goes; a connection to it is not told.
DeviceChanges ==
    /\ device' \in Devices \ {device}
    /\ UNCHANGED <<m, quiet, gap, removals>>

\* One unit of time, outside the calls.
Tick ==
    /\ m' = [m EXCEPT !.idle = Smaller(@ + 1, Timeout),
                      !.retryIn = IF @ > 0 THEN @ - 1 ELSE 0]
    /\ quiet' = Smaller(quiet + 1, InitialDelay)
    /\ UNCHANGED <<device, gap, removals>>

Next == \/ CallInitialize \/ CallStart \/ CallPollOnce \/ CallStop \/ Destroy
        \/ RemoveDevice \/ AddDevice \/ DeviceChanges \/ Tick

Spec == Init /\ [][Next]_vars

\* A scheduler goes on polling, and time passes.
FairSpec == Spec /\ WF_vars(CallPollOnce) /\ WF_vars(Tick)

-----------------------------------------------------------------------------
(* Properties.                                                             *)

\* Types; the idle time and the time to the next retry stay in their ranges.
TypeOK ==
    /\ m \in Objects
    /\ device \in Devices
    /\ quiet \in 0 .. InitialDelay /\ gap \in 0 .. InitialDelay
    /\ removals \in 0 .. MaxRemovals

\* Nobody takes an old value for a current one: a tag is Good only while there
\* is a connection, whatever way it ended (stop(), timeout, failed reconnect,
\* destruction, removal and re-registration of the device).
GoodMeansConnected ==
    (\E t \in Tags : m.tags[t] = "Good") => m.connected /\ m.state = "Connected"

\* State machine, DeviceManager and socket agree: an open socket means
\* Connected; and unless somebody removed the device behind the plugin's back,
\* Connected means an open socket and the DeviceManager shows the machine's
\* state.  No call ends in Connecting, and a plugin that is created anew finds
\* the device Disconnected, a state that allows it to connect.
StatesAgree ==
    /\ TypeOK
    /\ ~m.context => m.deviceState = "Disconnected"
    /\ m.connected => m.context /\ m.state = "Connected"
    /\ m.state # "Connecting" /\ m.deviceState # "Connecting"
    /\ removals = 0 => /\ m.state = "Connected" => m.connected
                       /\ m.context => m.registered /\ m.deviceState = m.state

\* "用指数增长的等待时间限制设备重连频率": after k failures in a row the wait is
\* InitialDelay * 2^(k-1), capped, and the next one is the double of it,
\* capped; a success, and only that or stop(), begins again.  Between two
\* connection attempts without a stop() in between there is always at least the
\* initial delay, also when the first one succeeded and the connection was then
\* given up, and whichever of start() and pollOnce() made them.
WaitAfter(k) == Smaller(InitialDelay * 2 ^ (k - 1), MaximumDelay)

BackoffIsExponential ==
    /\ m.nextDelay = WaitAfter(m.failureCount + 1)
    /\ m.failureCount = 0 => m.retryIn = 0
    /\ m.failureCount > 0 => m.retryIn <= WaitAfter(m.failureCount)
    /\ gap >= InitialDelay

\* A device that works from some time on is connected again, and again after
\* every stop(), however long the waiting time had become, unless the device is
\* removed or the plugin is torn down for good.
Reconnects ==
    <>[](device = "on" /\ m.context /\ removals = 0) => []<>(m.connected)

=============================================================================
