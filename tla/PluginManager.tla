--------------------------- MODULE PluginManager ---------------------------
(***************************************************************************)
(* PluginManager (src/plugin_manager.cpp) with the two plugins of the      *)
(* repository: a Modbus plugin as the library's createPlugin() makes it,   *)
(* with a DeviceManager of its own (ModbusDevice), and a SocketCAN plugin  *)
(* (SocketCan).  Libraries are shared objects: some hold a plugin, one     *)
(* holds a plugin whose name another one has, and any may turn out to be   *)
(* broken in one of the ways loadPlugin() looks for.                       *)
(*                                                                         *)
(* Everything runs in one thread and a call is one action.  Between the    *)
(* calls the application polls the Modbus plugin, which it gets from       *)
(* getPlugin().  The calls are functions of a record of all the objects.   *)
(***************************************************************************)
EXTENDS ModbusDevice, SocketCan, FiniteSets

CONSTANTS
    Libraries,  \* paths
    MaxLoads    \* bound: how often loadPlugin() is called

Modbus == "ModbusPlugin"
Can == "SocketCanPlugin"
Names == {Modbus, Can}

ASSUME LibraryAssumption == Libraries \subseteq {"modbus.so", "copy.so", "can.so"}
ASSUME LoadsAssumption == MaxLoads \in Nat

\* The name a library's plugin gives.
NameOf == [lib \in {"modbus.so", "copy.so", "can.so"} |->
              IF lib = "can.so" THEN Can ELSE Modbus]

VARIABLES
    plugins,    \* plugins_: per name, the library it came from, or "none"
    started,    \* the names whose started flag is set
    handles,    \* per library, how many dlopen()s are not closed
    instances,  \* per name, how many plugin objects exist
    can,        \* the SocketCAN plugin that is loaded
    canUp,      \* its interface exists
    manager,    \* "alive", "destroyed"; "none": a program without a manager
    loads,
    call        \* the call that was made last, and what it returned

managerVars == <<plugins, started, handles, instances, can, canUp, manager, loads, call>>
managerAllVars == <<vars, managerVars>>

Loaded(p) == {n \in Names : p[n] # "none"}
NoCall == [op |-> "none", ok |-> TRUE]

ManagerInit ==
    /\ plugins = [n \in Names |-> "none"] /\ started = {}
    /\ handles = [lib \in Libraries |-> 0] /\ instances = [n \in Names |-> 0]
    /\ can = NewCan /\ canUp \in BOOLEAN
    /\ manager = "alive" /\ loads = 0 /\ call = NoCall

NoManager ==
    /\ plugins = [n \in Names |-> "none"] /\ started = {}
    /\ handles = [lib \in Libraries |-> 0] /\ instances = [n \in Names |-> 0]
    /\ can = NewCan /\ canUp = FALSE
    /\ manager = "none" /\ loads = 0 /\ call = NoCall

-----------------------------------------------------------------------------
(* The objects.                                                            *)

World == [plugins |-> plugins, started |-> started, handles |-> handles,
          instances |-> instances, m |-> m, quiet |-> quiet, gap |-> gap, can |-> can]

Becomes(w) ==
    /\ plugins' = w.plugins /\ started' = w.started /\ handles' = w.handles
    /\ instances' = w.instances /\ m' = w.m /\ quiet' = w.quiet /\ gap' = w.gap
    /\ can' = w.can

Dlopen(w, lib) == [w EXCEPT !.handles[lib] = @ + 1]
Dlclose(w, lib) == [w EXCEPT !.handles[lib] = @ - 1]
Create(w, n) == [w EXCEPT !.instances[n] = @ + 1]

\* instance->stop() of every plugin in S, and their flags.
StopInstances(w, S) ==
    [w EXCEPT !.started = @ \ S,
              !.m = IF Modbus \in S THEN StopTransport(@) ELSE @,
              !.quiet = IF Modbus \in S THEN InitialDelay ELSE @,
              !.can = IF Can \in S THEN StopCan(@) ELSE @]

\* destroyPlugin() of an object that is in plugins_: the destructors stop it.
Destroyed(w, n) ==
    [w EXCEPT !.instances[n] = @ - 1,
              !.m = IF n = Modbus THEN NewDevice ELSE @,
              !.quiet = IF n = Modbus THEN InitialDelay ELSE @,
              !.can = IF n = Can THEN NewCan ELSE @]

\* destroyPlugin() of one that is not: it has not been started.
Discarded(w, n) == [w EXCEPT !.instances[n] = @ - 1]

-----------------------------------------------------------------------------
(* loadPlugin() and unloadPlugin().                                        *)

\* Where loadPlugin() may fail: dlopen, dlsym, createPlugin, an empty name,
\* initialize; a name that is taken is found out on the way.
Failures == {"dlopen", "symbol", "create", "name", "initialize"}

\* Mutant of Refused: the object goes, its library stays open.
Refused_KeepsLibrary(w, n, lib) == Discarded(w, n)

\* The object is not wanted: destroyPlugin() and dlclose().
Refused(w, n, lib) == Dlclose(Discarded(w, n), lib)

LoadPlugin(w, lib, fault) ==
    LET n == NameOf[lib]
        opened == Dlopen(w, lib)
        created == Create(opened, n)
    IN CASE fault = "dlopen" -> w
         [] fault \in {"symbol", "create"} -> Dlclose(opened, lib)
         [] fault = "name" \/ n \in Loaded(w.plugins) \/ fault = "initialize" ->
               Refused(created, n, lib)
         [] OTHER ->
               [created EXCEPT
                   !.plugins[n] = lib,
                   !.m = IF n = Modbus THEN Initialize(NewDevice) ELSE @,
                   !.can = IF n = Can THEN [NewCan EXCEPT !.initialized = TRUE] ELSE @]

\* unloadPlugin(): stop, destroy, dlclose (which does not fail for a handle that
\* dlopen gave), erase.
UnloadPlugin(w, n) ==
    LET stopped == IF n \in w.started THEN StopInstances(w, {n}) ELSE w
    IN [Dlclose(Destroyed(stopped, n), w.plugins[n]) EXCEPT !.plugins[n] = "none"]

-----------------------------------------------------------------------------
(* startPlugin(), startAll().                                              *)

\* instance->start(), with what the device answers to the first poll.
StartInstance(w, n, answers, elapsed) ==
    IF n = Can
    THEN LET c == StartCan(w.can, canUp) IN [ok |-> c.open, w |-> [w EXCEPT !.can = c]]
    ELSE LET attempt == ~w.m.connected /\ CanRetry(w.m) /\ Attempts(w.m)
         IN [ok |-> StartSucceeds(w.m, Reachable),
             w |-> [w EXCEPT
                !.m = IF @.connected THEN @ ELSE StartTransport(@, Reachable, answers, elapsed),
                !.gap = IF attempt THEN w.quiet ELSE @,
                !.quiet = IF attempt THEN Smaller(elapsed, InitialDelay) ELSE @]]

\* Mutant of RollBack: everything that runs is stopped, not only what this call
\* has started.
RollBack_All(w, mine) == StopInstances(w, w.started)

\* The plugins this call has started are stopped again.
RollBack(w, mine) == StopInstances(w, mine)

\* One round of startAll(), done: what the call has done so far.
StartNext(done, n, answers, elapsed) ==
    LET r == StartInstance(done.w, n, answers, elapsed)
    IN IF ~done.ok \/ n \notin Loaded(done.w.plugins) \/ n \in done.w.started THEN done
       ELSE IF r.ok THEN [ok |-> TRUE, mine |-> done.mine \union {n},
                          w |-> [r.w EXCEPT !.started = @ \union {n}]]
       ELSE [ok |-> FALSE, mine |-> done.mine, w |-> RollBack(r.w, done.mine)]

\* startAll(), in the order of the hash map: first, then the other one.
StartAll(w, first, answers, elapsed) ==
    LET second == CHOOSE n \in Names : n # first
        begin == [ok |-> TRUE, mine |-> {}, w |-> w]
    IN StartNext(StartNext(begin, first, answers, elapsed), second, answers, elapsed)

-----------------------------------------------------------------------------
(* The actions.                                                            *)

Returns(op, ok) == call' = [op |-> op, ok |-> ok]

CallLoadPlugin ==
    /\ manager = "alive" /\ loads < MaxLoads
    /\ loads' = loads + 1
    /\ \E lib \in Libraries, fault \in Failures \union {"none"} :
          /\ Becomes(LoadPlugin(World, lib, fault))
          /\ Returns("load", fault = "none" /\ NameOf[lib] \notin Loaded(plugins))
    /\ UNCHANGED <<device, removals, canUp, manager>>

CallUnloadPlugin ==
    /\ manager = "alive"
    /\ \E n \in Loaded(plugins) : Becomes(UnloadPlugin(World, n))
    /\ Returns("unload", TRUE)
    /\ UNCHANGED <<device, removals, canUp, manager, loads>>

CallStartPlugin ==
    /\ manager = "alive"
    /\ \E n \in Loaded(plugins) \ started, answers \in PossibleAnswers, elapsed \in Durations :
          LET r == StartInstance(World, n, answers, elapsed)
          IN /\ Becomes(IF r.ok THEN [r.w EXCEPT !.started = @ \union {n}] ELSE r.w)
             /\ Returns("start", r.ok)
    /\ UNCHANGED <<device, removals, canUp, manager, loads>>

\* stopPlugin() does nothing for a plugin whose flag is not set.
CallStopPlugin ==
    /\ manager = "alive"
    /\ \E n \in started : Becomes(StopInstances(World, {n}))
    /\ Returns("stop", TRUE)
    /\ UNCHANGED <<device, removals, canUp, manager, loads>>

CallStartAll ==
    /\ manager = "alive"
    /\ \E first \in Names, answers \in PossibleAnswers, elapsed \in Durations :
          LET done == StartAll(World, first, answers, elapsed)
          IN Becomes(done.w) /\ Returns("startAll", done.ok)
    /\ UNCHANGED <<device, removals, canUp, manager, loads>>

CallStopAll ==
    /\ manager = "alive"
    /\ Becomes(StopInstances(World, started))
    /\ Returns("stopAll", TRUE)
    /\ UNCHANGED <<device, removals, canUp, manager, loads>>

\* ~PluginManager(): unloadAll(), one plugin after the other.
DestroyManager ==
    /\ manager = "alive"
    /\ LET one == IF Modbus \in Loaded(plugins) THEN UnloadPlugin(World, Modbus) ELSE World
       IN Becomes(IF Can \in Loaded(plugins) THEN UnloadPlugin(one, Can) ELSE one)
    /\ manager' = "destroyed" /\ Returns("unloadAll", TRUE)
    /\ UNCHANGED <<device, removals, canUp, loads>>

\* Steps that are no call of the manager.
Untouched ==
    /\ call' = NoCall
    /\ UNCHANGED <<plugins, started, handles, instances, can, canUp, manager, loads>>

\* getPlugin(), then pollOnce() of the object.
Poll ==
    /\ Modbus \in Loaded(plugins)
    /\ CallPollOnce /\ Untouched

InterfaceChanges ==
    /\ canUp' = ~canUp /\ call' = NoCall
    /\ UNCHANGED <<vars, plugins, started, handles, instances, can, manager, loads>>

ManagerNext ==
    \/ CallLoadPlugin \/ CallUnloadPlugin \/ CallStartPlugin \/ CallStopPlugin
    \/ CallStartAll \/ CallStopAll \/ DestroyManager
    \/ Poll \/ InterfaceChanges
    \/ (DeviceChanges \/ Tick) /\ Untouched

ManagerSpec == Init /\ ManagerInit /\ [][ManagerNext]_managerAllVars

-----------------------------------------------------------------------------
(* Properties.                                                             *)

\* However calls fail, the manager's table is all there is: every entry has its
\* one object and one reference to its library, nothing else has either, only
\* loaded plugins are flagged as started, a CAN socket is open exactly while
\* its plugin is, and an object that was given up holds no connection.
NothingLeaks ==
    manager # "none" =>
        /\ \A lib \in Libraries :
              handles[lib] = Cardinality({n \in Names : plugins[n] = lib})
        /\ \A n \in Names : instances[n] = IF n \in Loaded(plugins) THEN 1 ELSE 0
        /\ started \subseteq Loaded(plugins)
        /\ can.open <=> Can \in started
        /\ m.context <=> Modbus \in Loaded(plugins)
        /\ manager = "destroyed" => Loaded(plugins) = {} /\ ~m.connected

\* While the plugin is started, and only then, sendFrame() lets a frame through;
\* and it lets through exactly the frames that arrive as they were meant: no
\* accepted frame changes its identifier or kind on the way (a standard
\* identifier of 12 bits, a flag bit inside the number), and none that would
\* arrive is refused.
FramesSurvive ==
    manager # "none" =>
        {f \in Frames : SendFrame(can, f)} =
            IF Can \in started THEN SurvivingFrames ELSE {}

\* "如果中途失败，停止本次已经启动的插件": a startAll() that fails leaves the same
\* plugins started as before, whichever it got to first, and no connection open
\* that was not open before; one that succeeds leaves all of them started.
StartAllIsAtomic ==
    [][call'.op = "startAll" =>
          IF call'.ok THEN started' = Loaded(plugins)
          ELSE /\ started' = started
               /\ can'.open => can.open
               /\ m'.connected => m.connected]_managerAllVars

=============================================================================
