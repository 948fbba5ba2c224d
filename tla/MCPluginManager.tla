-------------------------- MODULE MCPluginManager --------------------------
(* The two programs a Modbus plugin lives in: one that creates it for its   *)
(* own DeviceManager, and one that loads it with a PluginManager.           *)
EXTENDS PluginManager

MCInit == Init /\ (NoManager \/ ManagerInit)

Standalone == manager = "none" /\ Next /\ UNCHANGED managerVars
Managed == manager # "none" /\ ManagerNext

MCNext == Standalone \/ Managed

\* Somebody goes on polling, and time passes.
Polling ==
    IF manager = "none" THEN CallPollOnce /\ UNCHANGED managerVars ELSE Poll
Time ==
    IF manager = "none" THEN Tick /\ UNCHANGED managerVars ELSE Tick /\ Untouched

MCFairSpec ==
    /\ MCInit /\ [][MCNext]_managerAllVars
    /\ WF_managerAllVars(Polling) /\ WF_managerAllVars(Time)
=============================================================================
