------------------------------ MODULE MCParts ------------------------------
(***************************************************************************)
(* One run for five modules that have safety properties only: the agent's  *)
(* NVIDIA reader, the process scan, the applet's own sensors, its list of  *)
(* nodes, and its requests to their agents.  They share no variable, so a  *)
(* behaviour moves only the part that is in focus: their states add up     *)
(* instead of multiplying.                                                 *)
(***************************************************************************)
EXTENDS GpuRounds, ProcScan, LocalSensors, NodeList, AgentRequests

VARIABLE focus

(* The applet's sampler: two processes that stay; the agent's: processes   *)
(* that come and go.                                                       *)
MCMaxTime == [d \in {"applet", "agent"} |-> IF d = "applet" THEN 7 ELSE 3]
MCMaxStarts == [d \in {"applet", "agent"} |-> IF d = "applet" THEN 0 ELSE 2]

Spelling(host, scheme, port, slash) ==
    [host |-> host, scheme |-> scheme, port |-> port, slash |-> slash]

Host(host) == Spelling(host, "", NoPort, FALSE)
Full(host) == Spelling(host, "", DefaultPort, FALSE)
Socket == Spelling("n1", "ws://", DefaultPort, TRUE)
Slash == Spelling("", "", NoPort, TRUE)

MCSpellings == {Host("n1"), Full("n1"), Socket, Host("n2"), Full("n2"), Slash}
MCDefaults == <<Full("n1"), Full("n2")>>
MCSavedLists == {<<>>, <<Host("n1"), Full("n1"), Full("n2")>>, <<Slash, Socket, Host("n1")>>}
MCEnvNodes == <<Host("n2")>>

allVars == <<focus, vars, scanVars, sensorVars, listVars, askVars>>

(* The parts that are not in focus keep one initial state.                 *)
MCInit ==
    /\ focus \in {"gpu", "scan", "sensors", "list", "requests"}
    /\ Init /\ ScanInit /\ SensorsInit /\ ListInit /\ AskInit
    /\ focus # "scan" => driver = "agent"
    /\ focus # "sensors" => energy = 0 /\ rapl = "absent"
    /\ focus # "list" => file = NoFile

MCNext ==
    \/ focus = "gpu" /\ Next /\ UNCHANGED <<focus, scanVars, sensorVars, listVars, askVars>>
    \/ focus = "scan" /\ ScanNext /\ UNCHANGED <<focus, vars, sensorVars, listVars, askVars>>
    \/ focus = "sensors" /\ SensorsNext /\ UNCHANGED <<focus, vars, scanVars, listVars, askVars>>
    \/ focus = "list" /\ ListNext /\ UNCHANGED <<focus, vars, scanVars, sensorVars, askVars>>
    \/ focus = "requests" /\ AskNext /\ UNCHANGED <<focus, vars, scanVars, sensorVars, listVars>>

MCSpec == MCInit /\ [][MCNext]_allVars

(* The type invariants of the five modules.                                *)
PartsTypeOK == TypeOK /\ ScanTypeOK /\ SensorsTypeOK /\ ListTypeOK /\ AskTypeOK
=============================================================================
