------------------------------ MODULE Background ------------------------------
(***************************************************************************)
(* The parts of the server that run by themselves, in one model: the       *)
(* semantic index, the monitor of the Wi-Fi radio, and the job that        *)
(* installs a local Telegram server. They share a process and no state, so *)
(* that a behaviour runs one of them under one kind of trouble.            *)
(***************************************************************************)
EXTENDS SemanticIndex, Wifi, LocalApi

vars == <<part, trouble, vars_semantic, vars_wifi, vars_local>>

Init == Chosen /\ SemanticInit /\ WifiInit /\ LocalApiInit

InSemantic(A) == part = "semantic" /\ A /\ UNCHANGED <<part, trouble, vars_wifi, vars_local>>
InWifi(A) == part = "wifi" /\ A /\ UNCHANGED <<part, trouble, vars_semantic, vars_local>>
InLocalApi(A) == part = "localapi" /\ A /\ UNCHANGED <<part, trouble, vars_semantic, vars_wifi>>

Next == InSemantic(SemanticNext) \/ InWifi(WifiNext) \/ InLocalApi(LocalApiNext)

\* Threads and tasks of the process go on: the worker of the index, the loop of the monitor,
\* a request that has begun, a job that has been created. Nobody has to make a request, and
\* nothing has to fail.
Fairness == /\ WF_vars(InSemantic(WorkerStep))
            /\ WF_vars(InWifi(MonitorReads)) /\ WF_vars(InWifi(MonitorCompares))
            /\ WF_vars(InWifi(MonitorSets)) /\ WF_vars(InWifi(WifiStep))
            /\ \A j \in Setups : WF_vars(InLocalApi(SetupStep(j)))

Spec == Init /\ [][Next]_vars /\ Fairness
=============================================================================
