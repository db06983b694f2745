--------------------------- MODULE AgentLifecycle ---------------------------
(***************************************************************************)
(* What an agent promises to a coordinator that only watches it, as a      *)
(* specification of one record of AgentStatus.                             *)
(*                                                                         *)
(* AgentRun implements it until somebody calls CancelBenchmark (this       *)
(* repository's coordinator never does); RunEngine runs against it, with   *)
(* one such record for each instance.                                      *)
(***************************************************************************)
EXTENDS AgentStatus

VARIABLE agent

LifecycleInit == agent = FreshAgent

LifecycleNext == agent' \in AgentSteps(agent)

LifecycleSpec == LifecycleInit /\ [][LifecycleNext]_agent
=============================================================================
