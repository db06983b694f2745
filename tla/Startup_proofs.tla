---------------------------- MODULE Startup_proofs ----------------------------
(***************************************************************************)
(* Theorems about Startup for every set of instance types and every number *)
(* of delays, from one inductive invariant that follows a public IP from   *)
(* AWS to the agent: IP, certificates, configuration, server; and a        *)
(* measure of what is left to do, which bounds every wait.                 *)
(***************************************************************************)
EXTENDS Startup, TLAPS

\* An IP is only known from a wait that ended well, and nothing follows that.
IpsAreAnswers ==
  \A t \in publicIp : wait[t].at = "ok" /\ st[t] = "Starting"

\* Certificates are made once, for all IPs there will ever be.
CertsAreComplete ==
  /\ pc \in {"waiting", "certificates"} => certs = {}
  /\ pc \in {"uploading", "ready"} => certs = publicIp
  /\ pc \in {"certificates", "uploading", "ready"} => publicIp # {}

\* What S3 has tells who has certificates.
ConfigsFollowCerts ==
  /\ pc \in {"waiting", "certificates"} => \A t \in Types : config[t] = "none"
  /\ \A t \in Types : config[t] = "tls" => t \in certs
  /\ \A t \in Types : config[t] = "plain" => t \notin certs
  /\ pc = "ready" => \A t \in Types : config[t] # "none"

ServersHaveConfig == \A t \in Types : agent[t] = "serving" => config[t] = "tls"

IInv ==
  /\ TypeOK
  /\ IpsAreAnswers /\ CertsAreComplete /\ ConfigsFollowCerts /\ ServersHaveConfig

-----------------------------------------------------------------------------
\* A step of wait_for_resource() ends or stays within its delays.
LEMMA WaitStepsType ==
  ASSUME NEW w \in Wait, NEW Answers, NEW x \in WaitSteps(w, Answers)
  PROVE  x \in Wait /\ w.at \in {"check", "sleep"}
<1> USE StartupAssumption DEF Wait, Ended
<1>1. CASE w.at = "check"
  <2>1. PICK a \in Answers \cup {"timeout"} :
          x = CASE a = "true" -> Ended("ok")
                [] a = "false" -> [w EXCEPT !.at = "sleep"]
                [] OTHER -> Ended("failed")
    BY <1>1 DEF WaitSteps
  <2> QED
    BY <1>1, <2>1
<1>2. CASE w.at = "sleep"
  <2>1. \/ HasDelay(w) /\ x = [at |-> "check", tries |-> w.tries + 1]
        \/ x = Ended("failed")
    BY <1>2 DEF WaitSteps
  <2> QED
    BY <1>2, <2>1 DEF HasDelay
<1>3. w.at \in {"check", "sleep"}
  BY DEF WaitSteps
<1> QED
  BY <1>1, <1>2, <1>3

\* The same of a log task.
LEMMA LogTaskStepsType ==
  ASSUME TypeOK, NEW t \in Types, NEW x \in LogTaskSteps(t)
  PROVE  x \in [at : LogSteps \cup {"none"}, tries : 0 .. Delays - 1]
<1> USE StartupAssumption DEF TypeOK, LogSteps
<1>1. CASE log[t].at \in {"check", "sleep"}
  <2>1. log[t] \in Wait
    BY <1>1 DEF Wait
  <2>2. PICK Answers : x \in WaitSteps(log[t], Answers)
    BY <1>1 DEF LogTaskSteps
  <2>3. x \in Wait
    BY <2>1, <2>2, WaitStepsType
  <2> QED
    BY <2>3 DEF Wait
<1>2. CASE log[t].at \in {"ok", "streaming"}
  <2>1. x = Ended("streaming") \/ x = Ended("failed")
    BY <1>2 DEF LogTaskSteps
  <2> QED
    BY <2>1 DEF Ended
<1>3. log[t].at \in {"check", "sleep", "ok", "streaming"}
  BY DEF LogTaskSteps
<1> QED
  BY <1>1, <1>2, <1>3

LEMMA InitInv == Init => IInv
<1> SUFFICES ASSUME Init
             PROVE  IInv
  OBVIOUS
<1> USE StartupAssumption DEF Init
<1>1. TypeOK
  <2>1. NewWait \in Wait /\ NoTask \in [at : LogSteps \cup {"none"}, tries : 0 .. Delays - 1]
    BY DEF NewWait, NoTask, Ended, Wait
  <2> QED
    BY <2>1 DEF TypeOK, InitSteps
<1>2. IpsAreAnswers /\ CertsAreComplete /\ ConfigsFollowCerts /\ ServersHaveConfig
  BY DEF IpsAreAnswers, CertsAreComplete, ConfigsFollowCerts, ServersHaveConfig
<1> QED
  BY <1>1, <1>2 DEF IInv

LEMMA NextInv == IInv /\ [Next]_vars => IInv'
<1> SUFFICES ASSUME IInv, [Next]_vars
             PROVE  IInv'
  OBVIOUS
<1> USE StartupAssumption
<1> USE DEF IInv, TypeOK, IpsAreAnswers, CertsAreComplete, ConfigsFollowCerts,
            ServersHaveConfig, InitSteps, Bootstrap, AgentSteps, Launched, Elsewhere, Outside, Machine
<1>1. CASE InstancesAwaited
  BY <1>1 DEF InstancesAwaited
<1>2. CASE GenerateCertificates
  BY <1>2 DEF GenerateCertificates
<1>3. CASE StartStreaming
  <2>1. LogTasks \in [Types -> [at : LogSteps \cup {"none"}, tries : 0 .. Delays - 1]]
    BY DEF LogTasks, NewWait, NoTask, Ended, LogSteps
  <2> QED
    BY <1>3, <2>1 DEF StartStreaming
<1>4. CASE CoordinatorEnds
  <2>1. NoTask \in [at : LogSteps \cup {"none"}, tries : 0 .. Delays - 1]
    BY DEF NoTask, Ended
  <2> QED
    BY <1>4, <2>1 DEF CoordinatorEnds
<1>5. ASSUME NEW t \in Types, Boots(t)
      PROVE  IInv'
  BY <1>5 DEF Boots
<1>6. ASSUME NEW t \in Types, Stops(t)
      PROVE  IInv'
  BY <1>6 DEF Stops
<1>7. ASSUME NEW t \in Types, WaitForInstance(t)
      PROVE  IInv'
  <2>1. PICK w \in WaitSteps(wait[t], RunningAnswers(t)) :
          /\ wait' = [wait EXCEPT ![t] = w]
          /\ st' = CASE w.at = "ok" -> [st EXCEPT ![t] = "Starting"]
                     [] w.at = "failed" -> [st EXCEPT ![t] = "Failed"]
                     [] OTHER -> st
          /\ publicIp' = IF w.at = "ok" THEN publicIp \cup ({t} \cap address) ELSE publicIp
    BY <1>7 DEF WaitForInstance
  <2>2. w \in Wait /\ wait[t].at \in {"check", "sleep"}
    BY WaitStepsType
  <2>3. t \notin publicIp
    BY <2>2
  <2>4. TypeOK'
    <3>1. wait' \in [Types -> Wait]
      BY <2>1, <2>2
    <3>2. st' \in [Types -> {"Launching", "Starting", "Failed"}]
      BY <2>1
    <3> QED
      BY <1>7, <2>1, <3>1, <3>2 DEF WaitForInstance
  <2>5. IpsAreAnswers'
    BY <2>1, <2>3
  <2>6. (CertsAreComplete /\ ConfigsFollowCerts /\ ServersHaveConfig)'
    BY <1>7 DEF WaitForInstance
  <2> QED
    BY <2>4, <2>5, <2>6
<1>8. ASSUME NEW t \in Types, UploadConfig(t)
      PROVE  IInv'
  BY <1>8 DEF UploadConfig, Uploading, ConfigFor
<1>9. ASSUME NEW t \in Types, LogTask(t)
      PROVE  IInv'
  <2>1. PICK l \in LogTaskSteps(t) : log' = [log EXCEPT ![t] = l]
    BY <1>9 DEF LogTask
  <2>2. l \in [at : LogSteps \cup {"none"}, tries : 0 .. Delays - 1]
    BY LogTaskStepsType
  <2> QED
    BY <1>9, <2>1, <2>2 DEF LogTask
<1>10. ASSUME NEW t \in Types, BootstrapStep(t)
       PROVE  IInv'
  <2>1. PICK a \in {"nvme", "nix", "config", "exited", "failed"} :
          agent' = [agent EXCEPT ![t] = a]
    BY <1>10 DEF BootstrapStep
  <2> QED
    BY <1>10, <2>1 DEF BootstrapStep
<1>11. ASSUME NEW t \in Types, TimePasses(t)
       PROVE  IInv'
  BY <1>11 DEF TimePasses
<1>12. ASSUME NEW t \in Types, PollConfig(t)
       PROVE  IInv'
  <2>1. PICK a \in {"failed", "serving", "sleep"} :
          agent' = [agent EXCEPT ![t] = a] /\ (a = "serving" => config[t] = "tls")
    BY <1>12 DEF PollConfig
  <2> QED
    BY <1>12, <2>1 DEF PollConfig
<1>13. ASSUME NEW t \in Types, DownloadFails(t)
       PROVE  IInv'
  BY <1>13 DEF DownloadFails
<1>14. ASSUME NEW t \in Types, NextPoll(t)
       PROVE  IInv'
  BY <1>14 DEF NextPoll
<1>15. ASSUME NEW t \in Types, Exits(t)
       PROVE  IInv'
  BY <1>15 DEF Exits
<1>16. ASSUME NEW t \in Types, UploadHangs(t) \/ DownloadHangs(t)
       PROVE  IInv'
  BY <1>16 DEF UploadHangs, DownloadHangs, Requests
<1>17. CASE UNCHANGED vars
  BY <1>17 DEF vars
<1> QED
  BY <1>1, <1>2, <1>3, <1>4, <1>5, <1>6, <1>7, <1>8, <1>9, <1>10, <1>11, <1>12, <1>13, <1>14,
     <1>15, <1>16, <1>17
  DEF Next, Phase, CoordinatorStep, AgentStep

-----------------------------------------------------------------------------
\* The inductive invariant holds in every behaviour, fair or not.
THEOREM InductiveInvariant == Spec => []IInv
<1>1. Init => IInv
  BY InitInv
<1>2. IInv /\ [Next]_vars => IInv'
  BY NextInv
<1> QED
  BY <1>1, <1>2, PTL DEF Spec

\* Every variable keeps its type: among them the numbers of the waits, whose
\* delays come from the backoff of wait_for_resource(), and that certificates go
\* to instances with an address only.
THEOREM TypeCorrect == Spec => []TypeOK
<1>1. IInv => TypeOK
  BY DEF IInv
<1> QED
  BY <1>1, InductiveInvariant, PTL

\* An agent that opens its port is known to the coordinator by address and taken
\* for running, and what initialization hands to the engine has an address with
\* certificates: upload_configs() against download_config_with_tls().
THEOREM ServersAreContacted == Spec => []OnlyContactedServe
<1>1. IInv => OnlyContactedServe
  <2> SUFFICES ASSUME IInv
               PROVE  OnlyContactedServe
    OBVIOUS
  <2> USE DEF IInv, TypeOK
  <2>1. \A t \in Types : agent[t] = "serving" => t \in publicIp /\ st[t] = "Starting"
    BY DEF ServersHaveConfig, ConfigsFollowCerts, IpsAreAnswers
  <2>2. ASSUME pc = "ready"
        PROVE  publicIp # {} /\ \A t \in publicIp : st[t] = "Starting" /\ config[t] = "tls"
    <3>1. publicIp # {} /\ certs = publicIp /\ publicIp \subseteq Types
      BY <2>2 DEF CertsAreComplete, Launched
    <3>2. \A t \in publicIp : config[t] = "tls"
      BY <2>2, <3>1 DEF ConfigsFollowCerts
    <3> QED
      BY <3>1, <3>2 DEF IpsAreAnswers
  <2> QED
    BY <2>1, <2>2 DEF OnlyContactedServe
<1> QED
  BY <1>1, InductiveInvariant, PTL
-----------------------------------------------------------------------------
(* What keeps StartupSettles from hanging, as far as it can be said without *)
(* fairness: there is only so much left to do.                              *)

\* How many steps a wait or a log task has left at most.
Left(w) ==
  CASE w.at = "check" -> 2 * (Delays - w.tries) + 2
    [] w.at = "sleep" -> 2 * (Delays - w.tries) + 1
    [] w.at = "ok" -> 2
    [] w.at = "streaming" -> 1
    [] OTHER -> 0

\* The same of an agent that has not served yet; it may poll any number of times
\* before its timeout, but not after it.
AgentLeft(t) ==
  CASE agent[t] \in {"off", "fetch"} -> 6
    [] agent[t] = "nvme" -> 5
    [] agent[t] = "nix" -> 4
    [] agent[t] \in {"config", "sleep"} /\ t \notin late -> 3
    [] agent[t] = "sleep" /\ t \in late -> 2
    [] agent[t] = "config" /\ t \in late -> 1
    [] OTHER -> 0

\* An instance is launching exactly as long as its wait goes on, a machine that
\* does not run has no agent, and only an agent that polls can be late.
WaitsDecide ==
  /\ \A t \in Launched : st[t] = "Launching" <=> wait[t].at \in {"check", "sleep"}
  /\ \A t \in Types : ec2[t] \in {"none", "pending"} => agent[t] = "off"
  /\ \A t \in late : agent[t] \in {"config", "sleep"}

\* Each step of a wait, of a log task, of a bootstrap and, once it is late, of a
\* poll of S3 leaves less to do, and nothing else leaves more.
Nearer(t) ==
  /\ Left(wait'[t]) <= Left(wait[t]) /\ AgentLeft(t)' <= AgentLeft(t)
  /\ WaitForInstance(t) => Left(wait'[t]) < Left(wait[t])
  /\ LogTask(t) => Left(log'[t]) < Left(log[t])
  /\ StartStreaming \/ Left(log'[t]) <= Left(log[t])
  /\ BootstrapStep(t) \/ TimePasses(t) => AgentLeft(t)' < AgentLeft(t)
  /\ t \in late /\ AgentStep(t) => AgentLeft(t)' < AgentLeft(t)

SettlingComesNearer == \A t \in Types : Nearer(t)

LEMMA WaitStepsLower ==
  ASSUME NEW w \in Wait, NEW Answers, NEW x \in WaitSteps(w, Answers)
  PROVE  Left(w) \in Nat /\ Left(x) \in Nat /\ Left(x) < Left(w)
<1> USE StartupAssumption DEF Wait, Ended
<1>1. Left(Ended("ok")) = 2 /\ Left(Ended("failed")) = 0
  BY DEF Left
<1>2. CASE w.at = "check"
  <2>1. PICK a \in Answers \cup {"timeout"} :
          x = CASE a = "true" -> Ended("ok")
                [] a = "false" -> [w EXCEPT !.at = "sleep"]
                [] OTHER -> Ended("failed")
    BY <1>2 DEF WaitSteps
  <2>2. x \in {Ended("ok"), Ended("failed"), [at |-> "sleep", tries |-> w.tries]}
    BY <2>1
  <2>3. Left(w) = 2 * (Delays - w.tries) + 2 /\ Left(w) >= 4 /\ Left(w) \in Nat
    BY <1>2 DEF Left
  <2>4. ASSUME x = [at |-> "sleep", tries |-> w.tries]
        PROVE  Left(x) = 2 * (Delays - w.tries) + 1
    BY <2>4 DEF Left
  <2> QED
    BY <1>1, <2>2, <2>3, <2>4
<1>3. CASE w.at = "sleep"
  <2>1. \/ w.tries + 1 < Delays /\ x = [at |-> "check", tries |-> w.tries + 1]
        \/ x = Ended("failed")
    BY <1>3 DEF WaitSteps, HasDelay
  <2>2. Left(w) = 2 * (Delays - w.tries) + 1 /\ Left(w) >= 3 /\ Left(w) \in Nat
    BY <1>3 DEF Left
  <2>3. ASSUME w.tries + 1 < Delays, x = [at |-> "check", tries |-> w.tries + 1]
        PROVE  Left(x) = 2 * (Delays - w.tries)
    BY <2>3 DEF Left
  <2> QED
    BY <1>1, <2>1, <2>2, <2>3
<1> QED
  BY <1>2, <1>3, WaitStepsType

LEMMA LogTaskStepsLower ==
  ASSUME TypeOK, NEW t \in Types, NEW x \in LogTaskSteps(t)
  PROVE  Left(x) \in Nat /\ Left(x) < Left(log[t])
<1> USE StartupAssumption DEF TypeOK, LogSteps
<1>1. CASE log[t].at \in {"check", "sleep"}
  <2>1. log[t] \in Wait
    BY <1>1 DEF Wait
  <2>2. PICK Answers : x \in WaitSteps(log[t], Answers)
    BY <1>1 DEF LogTaskSteps
  <2> QED
    BY <2>1, <2>2, WaitStepsLower
<1>2. CASE log[t].at = "ok"
  <2>1. x = Ended("streaming") \/ x = Ended("failed")
    BY <1>2 DEF LogTaskSteps
  <2> QED
    BY <1>2, <2>1 DEF Ended, Left
<1>3. CASE log[t].at = "streaming"
  <2>1. x = Ended("failed")
    BY <1>3 DEF LogTaskSteps
  <2> QED
    BY <1>3, <2>1 DEF Ended, Left
<1> QED
  BY <1>1, <1>2, <1>3 DEF LogTaskSteps

LEMMA LeftType ==
  ASSUME TypeOK, NEW t \in Types
  PROVE  /\ Left(wait[t]) \in 0 .. 2 * Delays + 2 /\ Left(log[t]) \in 0 .. 2 * Delays + 2
         /\ AgentLeft(t) \in 0 .. 6
<1> USE StartupAssumption DEF TypeOK
<1>1. ASSUME NEW w, w.tries \in 0 .. Delays - 1
      PROVE  Left(w) \in 0 .. 2 * Delays + 2
  <2>1. /\ 2 * (Delays - w.tries) + 2 \in 0 .. 2 * Delays + 2
        /\ 2 * (Delays - w.tries) + 1 \in 0 .. 2 * Delays + 2
        /\ 2 \in 0 .. 2 * Delays + 2 /\ 1 \in 0 .. 2 * Delays + 2 /\ 0 \in 0 .. 2 * Delays + 2
    BY <1>1
  <2> QED
    BY <2>1 DEF Left
<1>2. wait[t].tries \in 0 .. Delays - 1 /\ log[t].tries \in 0 .. Delays - 1
  BY DEF Wait
<1>3. AgentLeft(t) \in 0 .. 6
  BY DEF AgentLeft
<1> QED
  BY <1>1, <1>2, <1>3

LEMMA NoTaskLeft == Left(NoTask) = 0
BY DEF Left, NoTask, Ended

LEMMA WaitsDecideInit == Init => WaitsDecide
BY DEF Init, WaitsDecide, NewWait, Launched

LEMMA WaitsDecideNext == IInv /\ WaitsDecide /\ [Next]_vars => WaitsDecide'
<1> SUFFICES ASSUME IInv, WaitsDecide, [Next]_vars
             PROVE  WaitsDecide'
  OBVIOUS
<1> USE DEF IInv, TypeOK, WaitsDecide, Launched, Elsewhere, Outside, Machine
<1>1. CASE Phase \/ CoordinatorEnds
  BY <1>1 DEF Phase, InstancesAwaited, GenerateCertificates, StartStreaming, CoordinatorEnds
<1>2. ASSUME NEW t \in Types, WaitForInstance(t)
      PROVE  WaitsDecide'
  <2>1. PICK w \in WaitSteps(wait[t], RunningAnswers(t)) :
          /\ wait' = [wait EXCEPT ![t] = w]
          /\ st' = CASE w.at = "ok" -> [st EXCEPT ![t] = "Starting"]
                     [] w.at = "failed" -> [st EXCEPT ![t] = "Failed"]
                     [] OTHER -> st
    BY <1>2 DEF WaitForInstance
  <2>2. w \in Wait /\ wait[t].at \in {"check", "sleep"}
    BY WaitStepsType
  <2>3. t \in Launched /\ UNCHANGED <<ec2, agent, late>>
    BY <1>2 DEF WaitForInstance
  <2>4. w.at \in {"check", "sleep", "ok", "failed"}
    BY <2>2 DEF Wait
  <2> QED
    BY <2>1, <2>2, <2>3, <2>4
<1>3. ASSUME NEW t \in Types, UploadConfig(t) \/ LogTask(t) \/ UploadHangs(t) \/ DownloadHangs(t)
      PROVE  WaitsDecide'
  BY <1>3 DEF UploadConfig, LogTask, UploadHangs, DownloadHangs
<1>4. ASSUME NEW t \in Types, Boots(t)
      PROVE  WaitsDecide'
  BY <1>4 DEF Boots
<1>5. ASSUME NEW t \in Types, Stops(t)
      PROVE  WaitsDecide'
  BY <1>5 DEF Stops
<1>6. ASSUME NEW t \in Types, BootstrapStep(t)
      PROVE  WaitsDecide'
  BY <1>6 DEF BootstrapStep, Bootstrap
<1>7. ASSUME NEW t \in Types, TimePasses(t) \/ DownloadFails(t) \/ NextPoll(t) \/ Exits(t)
      PROVE  WaitsDecide'
  <2>1. CASE TimePasses(t)
    BY <2>1 DEF TimePasses
  <2>2. CASE DownloadFails(t)
    BY <2>2 DEF DownloadFails
  <2>3. CASE NextPoll(t)
    BY <2>3 DEF NextPoll
  <2>4. CASE Exits(t)
    BY <2>4 DEF Exits
  <2> QED
    BY <1>7, <2>1, <2>2, <2>3, <2>4
<1>8. ASSUME NEW t \in Types, PollConfig(t)
      PROVE  WaitsDecide'
  BY <1>8 DEF PollConfig
<1>9. CASE UNCHANGED vars
  BY <1>9 DEF vars
<1> QED
  BY <1>1, <1>2, <1>3, <1>4, <1>5, <1>6, <1>7, <1>8, <1>9 DEF Next, CoordinatorStep, AgentStep

\* The parts of Nearer that are about the coordinator and about the agent.
CoordinatorNearer(t) ==
  /\ Left(wait'[t]) <= Left(wait[t])
  /\ WaitForInstance(t) => Left(wait'[t]) < Left(wait[t])
  /\ LogTask(t) => Left(log'[t]) < Left(log[t])
  /\ StartStreaming \/ Left(log'[t]) <= Left(log[t])

AgentNearer(t) ==
  /\ AgentLeft(t)' <= AgentLeft(t)
  /\ BootstrapStep(t) \/ TimePasses(t) => AgentLeft(t)' < AgentLeft(t)
  /\ t \in late /\ AgentStep(t) => AgentLeft(t)' < AgentLeft(t)

LEMMA CoordinatorIsNearer ==
  ASSUME IInv, Next, NEW t \in Types
  PROVE  CoordinatorNearer(t)
<1> USE DEF IInv, TypeOK
<1>1. Left(wait[t]) \in Nat /\ Left(log[t]) \in Nat
  BY LeftType
<1>2. WaitForInstance(t) => Left(wait'[t]) \in Nat /\ Left(wait'[t]) < Left(wait[t])
  <2> SUFFICES ASSUME WaitForInstance(t)
               PROVE  Left(wait'[t]) \in Nat /\ Left(wait'[t]) < Left(wait[t])
    OBVIOUS
  <2>1. PICK w \in WaitSteps(wait[t], RunningAnswers(t)) : wait' = [wait EXCEPT ![t] = w]
    BY DEF WaitForInstance
  <2>2. Left(w) \in Nat /\ Left(w) < Left(wait[t])
    BY WaitStepsLower
  <2> QED
    BY <2>1, <2>2
<1>3. LogTask(t) => Left(log'[t]) \in Nat /\ Left(log'[t]) < Left(log[t])
  <2> SUFFICES ASSUME LogTask(t)
               PROVE  Left(log'[t]) \in Nat /\ Left(log'[t]) < Left(log[t])
    OBVIOUS
  <2>1. PICK l \in LogTaskSteps(t) : log' = [log EXCEPT ![t] = l]
    BY DEF LogTask
  <2>2. Left(l) \in Nat /\ Left(l) < Left(log[t])
    BY LogTaskStepsLower
  <2> QED
    BY <2>1, <2>2
<1>4. wait'[t] = wait[t] \/ WaitForInstance(t)
  <2>1. ASSUME NEW u \in Types, WaitForInstance(u)
        PROVE  wait'[t] = wait[t] \/ WaitForInstance(t)
    BY <2>1 DEF WaitForInstance
  <2>2. UNCHANGED wait \/ \E u \in Types : WaitForInstance(u)
    BY DEF Next, Phase, CoordinatorStep, AgentStep, InstancesAwaited, GenerateCertificates,
           StartStreaming, CoordinatorEnds, Boots, Stops, UploadConfig, LogTask, BootstrapStep,
           TimePasses, PollConfig, DownloadFails, NextPoll, Exits, UploadHangs, DownloadHangs, Machine
  <2> QED
    BY <2>1, <2>2
<1>5. log'[t] = log[t] \/ LogTask(t) \/ log'[t] = NoTask \/ StartStreaming
  <2>1. ASSUME NEW u \in Types, LogTask(u)
        PROVE  log'[t] = log[t] \/ LogTask(t)
    BY <2>1 DEF LogTask
  <2>2. UNCHANGED log \/ CoordinatorEnds \/ StartStreaming \/ \E u \in Types : LogTask(u)
    BY DEF Next, Phase, CoordinatorStep, AgentStep, InstancesAwaited, GenerateCertificates,
           Boots, Stops, WaitForInstance, UploadConfig, BootstrapStep, TimePasses, PollConfig,
           DownloadFails, NextPoll, Exits, UploadHangs, DownloadHangs, Machine
  <2> QED
    BY <2>1, <2>2 DEF CoordinatorEnds
<1>6. wait'[t] = wait[t] => Left(wait'[t]) = Left(wait[t])
  BY DEF Left
<1>7. /\ log'[t] = log[t] => Left(log'[t]) = Left(log[t])
      /\ log'[t] = NoTask => Left(log'[t]) = 0
  BY NoTaskLeft DEF Left
<1> QED
  BY <1>1, <1>2, <1>3, <1>4, <1>5, <1>6, <1>7 DEF CoordinatorNearer

LEMMA AgentIsNearer ==
  ASSUME IInv, WaitsDecide, Next, NEW t \in Types
  PROVE  AgentNearer(t)
<1> USE DEF IInv, TypeOK, AgentLeft, Bootstrap, Machine
<1>1. CASE agent'[t] = agent[t] /\ (t \in late' <=> t \in late)
  <2>1. AgentLeft(t)' = AgentLeft(t)
    BY <1>1
  <2>2. ~(BootstrapStep(t) \/ TimePasses(t) \/ PollConfig(t) \/ NextPoll(t))
    <3>1. ~BootstrapStep(t)
      BY <1>1 DEF BootstrapStep
    <3>2. ~TimePasses(t)
      BY <1>1 DEF TimePasses
    <3>3. ~PollConfig(t)
      BY <1>1 DEF PollConfig
    <3>4. ~NextPoll(t)
      BY <1>1 DEF NextPoll
    <3> QED
      BY <3>1, <3>2, <3>3, <3>4
  <2>3. AgentLeft(t) \in Nat
    BY LeftType
  <2> QED
    BY <2>1, <2>2, <2>3 DEF AgentNearer, AgentStep
<1>2. CASE Boots(t)
  <2>1. AgentLeft(t) = 6 /\ AgentLeft(t)' = 6
    BY <1>2 DEF Boots, WaitsDecide
  <2>2. t \notin late /\ agent[t] = "off"
    BY <1>2 DEF Boots, WaitsDecide
  <2> QED
    BY <2>1, <2>2 DEF AgentNearer, BootstrapStep, TimePasses
<1>3. CASE Stops(t) \/ Exits(t)
  <2>1. AgentLeft(t)' = 0 /\ AgentLeft(t) \in Nat
    BY <1>3, LeftType DEF Stops, Exits
  <2>2. ~BootstrapStep(t) \/ AgentLeft(t) > 0
    BY DEF BootstrapStep
  <2>3. ~TimePasses(t) \/ AgentLeft(t) > 0
    BY DEF TimePasses
  <2>4. t \notin late \/ ~AgentStep(t) \/ AgentLeft(t) > 0
    BY DEF AgentStep, BootstrapStep, PollConfig, NextPoll
  <2> QED
    BY <2>1, <2>2, <2>3, <2>4 DEF AgentNearer
<1>4. CASE BootstrapStep(t)
  <2>1. t \notin late /\ late' = late /\ agent[t] \in {"fetch", "nvme", "nix"}
    BY <1>4 DEF BootstrapStep, WaitsDecide
  <2>2. \/ agent'[t] = [fetch |-> "nvme", nvme |-> "nix", nix |-> "config"][agent[t]]
        \/ agent'[t] \in {"exited", "failed"}
    BY <1>4 DEF BootstrapStep
  <2>3. AgentLeft(t) \in Nat /\ AgentLeft(t)' \in Nat /\ AgentLeft(t)' < AgentLeft(t)
    BY <2>1, <2>2
  <2> QED
    BY <2>3 DEF AgentNearer
<1>5. CASE TimePasses(t)
  <2>1. /\ agent[t] \in {"config", "sleep"} /\ t \notin late
        /\ agent'[t] = agent[t] /\ t \in late'
    BY <1>5 DEF TimePasses
  <2>2. AgentLeft(t) = 3 /\ AgentLeft(t)' \in {1, 2}
    BY <2>1
  <2> QED
    BY <2>2 DEF AgentNearer
<1>6. CASE PollConfig(t)
  <2>1. agent[t] = "config" /\ agent'[t] \in {"failed", "serving", "sleep"}
    BY <1>6 DEF PollConfig
  <2>2. ~BootstrapStep(t) /\ ~TimePasses(t)
    BY <1>6, <2>1 DEF BootstrapStep, PollConfig, TimePasses
  <2>3. CASE t \in late
    <3>1. agent'[t] = "failed" /\ AgentLeft(t) = 1
      BY <1>6, <2>3 DEF PollConfig, TlsTimeout
    <3>2. AgentLeft(t)' = 0
      BY <3>1
    <3> QED
      BY <2>2, <3>1, <3>2 DEF AgentNearer
  <2>4. CASE t \notin late
    <3>1. AgentLeft(t) = 3 /\ t \notin late'
      BY <1>6, <2>1, <2>4 DEF PollConfig
    <3>2. AgentLeft(t)' \in {0, 3}
      BY <2>1, <3>1
    <3> QED
      BY <2>2, <2>4, <3>1, <3>2 DEF AgentNearer
  <2> QED
    BY <2>3, <2>4
<1>7. CASE DownloadFails(t)
  <2>1. agent[t] = "config" /\ agent'[t] = "sleep" /\ t \notin late /\ t \notin late'
    BY <1>7 DEF DownloadFails, TlsTimeout
  <2>2. AgentLeft(t) = 3 /\ AgentLeft(t)' = 3
    BY <2>1
  <2>3. ~BootstrapStep(t) /\ ~TimePasses(t)
    BY <2>1 DEF BootstrapStep, TimePasses
  <2> QED
    BY <2>1, <2>2, <2>3 DEF AgentNearer
<1>8. CASE NextPoll(t)
  <2>1. agent[t] = "sleep" /\ agent'[t] = "config" /\ late' = late
    BY <1>8 DEF NextPoll
  <2>2. t \in late => AgentLeft(t) = 2 /\ AgentLeft(t)' = 1
    BY <2>1
  <2>3. t \notin late => AgentLeft(t) = 3 /\ AgentLeft(t)' = 3
    BY <2>1
  <2>4. ~BootstrapStep(t) /\ ~TimePasses(t)
    BY <2>1 DEF BootstrapStep, TimePasses
  <2> QED
    BY <2>2, <2>3, <2>4 DEF AgentNearer
<1>9. ASSUME NEW u \in Types,
             \/ Boots(u) \/ Stops(u) \/ BootstrapStep(u) \/ TimePasses(u)
             \/ PollConfig(u) \/ DownloadFails(u) \/ NextPoll(u) \/ Exits(u)
      PROVE  AgentNearer(t)
  <2>1. CASE u = t
    BY <1>2, <1>3, <1>4, <1>5, <1>6, <1>7, <1>8, <1>9, <2>1
  <2>2. CASE u # t
    <3>1. agent'[t] = agent[t]
      BY <1>9, <2>2 DEF Boots, Stops, BootstrapStep, TimePasses, PollConfig, DownloadFails,
                        NextPoll, Exits
    <3>2. t \in late' <=> t \in late
      BY <1>9, <2>2 DEF Boots, Stops, BootstrapStep, TimePasses, PollConfig, DownloadFails,
                        NextPoll, Exits
    <3> QED
      BY <1>1, <3>1, <3>2
  <2> QED
    BY <2>1, <2>2
<1>10. CASE UNCHANGED <<agent, late>>
  BY <1>1, <1>10
<1> QED
  BY <1>9, <1>10 DEF Next, Phase, CoordinatorStep, AgentStep, InstancesAwaited,
     GenerateCertificates, StartStreaming, CoordinatorEnds, WaitForInstance, UploadConfig, LogTask,
     UploadHangs, DownloadHangs, Elsewhere, Outside

\* wait_for_resource(), the log tasks, the bootstrap and the poll of S3 have a
\* bounded number of steps left, which no other process can raise: no exchange of
\* answers keeps initialization or an agent busy for ever.  And the wait of an
\* instance that is still launching has not ended, so that the phase which awaits
\* it (InstancesAwaited) is not left waiting for nobody.
THEOREM StartupComesToAnEnd ==
  Spec => /\ [](\A t \in Types : Left(wait[t]) <= 2 * Delays + 2 /\ Left(log[t]) <= 2 * Delays + 2)
          /\ []WaitsDecide
          /\ [][SettlingComesNearer]_vars
<1>1. Spec => []WaitsDecide
  BY WaitsDecideInit, WaitsDecideNext, InductiveInvariant, PTL DEF Spec
<1>2. IInv => \A t \in Types : Left(wait[t]) <= 2 * Delays + 2 /\ Left(log[t]) <= 2 * Delays + 2
  BY LeftType, StartupAssumption DEF IInv
<1>3. IInv /\ WaitsDecide /\ [Next]_vars => [SettlingComesNearer]_vars
  <2> SUFFICES ASSUME IInv, WaitsDecide, Next, NEW t \in Types
               PROVE  Nearer(t)
    BY DEF SettlingComesNearer
  <2> QED
    BY CoordinatorIsNearer, AgentIsNearer DEF Nearer, CoordinatorNearer, AgentNearer
<1> QED
  BY <1>1, <1>2, <1>3, InductiveInvariant, PTL DEF Spec
=============================================================================
