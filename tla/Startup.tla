------------------------------- MODULE Startup -------------------------------
(***************************************************************************)
(* From RunInstances to the first log line: the coordinator waits for the  *)
(* machines, makes certificates for those that have a public IP, uploads a *)
(* configuration for every type and starts one log task per IP, while each *)
(* machine boots, prepares its disks and Nix, and polls S3 until it finds  *)
(* a configuration with TLS, without which it serves nobody.  Machines are *)
(* known by their types, which are taken to be distinct.                   *)
(*                                                                         *)
(* Durations are not kept: a timeout may fire at any time.                 *)
(***************************************************************************)
EXTENDS Naturals, FiniteSets

CONSTANTS
  Types,     \* flags --instance-types
  Delays     \* delays of the default backoff, 3 in the library

ASSUME StartupAssumption == Types # {} /\ IsFiniteSet(Types) /\ Delays \in Nat \ {0}

VARIABLES
  ec2,       \* state of each machine, "none" if its launch failed
  address,   \* machines that AWS gave a public IP
  pc,        \* where initialize() is
  wait,      \* wait_for_resource() of each machine
  st,        \* InstanceState.status
  publicIp,  \* instances whose InstanceState.public_ip is set
  certs,     \* AgentCertificateMap: the types that have certificates
  config,    \* what S3 has for each type
  valid,     \* would validate_config() accept the other fields?
  agent,     \* where the process on each machine is
  late,      \* agents that have polled for longer than their timeout
  unanswered, \* requests to S3 that never get an answer, nor a failure
  log        \* the log task of each instance

vars == <<ec2, address, pc, wait, st, publicIp, certs, config, valid, agent, late,
          unanswered, log>>

Launched == {t \in Types : ec2[t] # "none"}

\* A call of wait_for_resource().
Wait == [at : {"check", "sleep", "ok", "failed"}, tries : 0 .. Delays - 1]
NewWait == [at |-> "check", tries |-> 0]
Ended(how) == [at |-> how, tries |-> 0]
NoTask == Ended("none")

InitSteps == {"waiting", "certificates", "uploading", "ready", "failed", "dead"}
Bootstrap == {"fetch", "nvme", "nix"}
AgentSteps == Bootstrap \cup {"config", "sleep", "serving", "failed"}
LogSteps == {"check", "sleep", "ok", "streaming", "failed"}

\* What a machine asks of S3, and what the coordinator asks for its type.
Requests == {"download", "upload"} \X Types

TypeOK ==
  /\ ec2 \in [Types -> {"none", "pending", "running", "gone"}]
  /\ address \subseteq Launched
  /\ pc \in InitSteps
  /\ wait \in [Types -> Wait]
  /\ st \in [Types -> {"Launching", "Starting", "Failed"}]
  /\ publicIp \subseteq address /\ certs \subseteq publicIp
  /\ config \in [Types -> {"none", "plain", "tls"}]
  /\ valid \in BOOLEAN
  /\ agent \in [Types -> AgentSteps \cup {"off", "exited"}]
  /\ late \subseteq Types
  /\ unanswered \subseteq Requests
  /\ log \in [Types -> [at : LogSteps \cup {"none"}, tries : 0 .. Delays - 1]]

\* Initialization fails if nothing is launched.
Init ==
  /\ ec2 \in [Types -> {"none", "pending"}] /\ Launched # {}
  /\ address = {} /\ publicIp = {} /\ certs = {} /\ late = {} /\ unanswered = {}
  /\ pc = "waiting"
  /\ wait = [t \in Types |-> NewWait]
  /\ st = [t \in Types |-> IF t \in Launched THEN "Launching" ELSE "Failed"]
  /\ config = [t \in Types |-> "none"]
  /\ valid \in BOOLEAN
  /\ agent = [t \in Types |-> "off"]
  /\ log = [t \in Types |-> NoTask]

-----------------------------------------------------------------------------
\* wait_for_resource(): what may follow when its check answers one of Answers.
\* The sleep after the last delay is followed by the end of the loop; the
\* timeout around it strikes at any time.

OneMoreDelay(w) == w.tries < Delays   \* mutant

HasDelay(w) == w.tries + 1 < Delays

WaitSteps(w, Answers) ==
  CASE w.at = "check" ->
         {CASE a = "true" -> Ended("ok")
            [] a = "false" -> [w EXCEPT !.at = "sleep"]
            [] OTHER -> Ended("failed") : a \in Answers \cup {"timeout"}}
    [] w.at = "sleep" ->
         {IF HasDelay(w) THEN [at |-> "check", tries |-> w.tries + 1] ELSE Ended("failed"),
          Ended("failed")}
    [] OTHER -> {}

-----------------------------------------------------------------------------
\* AWS

\* The machine runs and its user data start to work.
Boots(t) ==
  /\ ec2[t] = "pending"
  /\ ec2' = [ec2 EXCEPT ![t] = "running"]
  /\ agent' = [agent EXCEPT ![t] = "fetch"]
  /\ address' \in {address, address \cup {t}}
  /\ UNCHANGED <<pc, wait, st, publicIp, certs, config, valid, late, unanswered, log>>

\* Terminated by AWS, by a cleanup or by hand.
Stops(t) ==
  /\ ec2[t] \in {"pending", "running"}
  /\ ec2' = [ec2 EXCEPT ![t] = "gone"]
  /\ agent' = [agent EXCEPT ![t] = "exited"]
  /\ late' = late \ {t}
  /\ UNCHANGED <<address, pc, wait, st, publicIp, certs, config, valid, unanswered, log>>

-----------------------------------------------------------------------------
\* The coordinator: initialize() from its phase 7 on.

Outside == UNCHANGED <<ec2, address, valid, agent, late>>
Elsewhere == Outside /\ UNCHANGED unanswered

\* The check of wait_for_running(); any call to AWS may fail.
RunningAnswers(t) ==
  {"error"} \cup (CASE ec2[t] = "running" -> {"true"}
                    [] ec2[t] = "pending" -> {"false"}
                    [] OTHER -> {})

\* One step of one of the waits that wait_for_instances() runs side by side,
\* and what is done with its result.
WaitForInstance(t) ==
  /\ pc = "waiting" /\ t \in Launched
  /\ \E w \in WaitSteps(wait[t], RunningAnswers(t)) :
       /\ wait' = [wait EXCEPT ![t] = w]
       /\ st' = CASE w.at = "ok" -> [st EXCEPT ![t] = "Starting"]
                  [] w.at = "failed" -> [st EXCEPT ![t] = "Failed"]
                  [] OTHER -> st
       /\ publicIp' = IF w.at = "ok" THEN publicIp \cup ({t} \cap address) ELSE publicIp
  /\ UNCHANGED <<pc, certs, config, log>> /\ Elsewhere

InstancesAwaited ==
  /\ pc = "waiting" /\ \A t \in Launched : st[t] # "Launching"
  /\ pc' = IF publicIp = {} THEN "failed" ELSE "certificates"
  /\ UNCHANGED <<wait, st, publicIp, certs, config, log>> /\ Elsewhere

GenerateCertificates ==
  /\ pc = "certificates"
  /\ \/ pc' = "uploading" /\ certs' = publicIp
     \/ pc' = "failed" /\ UNCHANGED certs
  /\ UNCHANGED <<wait, st, publicIp, config, log>> /\ Elsewhere

ConfigForAll(t) == "tls"   \* mutant: agent_config_for() without regard to the map of certificates

\* agent_config_for(): types that were not launched get a configuration too.
ConfigFor(t) == IF t \in certs THEN "tls" ELSE "plain"

\* One round of upload_configs(), whose `?` ends initialization.
Uploading(t) ==
  pc = "uploading" /\ config[t] = "none" /\ \A u \in Types : <<"upload", u>> \notin unanswered

UploadConfig(t) ==
  /\ Uploading(t)
  /\ \/ config' = [config EXCEPT ![t] = ConfigFor(t)] /\ UNCHANGED pc
     \/ pc' = "failed" /\ UNCHANGED config
  /\ UNCHANGED <<wait, st, publicIp, certs, log>> /\ Elsewhere

\* put_object() is awaited without a timeout.
UploadHangs(t) ==
  /\ Uploading(t)
  /\ unanswered' = unanswered \cup {<<"upload", t>>}
  /\ UNCHANGED <<pc, wait, st, publicIp, certs, config, log>> /\ Outside

\* start_log_streaming_unified() spawns a task for every instance with an IP.
LogTasks == [t \in Types |-> IF t \in publicIp THEN NewWait ELSE NoTask]

\* The guards are committed, and the engine starts the streaming.
StartStreaming ==
  /\ pc = "uploading" /\ \A t \in Types : config[t] # "none"
  /\ pc' = "ready"
  /\ log' = LogTasks
  /\ UNCHANGED <<wait, st, publicIp, certs, config>> /\ Elsewhere

\* Killed, or its run over; its tasks go with it.
CoordinatorEnds ==
  /\ pc \notin {"failed", "dead"}
  /\ pc' = "dead"
  /\ log' = [t \in Types |-> NoTask]
  /\ UNCHANGED <<wait, st, publicIp, certs, config>> /\ Elsewhere

-----------------------------------------------------------------------------
\* The log task of one instance: stream_to_channel(), stream_to_stdout().

\* After 30s, the checks of wait_for_ready() (is GetStatus answered?), then
\* connect_with_retry() and StreamLogs, until the stream or the sink ends.  A
\* task that ends is never started again.
LogTaskSteps(t) ==
  LET serving == agent[t] = "serving" IN
  CASE log[t].at \in {"check", "sleep"} ->
         WaitSteps(log[t], IF serving THEN {"true", "false"} ELSE {"false"})
    [] log[t].at = "ok" ->
         {Ended(how) : how \in IF serving THEN {"streaming", "failed"} ELSE {"failed"}}
    [] log[t].at = "streaming" -> {Ended("failed")}
    [] OTHER -> {}

LogTask(t) ==
  /\ pc = "ready"
  /\ \E l \in LogTaskSteps(t) : log' = [log EXCEPT ![t] = l]
  /\ UNCHANGED <<pc, wait, st, publicIp, certs, config>> /\ Elsewhere

-----------------------------------------------------------------------------
\* The machine: user data, then main() of the agent.

Machine(t) ==
  /\ ec2[t] = "running"
  /\ UNCHANGED <<ec2, address, pc, wait, st, publicIp, certs, config, valid, log>>

Answered(t) == <<"download", t>> \notin unanswered

\* User data fetch the binary; setup_nvme() runs its commands and heeds only a
\* failure to start them or a timeout, not their exit status; install_nix()
\* heeds both, and source_nix_profile() wants its script.
BootstrapStep(t) ==
  /\ agent[t] \in Bootstrap /\ Answered(t)
  /\ \/ agent' = [agent EXCEPT ![t] =
                    [fetch |-> "nvme", nvme |-> "nix", nix |-> "config"][@]]
     \/ agent' = [agent EXCEPT ![t] = IF @ = "fetch" THEN "exited" ELSE "failed"]
  /\ UNCHANGED <<late, unanswered>> /\ Machine(t)

\* DEFAULT_TLS_CONFIG_TIMEOUT_SECS is over.
TimePasses(t) ==
  /\ agent[t] \in {"config", "sleep"} /\ t \notin late
  /\ late' = late \cup {t}
  /\ UNCHANGED <<agent, unanswered>> /\ Machine(t)

NeverLate(t) == FALSE   \* mutant: no timeout around the poll of S3

TlsTimeout(t) == t \in late

\* One round of download_config_with_tls(); a download may fail.  Its token
\* cannot be cancelled yet: nobody serves CancelBenchmark.  With the fields
\* present and valid, get_tls_config() succeeds and the server is spawned.
PollConfig(t) ==
  /\ agent[t] = "config" /\ Answered(t)
  /\ agent' = [agent EXCEPT ![t] = 
       IF TlsTimeout(t) THEN "failed"
       ELSE IF config[t] = "tls" THEN (IF valid THEN "serving" ELSE "failed") ELSE "sleep"]
  /\ late' = IF agent'[t] = "sleep" THEN late ELSE late \ {t}
  /\ UNCHANGED unanswered /\ Machine(t)

DownloadFails(t) ==
  /\ agent[t] = "config" /\ Answered(t) /\ ~TlsTimeout(t)
  /\ agent' = [agent EXCEPT ![t] = "sleep"]
  /\ UNCHANGED <<late, unanswered>> /\ Machine(t)

\* `aws s3 cp` of the user data and get_object() run without a timeout, and the
\* timeout of the poll is only looked at between two downloads.
DownloadHangs(t) ==
  /\ agent[t] \in {"fetch", "config"} /\ Answered(t) /\ ~TlsTimeout(t)
  /\ unanswered' = unanswered \cup {<<"download", t>>}
  /\ UNCHANGED <<agent, late>> /\ Machine(t)

NextPoll(t) ==
  /\ agent[t] = "sleep"
  /\ agent' = [agent EXCEPT ![t] = "config"]
  /\ UNCHANGED <<late, unanswered>> /\ Machine(t)

\* A failed agent waits for an acknowledgment that nobody can send, one that
\* serves works on (AgentRun) and ends.
Exits(t) ==
  /\ agent[t] \in {"failed", "serving"}
  /\ agent' = [agent EXCEPT ![t] = "exited"]
  /\ UNCHANGED <<late, unanswered>> /\ Machine(t)

-----------------------------------------------------------------------------
CoordinatorStep(t) == WaitForInstance(t) \/ UploadConfig(t) \/ LogTask(t)
Phase == InstancesAwaited \/ GenerateCertificates \/ StartStreaming
AgentStep(t) == BootstrapStep(t) \/ PollConfig(t) \/ NextPoll(t)

Next ==
  \/ Phase \/ CoordinatorEnds
  \/ \E t \in Types :
       \/ Boots(t) \/ Stops(t)
       \/ CoordinatorStep(t)
       \/ AgentStep(t) \/ TimePasses(t) \/ DownloadFails(t) \/ Exits(t)
       \/ UploadHangs(t) \/ DownloadHangs(t)

Spec == Init /\ [][Next]_vars

\* Tasks are scheduled and time passes; the waits, the commands of the agent and
\* the calls of the log tasks have timeouts.  Requests to S3 have none: each is
\* answered, fails, or is in `unanswered` for good, and which is left open, as is
\* all else of AWS and the network: a machine may stay pending and every download
\* fail; nor does an agent have to end.
FairSpec ==
  /\ Spec
  /\ WF_vars(Phase)
  /\ \A t \in Types :
       /\ WF_vars(WaitForInstance(t)) /\ WF_vars(UploadConfig(t)) /\ WF_vars(LogTask(t))
       /\ WF_vars(BootstrapStep(t)) /\ WF_vars(TimePasses(t))
       /\ WF_vars(PollConfig(t) \/ DownloadFails(t)) /\ WF_vars(NextPoll(t))

-----------------------------------------------------------------------------
(* Whoever serves is polled: an agent only opens its port when the          *)
(* coordinator took its instance for running and has its address.  One that *)
(* was given up, after too few checks perhaps, or that has no public IP,    *)
(* finds no certificates and works for nobody, even if the coordinator died *)
(* in between; and what RunEngine starts from (its Init) holds at the end   *)
(* of initialization.  The fact goes through two processes and S3.          *)
OnlyContactedServe ==
  /\ \A t \in Types : agent[t] = "serving" => t \in publicIp /\ st[t] = "Starting"
  /\ pc = "ready" => /\ publicIp # {}
                     /\ \A t \in publicIp : st[t] = "Starting" /\ config[t] = "tls"

(* Only S3 can keep somebody waiting for ever: initialization ends whatever *)
(* becomes of the machines, every agent serves or fails even if the         *)
(* coordinator is gone, and every log task streams or gives up, unless a    *)
(* request to S3 that is awaited there is never answered.                   *)
StartupSettles ==
  /\ pc = "waiting" ~>
       pc \in {"ready", "failed", "dead"} \/ \E t \in Types : <<"upload", t>> \in unanswered
  /\ \A t \in Types :
       /\ agent[t] = "fetch" ~> agent[t] \in {"serving", "failed", "exited"} \/ ~Answered(t)
       /\ log[t].at = "check" ~> log[t].at \in {"streaming", "failed", "none"}
=============================================================================
