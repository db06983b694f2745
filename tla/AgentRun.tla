------------------------------ MODULE AgentRun ------------------------------
(***************************************************************************)
(* One nix-bench-agent process: main() and run_agent(), the benchmark loop *)
(* with its retry budget, and the gRPC handlers that run in tasks beside   *)
(* it and share the status lock, the shutdown token and the ack permit.    *)
(*                                                                         *)
(* A step of the main task is the code between two points where another    *)
(* task can interfere: a read or write of the status under its lock, a     *)
(* read or a cancel of the token, a build, a sleep.  CancelBenchmark is    *)
(* two steps, because the token is cancelled before the lock is taken.     *)
(*                                                                         *)
(* Bounds: each member of Cancels is one CancelBenchmark call, so their    *)
(* number is bounded; acknowledgments are not (the permit is one bit).     *)
(***************************************************************************)
EXTENDS AgentStatus, Sequences

CONSTANTS
  MaxFailures,     \* config.max_failures
  GcBetweenRuns,   \* config.gc_between_runs
  Cancels          \* the CancelBenchmark calls that clients may make

ASSUME MaxFailuresAssumption == MaxFailures \in Nat
ASSUME GcAssumption == GcBetweenRuns \in BOOLEAN

VARIABLES
  pc,          \* where the main task is
  outcome,     \* what run_agent() returned: "none", "ok" or "err"
  successes,   \* successful_runs.len()
  failures,    \* failure_count
  status,      \* AgentStatus.status
  progress,    \* AgentStatus.run_progress
  results,     \* AgentStatus.run_results, each result by its run_number
  message,     \* AgentStatus.error_message: "none", "error" or "cancelled"
  server,      \* the gRPC server task
  token,       \* is the shutdown token cancelled?
  permit,      \* does the ack Notify hold a permit?
  cancels,     \* progress of each CancelBenchmark handler
  lateBuilds   \* history: builds started when the token was cancelled

agentStatus == <<status, progress, results, message>>
loopVars == <<successes, failures>>
rpcVars == <<server, token, permit, cancels>>
vars == <<pc, outcome, successes, failures, status, progress, results, message,
          server, token, permit, cancels, lateBuilds>>

Phases == {"bootstrap", "config", "spawn", "set_warmup", "warmup", "set_running"}
LoopSteps == {"loop", "slot", "build", "publish", "gc"}
Endings == {"set_complete", "shutdown", "join", "failing", "grace", "await_ack", "exited"}

TypeOK ==
  /\ pc \in Phases \cup LoopSteps \cup Endings
  /\ outcome \in {"none", "ok", "err"}
  /\ successes \in 0 .. Runs
  /\ failures \in 0 .. MaxFailures
  /\ status \in AgentCode
  /\ progress \in 0 .. Runs
  /\ results \in Seq(1 .. Runs)
  /\ message \in {"none", "error", "cancelled"}
  /\ server \in {"none", "starting", "up", "down"}
  /\ token \in BOOLEAN
  /\ permit \in BOOLEAN
  /\ cancels \in [Cancels -> {"unsent", "signalled", "done"}]
  /\ lateBuilds \in Nat

Init ==
  /\ pc = "bootstrap" /\ outcome = "none"
  /\ successes = 0 /\ failures = 0
  /\ status = "Bootstrap" /\ progress = 0 /\ results = <<>> /\ message = "none"
  /\ server = "none" /\ token = FALSE /\ permit = FALSE
  /\ cancels = [c \in Cancels |-> "unsent"]
  /\ lateBuilds = 0

-----------------------------------------------------------------------------
\* The main task.

Goto(from, to) == pc = from /\ pc' = to

\* A call followed by `?`: an error leaves run_agent() for main().
GotoOrFail(from, to) == pc = from /\ pc' \in {to, "failing"}

StartBuild == lateBuilds' = lateBuilds + (IF token THEN 1 ELSE 0)

RunBootstrap ==
  /\ GotoOrFail("bootstrap", "config")
  /\ UNCHANGED <<outcome, loopVars, agentStatus, rpcVars, lateBuilds>>

\* download_config_with_tls() and get_tls_config()
LoadConfig ==
  /\ GotoOrFail("config", "spawn")
  /\ UNCHANGED <<outcome, loopVars, agentStatus, rpcVars, lateBuilds>>

SpawnServer ==
  /\ Goto("spawn", "set_warmup")
  /\ server' = "starting"
  /\ UNCHANGED <<outcome, loopVars, agentStatus, token, permit, cancels, lateBuilds>>

\* The status is written whatever it holds, and the warmup build starts.
SetWarmup ==
  /\ Goto("set_warmup", "warmup")
  /\ status' = "Warmup"
  /\ StartBuild
  /\ UNCHANGED <<outcome, loopVars, progress, results, message, rpcVars>>

\* The untimed build; a garbage collection after it may fail without effect.
WarmupBuild ==
  /\ GotoOrFail("warmup", "set_running")
  /\ UNCHANGED <<outcome, loopVars, agentStatus, rpcVars, lateBuilds>>

SetRunning ==
  /\ Goto("set_running", "loop")
  /\ status' = "Running"
  /\ UNCHANGED <<outcome, loopVars, progress, results, message, rpcVars, lateBuilds>>

\* The head of the loop: enough runs, cancelled, budget spent, or another run.
LoopEndsByAttempts == successes + failures >= Runs \/ token   \* mutant
LoopEndsUncancelled == successes = Runs                       \* mutant
LoopEnds == successes = Runs \/ token

OutOfBudgetLate == failures > MaxFailures   \* mutant
OutOfBudget == failures >= MaxFailures

LoopDone ==
  /\ Goto("loop", "set_complete")
  /\ LoopEnds
  /\ UNCHANGED <<outcome, loopVars, agentStatus, rpcVars, lateBuilds>>

BudgetSpent ==
  /\ Goto("loop", "failing")
  /\ ~LoopEnds /\ OutOfBudget
  /\ UNCHANGED <<outcome, loopVars, agentStatus, rpcVars, lateBuilds>>

NextRun ==
  /\ Goto("loop", "slot")
  /\ ~LoopEnds /\ ~OutOfBudget
  /\ UNCHANGED <<outcome, loopVars, agentStatus, rpcVars, lateBuilds>>

StartSlot ==
  /\ Goto("slot", "build")
  /\ progress' = successes + 1
  /\ status' = "Running"
  /\ StartBuild
  /\ UNCHANGED <<outcome, loopVars, results, message, rpcVars>>

BuildSucceeds ==
  /\ Goto("build", "publish")
  /\ successes' = successes + 1
  /\ UNCHANGED <<outcome, failures, agentStatus, rpcVars, lateBuilds>>

\* A build that fails, times out or cannot be started costs one failure.
BuildFails ==
  /\ Goto("build", "loop")
  /\ failures' = failures + 1
  /\ UNCHANGED <<outcome, successes, agentStatus, rpcVars, lateBuilds>>

PublishAttempt ==   \* mutant: numbers the result by the attempt
  /\ Goto("publish", "loop")
  /\ results' = Append(results, successes + failures)
  /\ UNCHANGED <<outcome, loopVars, status, progress, message, rpcVars, lateBuilds>>

PublishResult ==
  /\ Goto("publish", IF GcBetweenRuns /\ successes < Runs THEN "gc" ELSE "loop")
  /\ results' = Append(results, successes)
  /\ UNCHANGED <<outcome, loopVars, status, progress, message, rpcVars, lateBuilds>>

RunGc ==
  /\ Goto("gc", "loop")
  /\ UNCHANGED <<outcome, loopVars, agentStatus, rpcVars, lateBuilds>>

SetComplete ==
  /\ Goto("set_complete", "shutdown")
  /\ status' = "Complete"
  /\ UNCHANGED <<outcome, loopVars, progress, results, message, rpcVars, lateBuilds>>

ShutdownServer ==
  /\ Goto("shutdown", "join")
  /\ token' = TRUE
  /\ UNCHANGED <<outcome, loopVars, agentStatus, server, permit, cancels, lateBuilds>>

\* The server task has ended or five seconds have passed: Ok either way.
JoinServer ==
  /\ Goto("join", "await_ack")
  /\ outcome' = "ok"
  /\ UNCHANGED <<loopVars, agentStatus, rpcVars, lateBuilds>>

\* run_agent() returned an error: record it unless a cancel already did.
RecordFailure ==
  /\ Goto("failing", "grace")
  /\ outcome' = "err"
  /\ status' = "Failed"
  /\ message' = IF status = "Failed" THEN message ELSE "error"
  /\ UNCHANGED <<loopVars, progress, results, rpcVars, lateBuilds>>

\* Two seconds for clients to observe the failure, then the token.
EndGrace ==
  /\ Goto("grace", "await_ack")
  /\ token' = TRUE
  /\ UNCHANGED <<outcome, loopVars, agentStatus, server, permit, cancels, lateBuilds>>

\* wait_for_ack() and the end of the process, with every task it still has.
Exit ==
  /\ Goto("await_ack", "exited")
  /\ token' = TRUE
  /\ server' = "down"
  /\ UNCHANGED <<outcome, loopVars, agentStatus, cancels, lateBuilds>>

AckReceived == permit /\ permit' = FALSE /\ Exit

AckTimeoutNever == FALSE   \* mutant
AckTimeout == ~permit /\ UNCHANGED permit /\ Exit

-----------------------------------------------------------------------------
\* The server task and its handlers.

Others == UNCHANGED <<pc, outcome, loopVars, lateBuilds>>

\* run_grpc_server(): a bad address, TLS identity or a taken port ends the task.
ServerStarts ==
  /\ server = "starting" /\ ~token
  /\ server' \in {"up", "down"}
  /\ UNCHANGED <<agentStatus, token, permit, cancels>> /\ Others

ServerStopsEarly ==   \* mutant: does not wait for the token
  /\ server \in {"starting", "up"}
  /\ server' = "down"
  /\ UNCHANGED <<agentStatus, token, permit, cancels>> /\ Others

ServerStops ==
  /\ server \in {"starting", "up"} /\ token
  /\ server' = "down"
  /\ UNCHANGED <<agentStatus, token, permit, cancels>> /\ Others

Acknowledge ==
  /\ server = "up"
  /\ permit' = TRUE
  /\ UNCHANGED <<agentStatus, server, token, cancels>> /\ Others

\* cancel_benchmark() up to the lock, then under it; an accepted call is
\* finished by the graceful shutdown.
CancelSignal(c) ==
  /\ server = "up" /\ cancels[c] = "unsent"
  /\ token' = TRUE
  /\ cancels' = [cancels EXCEPT ![c] = "signalled"]
  /\ UNCHANGED <<agentStatus, server, permit>> /\ Others

CancelRecordAlways(c) ==   \* mutant: forgets that the status may be terminal
  /\ pc # "exited" /\ cancels[c] = "signalled"
  /\ cancels' = [cancels EXCEPT ![c] = "done"]
  /\ status' = "Failed" /\ message' = "cancelled"
  /\ UNCHANGED <<progress, results, server, token, permit>> /\ Others

CancelRecord(c) ==
  /\ pc # "exited" /\ cancels[c] = "signalled"
  /\ cancels' = [cancels EXCEPT ![c] = "done"]
  /\ IF status \in TerminalCode
       THEN UNCHANGED <<status, message>>
       ELSE status' = "Failed" /\ message' = "cancelled"
  /\ UNCHANGED <<progress, results, server, token, permit>> /\ Others

-----------------------------------------------------------------------------
MainTask ==
  \/ RunBootstrap \/ LoadConfig \/ SpawnServer \/ SetWarmup \/ WarmupBuild \/ SetRunning
  \/ LoopDone \/ BudgetSpent \/ NextRun \/ StartSlot
  \/ BuildSucceeds \/ BuildFails \/ PublishResult \/ RunGc
  \/ SetComplete \/ ShutdownServer \/ JoinServer
  \/ RecordFailure \/ EndGrace \/ AckReceived \/ AckTimeout

ServerTask ==
  \/ ServerStarts \/ ServerStops \/ Acknowledge
  \/ \E c \in Cancels : CancelSignal(c) \/ CancelRecord(c)

\* The process has ended.
Exited == pc = "exited" /\ UNCHANGED vars

Next == MainTask \/ ServerTask \/ Exited

Spec == Init /\ [][Next]_vars

\* Every wait of the main task ends: builds and collections are killed at
\* their timeout, the join and the ack wait have one, and so has the config
\* download as long as S3 answers each request (module Startup).
FairSpec == Spec /\ WF_vars(MainTask)

-----------------------------------------------------------------------------
(***************************************************************************)
(* Properties                                                              *)
(***************************************************************************)

\* Whatever a poll reads under the lock is consistent: results are numbered
\* 1, 2, ... although failed attempts are replaced, and the slot announced in
\* run_progress is the last result or the one after it (benchmark.rs).
SnapshotConsistent ==
  /\ \A n \in DOMAIN results : results[n] = n
  /\ progress \in {Len(results), Len(results) + 1}

\* Has somebody called CancelBenchmark?
Cancelled == \E c \in Cancels : cancels[c] # "unsent"

\* Unless somebody cancelled, a status of Complete comes with every result and
\* with run_progress at its total: the coordinator, which takes the first
\* Complete it polls as final, loses nothing by it.
CompleteIsCaptured ==
  status = "Complete" /\ ~Cancelled => Len(results) = Runs /\ progress = Runs

\* However failures and successes alternate, the loop stays within its budget:
\* max_failures - failure_count never goes below zero (an u32) and no more
\* than runs + max_failures - 1 builds are started.
AttemptBudget ==
  /\ failures <= MaxFailures
  /\ successes + failures < Runs + MaxFailures

\* Cancellation is only looked at between runs, but it is honoured promptly:
\* after the token is cancelled at most one more build starts, the warmup
\* build or the run whose loop test had already passed.
OneLateBuild == lateBuilds <= 1

\* Once run_agent() has returned, the status agrees with what it returned, in
\* spite of handlers that were in flight when the loop ended: a late cancel
\* never turns a Complete into Failed, and an error is never left unreported.
EndsAsReported ==
  outcome # "none" => status = IF outcome = "ok" THEN "Complete" ELSE "Failed"

\* The agent ends, acknowledged or not, whatever clients do.
AgentExits == <>(pc = "exited")

AgentView ==
  [status |-> status, progress |-> progress, results |-> Len(results),
   server |-> IF server \in {"none", "starting"} THEN "off" ELSE server]

Lifecycle == INSTANCE AgentLifecycle WITH agent <- AgentView

\* Until somebody cancels, every step of the agent is one that AgentLifecycle
\* allows: a terminal status is final, Complete comes after the last result, and
\* a server that has come up answers until the run is over.
ImplementsLifecycle ==
  Lifecycle!LifecycleInit /\ [][Cancelled' \/ Lifecycle!LifecycleNext]_AgentView

\* What main() says of its last step: "Wait for coordinator acknowledgment,
\* then shutdown".  While an agent waits it has its ack or a way to get it.
AckCanArrive == pc = "await_ack" => server # "down" \/ permit
=============================================================================
