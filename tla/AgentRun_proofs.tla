--------------------------- MODULE AgentRun_proofs --------------------------
(***************************************************************************)
(* Theorems about AgentRun for every number of runs and failures and every *)
(* set of cancellations, from one inductive invariant.                     *)
(***************************************************************************)
EXTENDS AgentRun, TLAPS

BeforeWarmup == {"bootstrap", "config", "spawn", "set_warmup"}
AfterComplete == {"shutdown", "join"}
Waiting == {"grace", "await_ack", "exited"}

\* A result is pending publication exactly between a build and its publication.
CountsAgree ==
  /\ pc = "publish" => successes = Len(results) + 1 /\ progress = successes
  /\ pc # "publish" => successes = Len(results)
  /\ pc # "publish" => progress \in {successes, successes + 1}
  /\ pc = "build" => progress = successes + 1
  /\ \A n \in 1 .. Len(results) : results[n] = n

BudgetLeft ==
  /\ pc \in Phases => successes = 0 /\ failures = 0 /\ progress = 0
  /\ pc \in {"slot", "build"} => successes < Runs /\ failures < MaxFailures
  /\ pc = "publish" => failures < MaxFailures
  /\ failures <= MaxFailures
  /\ successes + failures < Runs + MaxFailures

\* The token has a cause: a cancellation, or the end of the run.
TokenExplained ==
  token => Cancelled \/ pc \in {"join", "await_ack", "exited"}

LateBuildsBounded ==
  /\ lateBuilds \in {0, 1}
  /\ lateBuilds = 1 => token /\ pc \notin BeforeWarmup \cup {"slot"}

EndingsAgree ==
  /\ status = "Complete" => pc \in AfterComplete \cup {"await_ack", "exited"}
  /\ pc \in AfterComplete => status = "Complete"
  /\ outcome # "none" => pc \in Waiting
  /\ pc \in Waiting => outcome # "none"
  /\ pc = "grace" => outcome = "err"
  /\ outcome = "ok" => status = "Complete"
  /\ outcome = "err" => status = "Failed"

CompleteExplained ==
  (status = "Complete" \/ pc = "set_complete") /\ ~Cancelled => successes = Runs

IInv ==
  /\ TypeOK
  /\ CountsAgree /\ BudgetLeft
  /\ TokenExplained /\ LateBuildsBounded
  /\ EndingsAgree /\ CompleteExplained

-----------------------------------------------------------------------------
LEMMA InitInv == Init => IInv
<1> SUFFICES ASSUME Init
             PROVE  IInv
  OBVIOUS
<1> USE RunsAssumption, MaxFailuresAssumption DEF Init
<1>1. TypeOK
  <2>1. results \in Seq(1 .. Runs)
    OBVIOUS
  <2>2. cancels \in [Cancels -> {"unsent", "signalled", "done"}]
    OBVIOUS
  <2>3. token \in BOOLEAN /\ permit \in BOOLEAN
    OBVIOUS
  <2>4. pc \in Phases /\ status \in AgentCode
    BY DEF Phases, AgentCode
  <2>5. /\ successes \in 0 .. Runs /\ failures \in 0 .. MaxFailures
        /\ progress \in 0 .. Runs /\ lateBuilds \in Nat
    OBVIOUS
  <2> QED
    BY <2>1, <2>2, <2>3, <2>4, <2>5 DEF TypeOK
<1>2. CountsAgree
  BY DEF CountsAgree
<1>3. BudgetLeft /\ TokenExplained /\ LateBuildsBounded
  BY DEF BudgetLeft, TokenExplained, LateBuildsBounded, Phases
<1>4. EndingsAgree /\ CompleteExplained
  BY DEF EndingsAgree, CompleteExplained, AfterComplete, Waiting
<1> QED
  BY <1>1, <1>2, <1>3, <1>4 DEF IInv

LEMMA NextInv == IInv /\ [Next]_vars => IInv'
<1> SUFFICES ASSUME IInv, [Next]_vars
             PROVE  IInv'
  OBVIOUS
<1> USE RunsAssumption, MaxFailuresAssumption
<1> USE DEF IInv, TypeOK, CountsAgree, BudgetLeft, TokenExplained, LateBuildsBounded,
            EndingsAgree, CompleteExplained, Phases, LoopSteps, Endings, AgentCode,
            BeforeWarmup, AfterComplete, Waiting, Cancelled, Goto, GotoOrFail,
            agentStatus, loopVars, rpcVars
<1>1. CASE RunBootstrap
  BY <1>1 DEF RunBootstrap
<1>2. CASE LoadConfig
  BY <1>2 DEF LoadConfig
<1>3. CASE SpawnServer
  BY <1>3 DEF SpawnServer
<1>4. CASE SetWarmup
  BY <1>4 DEF SetWarmup, StartBuild
<1>5. CASE WarmupBuild
  BY <1>5 DEF WarmupBuild
<1>6. CASE SetRunning
  BY <1>6 DEF SetRunning
<1>7. CASE LoopDone
  BY <1>7 DEF LoopDone, LoopEnds
<1>8. CASE BudgetSpent
  BY <1>8 DEF BudgetSpent, LoopEnds, OutOfBudget
<1>9. CASE NextRun
  BY <1>9 DEF NextRun, LoopEnds, OutOfBudget
<1>10. CASE StartSlot
  BY <1>10 DEF StartSlot, StartBuild
<1>11. CASE BuildSucceeds
  BY <1>11 DEF BuildSucceeds
<1>12. CASE BuildFails
  BY <1>12 DEF BuildFails
<1>13. CASE PublishResult
  BY <1>13 DEF PublishResult
<1>14. CASE RunGc
  BY <1>14 DEF RunGc
<1>15. CASE SetComplete
  BY <1>15 DEF SetComplete
<1>16. CASE ShutdownServer
  BY <1>16 DEF ShutdownServer
<1>17. CASE JoinServer
  BY <1>17 DEF JoinServer
<1>18. CASE RecordFailure
  BY <1>18 DEF RecordFailure
<1>19. CASE EndGrace
  BY <1>19 DEF EndGrace
<1>20. CASE AckReceived
  BY <1>20 DEF AckReceived, Exit
<1>21. CASE AckTimeout
  BY <1>21 DEF AckTimeout, Exit
<1>22. CASE ServerStarts
  BY <1>22 DEF ServerStarts, Others
<1>23. CASE ServerStops
  BY <1>23 DEF ServerStops, Others
<1>24. CASE Acknowledge
  BY <1>24 DEF Acknowledge, Others
<1>25. ASSUME NEW c \in Cancels, CancelSignal(c)
      PROVE  IInv'
  BY <1>25 DEF CancelSignal, Others
<1>26. ASSUME NEW c \in Cancels, CancelRecord(c)
      PROVE  IInv'
  BY <1>26 DEF CancelRecord, Others, TerminalCode
<1>27. CASE UNCHANGED vars
  BY <1>27 DEF vars
<1> QED
  BY <1>1, <1>2, <1>3, <1>4, <1>5, <1>6, <1>7, <1>8, <1>9, <1>10, <1>11, <1>12, <1>13, <1>14, <1>15, <1>16, <1>17, <1>18, <1>19, <1>20, <1>21, <1>22, <1>23, <1>24, <1>25, <1>26, <1>27 DEF Next, MainTask, ServerTask, Exited

THEOREM InductiveInvariant == Spec => []IInv
<1> QED
  BY InitInv, NextInv, PTL DEF Spec

-----------------------------------------------------------------------------
\* Every variable keeps its type (AgentStatus, the counters of the loop and
\* the state of the server task).
THEOREM TypeCorrect == Spec => []TypeOK
<1>1. IInv => TypeOK
  BY DEF IInv
<1> QED
  BY <1>1, InductiveInvariant, PTL

\* A poll never reads results and run_progress that disagree.
THEOREM SnapshotsAreConsistent == Spec => []SnapshotConsistent
<1>1. IInv => SnapshotConsistent
  <2> SUFFICES ASSUME IInv
               PROVE  SnapshotConsistent
    OBVIOUS
  <2>1. results \in Seq(1 .. Runs) /\ successes \in 0 .. Runs /\ Len(results) \in Nat
    BY DEF IInv, TypeOK
  <2>2. DOMAIN results = 1 .. Len(results)
    BY <2>1
  <2> QED
    BY <2>1, <2>2 DEF IInv, CountsAgree, SnapshotConsistent
<1> QED
  BY <1>1, InductiveInvariant, PTL

\* A Complete that nobody cancelled has every result.
THEOREM CompletionIsCaptured == Spec => []CompleteIsCaptured
<1>1. IInv => CompleteIsCaptured
  BY RunsAssumption DEF IInv, TypeOK, CountsAgree, EndingsAgree, CompleteExplained, Cancelled,
     AfterComplete, CompleteIsCaptured
<1> QED
  BY <1>1, InductiveInvariant, PTL

\* The retry loop keeps to its budget.
THEOREM BudgetIsKept == Spec => []AttemptBudget
<1>1. IInv => AttemptBudget
  BY DEF IInv, BudgetLeft, AttemptBudget
<1> QED
  BY <1>1, InductiveInvariant, PTL

\* At most one build starts after a cancellation.
THEOREM AtMostOneLateBuild == Spec => []OneLateBuild
<1>1. IInv => OneLateBuild
  BY DEF IInv, LateBuildsBounded, OneLateBuild
<1> QED
  BY <1>1, InductiveInvariant, PTL

\* The status that outlives run_agent() is the one it returned.
THEOREM EndingsAreReported == Spec => []EndsAsReported
<1>1. IInv => EndsAsReported
  BY DEF IInv, TypeOK, EndingsAgree, EndsAsReported
<1> QED
  BY <1>1, InductiveInvariant, PTL

-----------------------------------------------------------------------------
(***************************************************************************)
(* Refinement.  Until somebody cancels, the main task is the only writer   *)
(* of the status, so where it is tells what the status is.                 *)
(***************************************************************************)
StatusFollowsTask ==
  /\ pc \in BeforeWarmup => status = "Bootstrap"
  /\ pc \in {"warmup", "set_running"} => status = "Warmup"
  /\ pc \in LoopSteps \cup {"set_complete"} => status = "Running"
  /\ pc = "failing" => status \notin TerminalCode
  /\ pc \in {"bootstrap", "config", "spawn"} => server = "none"

\* A step after which nobody has cancelled is none of CancelBenchmark.
LEMMA NotCancelling ==
  ASSUME TypeOK, [Next]_vars, ~Cancelled'
  PROVE  /\ ~Cancelled
         /\ ~\E c \in Cancels : CancelSignal(c) \/ CancelRecord(c)
<1>1. cancels' = cancels \/ \E c \in Cancels : CancelSignal(c) \/ CancelRecord(c)
  BY DEF Next, MainTask, ServerTask, Exited, vars, rpcVars, RunBootstrap, LoadConfig,
     SpawnServer, SetWarmup, WarmupBuild, SetRunning, LoopDone, BudgetSpent, NextRun,
     StartSlot, BuildSucceeds, BuildFails, PublishResult, RunGc, SetComplete,
     ShutdownServer, JoinServer, RecordFailure, EndGrace, AckReceived, AckTimeout, Exit,
     ServerStarts, ServerStops, Acknowledge
<1>2. ASSUME NEW c \in Cancels, CancelSignal(c) \/ CancelRecord(c)
      PROVE  FALSE
  <2>1. cancels' = [cancels EXCEPT ![c] = "signalled"] \/ cancels' = [cancels EXCEPT ![c] = "done"]
    BY <1>2 DEF CancelSignal, CancelRecord
  <2>2. cancels'[c] # "unsent"
    BY <2>1 DEF TypeOK
  <2> QED
    BY <2>2 DEF Cancelled
<1> QED
  BY <1>1, <1>2 DEF Cancelled

LEMMA StatusFollowsTaskInv == Spec => [](~Cancelled => StatusFollowsTask)
<1>1. Init => StatusFollowsTask
  BY DEF Init, StatusFollowsTask, BeforeWarmup, LoopSteps
<1>2. IInv /\ (~Cancelled => StatusFollowsTask) /\ [Next]_vars => (~Cancelled => StatusFollowsTask)'
  <2> SUFFICES ASSUME IInv, ~Cancelled => StatusFollowsTask, [Next]_vars, ~Cancelled'
               PROVE  StatusFollowsTask'
    OBVIOUS
  <2>0. StatusFollowsTask /\ ~\E c \in Cancels : CancelSignal(c) \/ CancelRecord(c)
    BY NotCancelling DEF IInv
  <2> USE DEF StatusFollowsTask, BeforeWarmup, LoopSteps, TerminalCode, Goto, GotoOrFail,
              agentStatus, loopVars, rpcVars
  <2>1. CASE MainTask
    BY <2>0, <2>1 DEF MainTask, RunBootstrap, LoadConfig, SpawnServer, SetWarmup, WarmupBuild,
       SetRunning, LoopDone, BudgetSpent, NextRun, StartSlot, BuildSucceeds, BuildFails,
       PublishResult, RunGc, SetComplete, ShutdownServer, JoinServer, RecordFailure,
       EndGrace, AckReceived, AckTimeout, Exit
  <2>2. CASE ServerTask
    BY <2>0, <2>2 DEF ServerTask, ServerStarts, ServerStops, Acknowledge, Others
  <2>3. CASE UNCHANGED vars
    BY <2>0, <2>3 DEF vars
  <2> QED
    BY <2>1, <2>2, <2>3 DEF Next, Exited
<1> QED
  BY <1>1, <1>2, InductiveInvariant, PTL DEF Spec

LEMMA InitRefines == Init => Lifecycle!LifecycleInit
  BY DEF Init, Lifecycle!LifecycleInit, Lifecycle!FreshAgent, AgentView

LEMMA StepRefines ==
  ASSUME IInv, ~Cancelled => StatusFollowsTask, [Next]_vars, ~Cancelled'
  PROVE  [Lifecycle!LifecycleNext]_AgentView
<1> DEFINE Step == Lifecycle!LifecycleNext \/ UNCHANGED AgentView
<1> SUFFICES Step
  OBVIOUS
<1>a. ~Cancelled /\ StatusFollowsTask /\ ~\E c \in Cancels : CancelSignal(c) \/ CancelRecord(c)
  BY NotCancelling DEF IInv
<1> USE RunsAssumption
<1>0. /\ results \in Seq(1 .. Runs) /\ Len(results) \in Nat
      /\ successes \in 0 .. Runs /\ progress \in 0 .. Runs
  BY DEF IInv, TypeOK
<1> USE DEF StatusFollowsTask, BeforeWarmup, LoopSteps, TerminalCode, Goto, GotoOrFail,
            AgentView, agentStatus, loopVars, rpcVars,
            Lifecycle!LifecycleNext, Lifecycle!AgentSteps, Lifecycle!StatusSteps,
            Lifecycle!RunSteps, Lifecycle!ServerSteps, Lifecycle!When, Lifecycle!TerminalCode
<1>1. CASE RunBootstrap \/ LoadConfig \/ SpawnServer \/ WarmupBuild \/ LoopDone
           \/ BudgetSpent \/ NextRun \/ BuildSucceeds \/ BuildFails \/ RunGc
           \/ ShutdownServer \/ JoinServer \/ EndGrace
  BY <1>a, <1>1 DEF RunBootstrap, LoadConfig, SpawnServer, WarmupBuild, LoopDone, BudgetSpent,
     NextRun, BuildSucceeds, BuildFails, RunGc, ShutdownServer, JoinServer, EndGrace
<1>2. CASE SetWarmup
  BY <1>a, <1>2 DEF SetWarmup
<1>3. CASE SetRunning
  BY <1>a, <1>3 DEF SetRunning
<1>4. CASE StartSlot
  BY <1>a, <1>0, <1>4 DEF StartSlot, IInv, CountsAgree, BudgetLeft
<1>5. CASE PublishResult
  BY <1>a, <1>0, <1>5, SMTT(30) DEF PublishResult, IInv, CountsAgree, BudgetLeft
<1>6. CASE SetComplete
  BY <1>a, <1>0, <1>6 DEF SetComplete, IInv, CountsAgree, CompleteExplained, Cancelled
<1>7. CASE RecordFailure
  BY <1>a, <1>7 DEF RecordFailure
<1>8. CASE AckReceived \/ AckTimeout
  <2>1. /\ status \in TerminalCode /\ server' = "down"
        /\ UNCHANGED <<status, progress, results>>
    BY <1>8 DEF AckReceived, AckTimeout, Exit, IInv, TypeOK, EndingsAgree, Waiting
  <2>2. CASE server \in {"none", "starting"}
    BY <2>1, <2>2
  <2>3. CASE server = "up"
    BY <2>1, <2>3
  <2>4. CASE server = "down"
    BY <2>1, <2>4
  <2> QED
    BY <2>2, <2>3, <2>4 DEF IInv, TypeOK
<1>9. CASE ServerStarts \/ Acknowledge
  BY <1>a, <1>9 DEF ServerStarts, Acknowledge, Others
<1>10. CASE ServerStops
  BY <1>a, <1>10 DEF ServerStops, Others, IInv, TypeOK, TokenExplained, EndingsAgree, Cancelled,
     AfterComplete, Waiting
<1>11. CASE UNCHANGED vars
  BY <1>a, <1>11 DEF vars
<1> QED
  BY <1>1, <1>2, <1>3, <1>4, <1>5, <1>6, <1>7, <1>8, <1>9, <1>10, <1>11, <1>a
  DEF Next, MainTask, ServerTask, Exited

\* Until somebody cancels, an agent does what AgentLifecycle allows: its terminal
\* status is final, its Complete comes last, its server answers until then.
THEOREM AgentImplementsLifecycle == Spec => ImplementsLifecycle
<1>1. Init => Lifecycle!LifecycleInit
  BY InitRefines
<1>2. IInv /\ (~Cancelled => StatusFollowsTask) /\ [Next]_vars
        => [Cancelled' \/ Lifecycle!LifecycleNext]_AgentView
  BY StepRefines
<1> QED
  BY <1>1, <1>2, StatusFollowsTaskInv, InductiveInvariant, PTL
  DEF Spec, ImplementsLifecycle

\* Without any call of CancelBenchmark that is all of AgentLifecycle.
COROLLARY UncancelledAgentImplementsLifecycle ==
  ASSUME Cancels = {}
  PROVE  Spec => Lifecycle!LifecycleSpec
<1>1. [Cancelled' \/ Lifecycle!LifecycleNext]_AgentView => [Lifecycle!LifecycleNext]_AgentView
  BY DEF Cancelled
<1> QED
  BY <1>1, AgentImplementsLifecycle, PTL DEF ImplementsLifecycle, Lifecycle!LifecycleSpec
-----------------------------------------------------------------------------
\* A Failed has a cause: a cancel wrote it, or run_agent() returned an error.
FailureExplained ==
  /\ Cancelled => token
  /\ status = "Failed" => (message = "cancelled" /\ token) \/ outcome = "err"

LEMMA FailureExplainedNext == IInv /\ FailureExplained /\ [Next]_vars => FailureExplained'
<1> SUFFICES ASSUME IInv, FailureExplained, [Next]_vars
             PROVE  FailureExplained'
  OBVIOUS
<1> USE DEF FailureExplained, Cancelled
<1>1. ASSUME UNCHANGED <<status, message, cancels>>, token => token', outcome = "err" => outcome' = "err"
      PROVE  FailureExplained'
  BY <1>1
<1>2. CASE \/ RunBootstrap \/ LoadConfig \/ SpawnServer \/ WarmupBuild \/ LoopDone
           \/ BudgetSpent \/ NextRun \/ BuildSucceeds \/ BuildFails \/ PublishResult \/ RunGc
           \/ ShutdownServer \/ EndGrace \/ AckReceived \/ AckTimeout
  BY <1>1, <1>2
  DEF RunBootstrap, LoadConfig, SpawnServer, WarmupBuild, LoopDone, BudgetSpent, NextRun,
      BuildSucceeds, BuildFails, PublishResult, RunGc, ShutdownServer, EndGrace,
      AckReceived, AckTimeout, Exit, agentStatus, rpcVars
<1>3. CASE JoinServer
  <2>1. pc = "join" /\ UNCHANGED <<status, message, cancels, token>>
    BY <1>3 DEF JoinServer, Goto, agentStatus, rpcVars
  <2>2. outcome = "none"
    BY <2>1 DEF IInv, TypeOK, EndingsAgree, Waiting
  <2> QED
    BY <1>1, <2>1, <2>2
<1>4. CASE SetWarmup \/ SetRunning \/ StartSlot \/ SetComplete \/ RecordFailure
  BY <1>4 DEF SetWarmup, SetRunning, StartSlot, SetComplete, RecordFailure, rpcVars
<1>5. CASE ServerStarts \/ ServerStops \/ Acknowledge \/ UNCHANGED vars
  BY <1>1, <1>5 DEF ServerStarts, ServerStops, Acknowledge, Others, agentStatus, vars
<1>6. ASSUME NEW c \in Cancels, CancelSignal(c) \/ CancelRecord(c)
      PROVE  FailureExplained'
  <2>1. token' /\ UNCHANGED outcome
    BY <1>6 DEF CancelSignal, CancelRecord, Others
  <2>2. UNCHANGED <<status, message>> \/ (status' = "Failed" /\ message' = "cancelled")
    BY <1>6 DEF CancelSignal, CancelRecord, agentStatus
  <2> QED
    BY <2>1, <2>2
<1> QED
  BY <1>2, <1>3, <1>4, <1>5, <1>6 DEF Next, MainTask, ServerTask, Exited

\* Nothing that a poll has seen is taken back: results are only added, the
\* announced run does not go back, and a Complete, or what is served once
\* run_agent() has returned, stays.  The one exception is a Failed that a cancel
\* wrote while the run went on: the run may still overwrite it, with Running or
\* with Complete.
TakesNothingBack ==
  /\ Len(results) <= Len(results') /\ (\A n \in DOMAIN results : results'[n] = results[n])
  /\ progress <= progress'
  /\ status = "Complete" \/ outcome # "none" => UNCHANGED agentStatus
  /\ status = "Failed" /\ status' # "Failed" => message = "cancelled" /\ token /\ outcome = "none"

THEOREM WhatIsServedStands == Spec => [][TakesNothingBack]_vars
<1>1. IInv /\ FailureExplained /\ [Next]_vars => [TakesNothingBack]_vars
  <2> SUFFICES ASSUME IInv, FailureExplained, Next
               PROVE  TakesNothingBack
    OBVIOUS
  <2>1. /\ results \in Seq(1 .. Runs) /\ Len(results) \in Nat /\ DOMAIN results = 1 .. Len(results)
        /\ successes \in Nat /\ progress \in Nat
    BY RunsAssumption DEF IInv, TypeOK
  <2> USE RunsAssumption DEF TakesNothingBack, agentStatus
  <2>2. ASSUME UNCHANGED agentStatus
        PROVE  TakesNothingBack
    BY <2>1, <2>2
  <2>3. CASE \/ RunBootstrap \/ LoadConfig \/ SpawnServer \/ WarmupBuild \/ LoopDone
             \/ BudgetSpent \/ NextRun \/ BuildSucceeds \/ BuildFails \/ RunGc
             \/ ShutdownServer \/ JoinServer \/ EndGrace \/ AckReceived \/ AckTimeout
    BY <2>2, <2>3
    DEF RunBootstrap, LoadConfig, SpawnServer, WarmupBuild, LoopDone, BudgetSpent, NextRun,
        BuildSucceeds, BuildFails, RunGc, ShutdownServer, JoinServer, EndGrace, AckReceived,
        AckTimeout, Exit
  <2>4. CASE SetWarmup \/ SetRunning \/ SetComplete \/ RecordFailure
    <3>1. UNCHANGED <<progress, results>>
      BY <2>4 DEF SetWarmup, SetRunning, SetComplete, RecordFailure
    <3>2. status # "Complete" /\ outcome = "none"
      BY <2>4 DEF SetWarmup, SetRunning, SetComplete, RecordFailure, Goto, IInv, TypeOK, EndingsAgree,
                  AfterComplete, Waiting
    <3> QED
      BY <2>1, <3>1, <3>2 DEF FailureExplained
  <2>5. CASE StartSlot
    <3>1. status # "Complete" /\ outcome = "none"
      BY <2>5 DEF StartSlot, Goto, IInv, TypeOK, EndingsAgree, AfterComplete, Waiting
    <3>2. progress <= progress' /\ UNCHANGED results
      BY <2>1, <2>5 DEF StartSlot, Goto, IInv, CountsAgree
    <3> QED
      BY <2>1, <3>1, <3>2 DEF FailureExplained
  <2>6. CASE PublishResult
    <3>1. /\ pc = "publish" /\ results' = Append(results, successes) /\ UNCHANGED <<status, progress>>
      BY <2>6 DEF PublishResult, Goto
    <3>2. status # "Complete" /\ outcome = "none"
      BY <3>1 DEF IInv, EndingsAgree, AfterComplete, Waiting
    <3>3. Len(results') = Len(results) + 1 /\ \A n \in 1 .. Len(results) : results'[n] = results[n]
      BY <2>1, <3>1
    <3>4. Len(results) <= Len(results') /\ progress <= progress'
      BY <2>1, <3>1, <3>3
    <3> QED
      BY <2>1, <3>1, <3>2, <3>3, <3>4, Zenon
  <2>7. CASE ServerStarts \/ ServerStops \/ Acknowledge \/ Exited \/ \E c \in Cancels : CancelSignal(c)
    BY <2>2, <2>7 DEF ServerStarts, ServerStops, Acknowledge, CancelSignal, Exited, vars
  <2>8. ASSUME NEW c \in Cancels, CancelRecord(c)
        PROVE  TakesNothingBack
    <3>1. CASE status \in TerminalCode
      BY <2>2, <2>8, <3>1 DEF CancelRecord
    <3>2. CASE status \notin TerminalCode
      <4>1. UNCHANGED <<progress, results>>
        BY <2>8 DEF CancelRecord
      <4>2. status # "Complete" /\ status # "Failed" /\ outcome = "none"
        BY <3>2 DEF TerminalCode, IInv, TypeOK, EndingsAgree
      <4> QED
        BY <2>1, <4>1, <4>2
    <3> QED
      BY <3>1, <3>2
  <2> QED
    BY <2>3, <2>4, <2>5, <2>6, <2>7, <2>8 DEF Next, MainTask, ServerTask
<1>2. Init => FailureExplained
  BY DEF Init, FailureExplained, Cancelled
<1> QED
  BY <1>1, <1>2, FailureExplainedNext, InductiveInvariant, PTL DEF Spec
-----------------------------------------------------------------------------
\* How far the main task still has to go: five steps for each attempt that the
\* budget leaves, and what comes before and after the loop.
AttemptsLeft == Runs + MaxFailures - successes - failures

StepsLeft ==
  CASE pc = "exited" -> 0
    [] pc = "await_ack" -> 1
    [] pc \in {"grace", "join"} -> 2
    [] pc \in {"failing", "shutdown"} -> 3
    [] pc = "set_complete" -> 4
    [] pc = "loop" -> 5 * AttemptsLeft + 4
    [] pc = "slot" -> 5 * AttemptsLeft + 3
    [] pc = "build" -> 5 * AttemptsLeft + 2
    [] pc = "publish" -> 5 * AttemptsLeft + 6
    [] pc = "gc" -> 5 * AttemptsLeft + 5
    [] pc = "set_running" -> 5 * AttemptsLeft + 5
    [] pc = "warmup" -> 5 * AttemptsLeft + 6
    [] pc = "set_warmup" -> 5 * AttemptsLeft + 7
    [] pc = "spawn" -> 5 * AttemptsLeft + 8
    [] pc = "config" -> 5 * AttemptsLeft + 9
    [] pc = "bootstrap" -> 5 * AttemptsLeft + 10

\* Clients and the server task do not keep the main task from its end.
EndComesNearer ==
  /\ MainTask => StepsLeft' < StepsLeft
  /\ ~MainTask => StepsLeft' = StepsLeft

LEMMA StepsLeftIsNumber == IInv => StepsLeft \in Nat
<1> SUFFICES ASSUME IInv
             PROVE  StepsLeft \in Nat
  OBVIOUS
<1>1. AttemptsLeft \in Nat
  BY RunsAssumption, MaxFailuresAssumption DEF AttemptsLeft, IInv, TypeOK, BudgetLeft
<1> HIDE DEF AttemptsLeft
<1>2. pc \in Phases \cup LoopSteps \cup Endings
  BY DEF IInv, TypeOK
<1> QED
  BY <1>1, <1>2 DEF StepsLeft, Phases, LoopSteps, Endings

\* However builds fail and whatever clients do, the main task ends after at most
\* 5 * (runs + max_failures) + 10 steps: it only has to be scheduled.
THEOREM MainTaskIsBounded ==
  Spec => /\ StepsLeft = 5 * (Runs + MaxFailures) + 10
          /\ [](StepsLeft \in Nat)
          /\ [][EndComesNearer]_vars
<1>1. Init => StepsLeft = 5 * (Runs + MaxFailures) + 10
  BY RunsAssumption, MaxFailuresAssumption DEF Init, StepsLeft, AttemptsLeft
<1>2. IInv /\ [Next]_vars => [EndComesNearer]_vars
  <2> SUFFICES ASSUME IInv, Next
               PROVE  EndComesNearer
    OBVIOUS
  <2>1. /\ successes \in Nat /\ failures \in Nat
        /\ AttemptsLeft \in Nat /\ AttemptsLeft >= 1
    BY RunsAssumption, MaxFailuresAssumption DEF AttemptsLeft, IInv, TypeOK, BudgetLeft
  <2>2. ASSUME UNCHANGED loopVars
        PROVE  AttemptsLeft' = AttemptsLeft
    BY <2>2 DEF loopVars, AttemptsLeft
  <2>3. ASSUME \/ successes' = successes + 1 /\ UNCHANGED failures
               \/ failures' = failures + 1 /\ UNCHANGED successes
        PROVE  AttemptsLeft' = AttemptsLeft - 1
    BY <2>1, <2>3, RunsAssumption, MaxFailuresAssumption DEF AttemptsLeft
  <2> HIDE DEF AttemptsLeft
  <2> DEFINE Nearer == StepsLeft' < StepsLeft
  <2> USE DEF StepsLeft, Goto, GotoOrFail
  <2>4. ASSUME RunBootstrap \/ LoadConfig \/ SpawnServer \/ SetWarmup \/ WarmupBuild \/ SetRunning
        PROVE  Nearer
    BY <2>1, <2>2, <2>4 DEF RunBootstrap, LoadConfig, SpawnServer, SetWarmup, WarmupBuild, SetRunning
  <2>5. ASSUME LoopDone \/ BudgetSpent \/ NextRun \/ StartSlot \/ PublishResult \/ RunGc
        PROVE  Nearer
    BY <2>1, <2>2, <2>5 DEF LoopDone, BudgetSpent, NextRun, StartSlot, PublishResult, RunGc
  <2>6. ASSUME BuildSucceeds \/ BuildFails
        PROVE  Nearer
    BY <2>1, <2>3, <2>6 DEF BuildSucceeds, BuildFails
  <2>7. ASSUME SetComplete \/ ShutdownServer \/ JoinServer \/ RecordFailure \/ EndGrace
        PROVE  Nearer
    BY <2>7 DEF SetComplete, ShutdownServer, JoinServer, RecordFailure, EndGrace
  <2>8. ASSUME AckReceived \/ AckTimeout
        PROVE  Nearer
    BY <2>8 DEF AckReceived, AckTimeout, Exit
  <2>9. ASSUME ServerTask \/ Exited
        PROVE  StepsLeft' = StepsLeft
    <3>1. UNCHANGED <<pc, loopVars>>
      BY <2>9 DEF ServerTask, ServerStarts, ServerStops, Acknowledge, CancelSignal, CancelRecord, Others,
                  Exited, vars, loopVars
    <3> QED
      BY <2>2, <3>1
  <2> HIDE DEF StepsLeft, Nearer
  <2>10. MainTask => Nearer
    BY <2>4, <2>5, <2>6, <2>7, <2>8 DEF MainTask
  <2>11. ~MainTask => StepsLeft' = StepsLeft
    BY <2>9 DEF Next
  <2> QED
    BY <2>10, <2>11 DEF EndComesNearer, Nearer
<1> QED
  BY <1>1, <1>2, StepsLeftIsNumber, InductiveInvariant, PTL DEF Spec
=============================================================================
