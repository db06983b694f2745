------------------------------ MODULE RunEngine ------------------------------
(***************************************************************************)
(* The coordinator after initialization: RunEngine, which owns what is     *)
(* known of every instance, and the loop that drives it, either            *)
(* run_benchmarks_no_tui() ("cli": one poll at a time, timeout and console *)
(* check) or the event loop of the TUI ("tui": a poll is started every     *)
(* 500ms, polls end in any order, the user may quit).                      *)
(*                                                                         *)
(* Each instance runs an agent whose status moves as AgentLifecycle allows *)
(* and stops anywhere.  Whether a poll reaches it (its server is up, its   *)
(* machine runs, the network works) is open at every poll, so none of this *)
(* is state.  Only agents with a public IP are polled and followed.  The   *)
(* environment stops with the run.  InstanceStatus::Terminated and         *)
(* ::Pending are left out: nothing sets the first, no agent reports the    *)
(* second.                                                                 *)
(***************************************************************************)
EXTENDS AgentStatus, FiniteSets

CONSTANTS
  Instances,   \* the instances that were launched
  Polls,       \* status polls that can be in flight at once (bound)
  Modes,       \* subset of {"cli", "tui"}
  Timeout,     \* is flags.timeout > 0?
  Keep         \* flags.keep, which no definition of the engine asks for

ASSUME EngineAssumption ==
  /\ Instances # {} /\ IsFiniteSet(Instances)
  /\ Polls # {} /\ Modes \subseteq {"cli", "tui"}
  /\ Timeout \in BOOLEAN /\ Keep \in BOOLEAN

VARIABLES
  agent,       \* AgentStatus of each agent
  console,     \* instances whose EC2 console matches a failure pattern
  overdue,     \* has start_time been exceeded by more than the timeout?
  mode,        \* which loop drives the engine
  pollable,    \* instances with a public IP
  st,          \* InstanceState.status
  known,       \* InstanceState.run_progress and the number of run_results
  acked,       \* RunEngine.acked
  terminated,  \* RunEngine.terminated: spawn_terminate() was called
  pc,          \* where the loop is
  polls,       \* the polls, in flight or waiting in the channel
  acksSent,    \* history: acknowledgments sent to each instance
  written      \* results that the output file has for each instance

world == <<agent, console, overdue>>
engine == <<st, known, acked, terminated, acksSent>>
vars == <<agent, console, overdue, mode, pollable, st, known, acked, terminated,
          pc, polls, acksSent, written>>

InstanceStatus == {"Starting", "Running", "Complete", "Failed"}
Known == [progress : 0 .. Runs, results : 0 .. Runs]
Report == [status : AgentCode, progress : 0 .. Runs, results : 0 .. Runs]

CliSteps == {"timeout", "poll", "polling", "bootstrap", "decide"}
TuiSteps == {"running", "completed"}

NoPoll == [open |-> FALSE, waiting |-> {}, got |-> <<>>]

TypeOK ==
  /\ agent \in [Instances -> AgentRecord]
  /\ console \subseteq Instances
  /\ overdue \in BOOLEAN
  /\ mode \in Modes
  /\ pollable \subseteq Instances
  /\ st \in [Instances -> InstanceStatus]
  /\ known \in [Instances -> Known]
  /\ acked \subseteq pollable /\ terminated \subseteq acked
  /\ pc \in (IF mode = "cli" THEN CliSteps ELSE TuiSteps) \cup {"cleanup", "ended"}
  /\ \A p \in Polls :
       /\ polls[p].open \in BOOLEAN /\ polls[p].waiting \subseteq pollable
       /\ \A i \in DOMAIN polls[p].got : i \in pollable /\ polls[p].got[i] \in Report
  /\ acksSent \in [Instances -> Nat]
  /\ written \in [Instances -> 0 .. Runs]

\* initialize() fails unless some instance has an IP; one that never reached
\* EC2's running state is Failed and has none.
Init ==
  /\ agent = [i \in Instances |-> FreshAgent]
  /\ console = {} /\ overdue = FALSE
  /\ mode \in Modes
  /\ pollable \in SUBSET Instances \ {{}}
  /\ st \in [Instances -> {"Starting", "Failed"}]
  /\ \A i \in pollable : st[i] = "Starting"
  /\ known = [i \in Instances |-> [progress |-> 0, results |-> 0]]
  /\ acked = {} /\ terminated = {}
  /\ pc = IF mode = "cli" THEN "timeout" ELSE "running"
  /\ polls = [p \in Polls |-> NoPoll]
  /\ acksSent = [i \in Instances |-> 0]
  /\ written = [i \in Instances |-> 0]

-----------------------------------------------------------------------------
\* The world outside the coordinator, as long as the run lasts.

Lasting == pc # "ended"
Coordinator == UNCHANGED <<mode, pollable, engine, pc, polls, written>>

AgentMoves(i) ==
  /\ Lasting /\ i \in pollable
  /\ \E a \in StatusSteps(agent[i]) \cup RunSteps(agent[i]) : agent' = [agent EXCEPT ![i] = a]
  /\ UNCHANGED <<console, overdue>> /\ Coordinator

\* The console shows a line that detect_bootstrap_failure() matches, such as
\* "No such file or directory"; only the loop of the CLI reads it.
ConsoleMatches(i) ==
  /\ Lasting /\ mode = "cli" /\ i \notin console
  /\ console' = console \cup {i}
  /\ UNCHANGED <<agent, overdue>> /\ Coordinator

TimePasses ==
  /\ Lasting /\ mode = "cli" /\ Timeout /\ ~overdue
  /\ overdue' = TRUE
  /\ UNCHANGED <<agent, console>> /\ Coordinator

-----------------------------------------------------------------------------
\* One poll: prepare_poll(), execute(), and the answers it collects.

Others == UNCHANGED <<world, mode, pollable, engine, written>>

\* The CLI awaits its poll, so it only ever needs one of them.
OnlyPoll == CHOOSE p \in Polls : TRUE

StartPoll(p) ==
  /\ ~polls[p].open
  /\ \/ pc = "poll" /\ p = OnlyPoll /\ pc' = "polling"
     \/ pc = "running" /\ UNCHANGED pc
  /\ polls' = [polls EXCEPT ![p] = [open |-> TRUE, waiting |-> pollable, got |-> <<>>]]
  /\ Others

Extended(f, i, v) == [j \in DOMAIN f \cup {i} |-> IF j = i THEN v ELSE f[j]]

\* GetStatus reads the agent's status under its lock.
Answer(p, i) ==
  /\ Lasting /\ i \in polls[p].waiting
  /\ LET a == agent[i]
         report == [status |-> a.status, progress |-> a.progress, results |-> a.results]
     IN  polls' = [polls EXCEPT ![p].waiting = @ \ {i}, ![p].got = Extended(@, i, report)]
  /\ UNCHANGED pc /\ Others

\* No connection, an error or a timeout: the instance is left out of the map.
NoAnswer(p, i) ==
  /\ Lasting /\ i \in polls[p].waiting
  /\ polls' = [polls EXCEPT ![p].waiting = @ \ {i}]
  /\ UNCHANGED pc /\ Others

-----------------------------------------------------------------------------
\* apply_poll_results()

IsTerminal(status) == status \in {"Complete", "Failed"}

FromAnyCode(code) == code   \* mutant
FromStatusCode(code) == IF code \in TerminalCode THEN code ELSE "Running"

SettledNever(i) == FALSE   \* mutant
Settled(i) == IsTerminal(st[i]) /\ i \in acked

\* Instances whose report changes the state.
Updated(got) == {i \in DOMAIN got : ~Settled(i)}
Ended(got) == {i \in Updated(got) : IsTerminal(FromStatusCode(got[i].status))}

ToAckAgain(got) == Ended(got) \cup (DOMAIN got \cap {i \in acked : IsTerminal(st[i])})   \* mutant
ToAck(got) == Ended(got) \ acked

ToTerminateUnfinished(got) == {i \in Updated(got) \ terminated : got[i].results = Runs}  \* mutant
ToTerminateKnown(got) == {i \in Ended(got) \ terminated : st[i] = "Running"}            \* mutant
ToTerminate(got) == {i \in Ended(got) \ terminated : ~IsTerminal(st[i])}

UpdatedStale(got) ==   \* mutant: keeps the result count of the previous poll
  [i \in Instances |->
     IF i \in Updated(got) THEN [progress |-> got[i].progress, results |-> known[i].results]
     ELSE known[i]]
UpdatedCounts(got) ==
  [i \in Instances |->
     IF i \in Updated(got) THEN [progress |-> got[i].progress, results |-> got[i].results]
     ELSE known[i]]

\* The loop awaits the acknowledgments, so nothing else touches the engine.
Apply(p) ==
  /\ polls[p].open /\ polls[p].waiting = {}
  /\ \/ pc = "polling" /\ pc' = "bootstrap"
     \/ pc \in TuiSteps /\ UNCHANGED pc
  /\ LET got == polls[p].got
     IN  /\ st' = [i \in Instances |->
                     IF i \in Updated(got) THEN FromStatusCode(got[i].status) ELSE st[i]]
         /\ known' = UpdatedCounts(got)
         /\ acked' = acked \cup ToAck(got)
         /\ acksSent' = [i \in Instances |-> acksSent[i] + (IF i \in ToAck(got) THEN 1 ELSE 0)]
         /\ terminated' = terminated \cup ToTerminate(got)
  /\ polls' = [polls EXCEPT ![p] = NoPoll]
  /\ UNCHANGED <<world, mode, pollable, written>>

-----------------------------------------------------------------------------
\* The loop of the CLI.

IsAllComplete == \A i \in Instances : IsTerminal(st[i])

Goto(from, to) == pc = from /\ pc' = to
LoopOnly == UNCHANGED <<world, mode, pollable, polls, written>>

\* check_timeout(): an instance that it fails ends the loop.
CheckTimeoutOnce ==   \* mutant: marks the instances and goes on polling
  /\ Goto("timeout", "poll")
  /\ st' = IF overdue THEN [i \in Instances |-> IF IsTerminal(st[i]) THEN st[i] ELSE "Failed"]
           ELSE st
  /\ UNCHANGED <<known, acked, terminated, acksSent>> /\ LoopOnly

CheckTimeout ==
  /\ Goto("timeout", IF overdue /\ ~IsAllComplete THEN "cleanup" ELSE "poll")
  /\ st' = IF overdue THEN [i \in Instances |-> IF IsTerminal(st[i]) THEN st[i] ELSE "Failed"]
           ELSE st
  /\ UNCHANGED <<known, acked, terminated, acksSent>> /\ LoopOnly

\* check_bootstrap_failures(): every instance that is not known to have ended
\* is asked for its console, which EC2 may not give.
CheckBootstrap ==
  /\ Goto("bootstrap", "decide")
  /\ \E seen \in SUBSET {i \in console : ~IsTerminal(st[i]) /\ i \notin acked} :
       st' = [i \in Instances |-> IF i \in seen THEN "Failed" ELSE st[i]]
  /\ UNCHANGED <<known, acked, terminated, acksSent>> /\ LoopOnly

DecideAny ==   \* mutant: one is enough
  /\ Goto("decide", IF \E i \in Instances : IsTerminal(st[i]) THEN "cleanup" ELSE "timeout")
  /\ UNCHANGED engine /\ LoopOnly

\* Either all instances have ended or the loop sleeps and starts over.
Decide ==
  /\ Goto("decide", IF IsAllComplete THEN "cleanup" ELSE "timeout")
  /\ UNCHANGED engine /\ LoopOnly

\* The loop of the TUI: ticks, and the user or Ctrl+C.

CapturedOfAll == \A i \in Instances : known[i].results >= Runs   \* mutant
AllResultsCaptured ==
  \A i \in Instances :
    \/ st[i] = "Complete" /\ known[i].results >= known[i].progress
    \/ st[i] = "Failed"

Tick ==
  /\ Goto("running", "completed")
  /\ IsAllComplete /\ AllResultsCaptured
  /\ UNCHANGED engine /\ LoopOnly

\* Two seconds after completion.
AutoQuit == Goto("completed", "cleanup") /\ UNCHANGED engine /\ LoopOnly

UserQuits ==
  /\ pc \in TuiSteps /\ pc' = "cleanup"
  /\ UNCHANGED engine /\ LoopOnly

\* engine.cleanup() logs what it cannot delete and succeeds.  The CLI then writes
\* the engine's instances.  The TUI's engine is gone by then: it writes
\* App.instances, which only initialization ever updated.
Cleanup ==
  /\ Goto("cleanup", "ended")
  /\ written' = [i \in Instances |-> IF mode = "cli" THEN known[i].results ELSE 0]
  /\ UNCHANGED <<world, mode, pollable, engine, polls>>

-----------------------------------------------------------------------------
CliLoop == CheckTimeout \/ CheckBootstrap \/ Decide \/ Cleanup

Polling ==
  \E p \in Polls :
    \/ StartPoll(p) \/ Apply(p)
    \/ \E i \in Instances : Answer(p, i) \/ NoAnswer(p, i)

World ==
  \/ \E i \in Instances : AgentMoves(i) \/ ConsoleMatches(i)
  \/ TimePasses

Over == pc = "ended" /\ UNCHANGED vars

Next == CliLoop \/ Tick \/ AutoQuit \/ UserQuits \/ Polling \/ World \/ Over

Spec == Init /\ [][Next]_vars

\* A poll has a connect and a request timeout, an acknowledgment too; the
\* tick, the two seconds and the clock are timers of the runtime.  That the
\* console check and the cleanup end is an assumption about AWS, which answers
\* or refuses every call: AwsContext configures no timeout for them.
FairSpec ==
  /\ Spec
  /\ WF_vars(CliLoop) /\ WF_vars(Tick) /\ WF_vars(AutoQuit) /\ WF_vars(TimePasses)
  /\ WF_vars(pc \in {"poll", "polling"} /\ Polling)

-----------------------------------------------------------------------------
(***************************************************************************)
(* Properties                                                              *)
(***************************************************************************)

\* An instance shown as Complete has all its results, whichever of several
\* polls the engine took them from: none is left behind on a machine that
\* the engine is about to terminate.
CompleteHasResults ==
  \A i \in Instances :
    st[i] = "Complete" => known[i].results = Runs /\ known[i].progress = Runs

\* The engine terminates a machine by itself only when its agent is through:
\* never while a run is in progress, however old the poll it acts upon.
OnlyFinishedAreTerminated ==
  \A i \in terminated : agent[i].status \in TerminalCode

KeepsAcked ==
  \A i \in acked : IsTerminal(st[i]) => st'[i] = st[i] /\ known'[i] = known[i]

\* A poll that was started earlier and ends later does not undo what is final:
\* an instance whose end was acknowledged keeps its status and its results.
AckedIsFinal == [][KeepsAcked]_vars

\* However many polls report the same end, it is acknowledged once.
AckedOnce == \A i \in Instances : acksSent[i] = IF i \in acked THEN 1 ELSE 0

\* In the TUI, where nothing but a poll ends an instance, every instance that
\* ended is also terminated without waiting for the others, in a run that is
\* not to keep them.
AckedAreTerminated == mode = "tui" /\ ~Keep => acked = terminated

\* With --keep, documented as "Keep instances after benchmark", the engine
\* leaves them running.
KeptAreNotTerminated == Keep => terminated = {}

\* The CLI cleans up only when each instance has ended or was given up.
CliWaitsForAll == mode = "cli" /\ pc \in {"cleanup", "ended"} => IsAllComplete

\* The timeout ends every run of the CLI, whatever agents, machines and the
\* network do, also when a poll overwrites an instance that was marked Failed.
TimeoutEndsRun == mode = "cli" ~> pc = "ended"

\* When all instances are known to have ended the TUI goes on to clean up: the
\* test that their results are captured is never what it waits for.
TuiMovesOn == mode = "tui" /\ IsAllComplete ~> pc \notin TuiSteps

\* What the TUI's end says of the results it writes: "use app.instances which
\* has synced state".
ResultsAreWritten ==
  pc = "ended" => \A i \in Instances : written[i] = known[i].results
=============================================================================
