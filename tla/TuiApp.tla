-------------------------------- MODULE TuiApp --------------------------------
(***************************************************************************)
(* A benchmark under the TUI: run_benchmarks_with_tui() with its event     *)
(* loop, the initialization task that reports to it, the log tasks, and    *)
(* the bounded channel between them.  The engine, which owns all that was  *)
(* created on AWS, goes through that channel.  What initialization does is *)
(* in Provisioning, how polls change instances in RunEngine; here a poll   *)
(* only gives an instance an average or ends it.                           *)
(***************************************************************************)
EXTENDS TuiView

CONSTANTS
  InitPhases,  \* phases that initialization reports, 5 in the code
  Capacity,    \* of the channel, 100
  MaxLines,    \* of a LogBuffer, 10000
  Averages,    \* averages that an instance can have (bound)
  Lines        \* lines that a log task sends (bound)

ASSUME TuiAssumption ==
  /\ {InitPhases, Capacity, MaxLines, Lines} \subseteq Nat \ {0}
  /\ Averages \subseteq Nat \ {None}

VARIABLES
  pc,          \* where run_benchmarks_with_tui() is
  phase,       \* lifecycle.init_phase
  cancelled,   \* the token
  broken,      \* history: a draw failed
  init,        \* the initialization task: its phase, or how it ended
  channel,     \* the messages on their way
  engine,      \* who holds the engine
  streaming,   \* have the log tasks been spawned?
  sent,        \* lines that each log task has sent
  console,     \* console_output of each instance as shown
  average,     \* average duration of each instance, or None
  done         \* instances that ended

vars == <<view, pc, phase, cancelled, broken, init, channel, engine, streaming, sent,
          console, average, done>>

\* Starting is 0, then the phases of initialization.
Running == InitPhases + 1
Completed == InitPhases + 2
Failed == InitPhases + 3
Phase == 0 .. Failed

\* The initialization task, after its phases.
Sending == InitPhases + 1
Sent == InitPhases + 2
InitError == InitPhases + 3
Aborted == InitPhases + 4

PhaseMsg(p) == [kind |-> "phase", phase |-> p]
UpdateMsg(i) == [kind |-> "update", instance |-> i]
NoteMsg(i) == [kind |-> "note", instance |-> i]
LineMsg(i, n) == [kind |-> "line", instance |-> i, number |-> n]
EngineMsg == [kind |-> "engine"]
Message ==
  {PhaseMsg(p) : p \in Phase} \cup {UpdateMsg(i) : i \in Instances}
    \cup {NoteMsg(i) : i \in Instances} \cup {EngineMsg}
    \cup {LineMsg(i, n) : i \in Instances, n \in 1 .. Lines}

\* A line of a console: 0 for a message of the coordinator itself.
Note == 0

TypeOK ==
  /\ ViewTypeOK
  /\ pc \in {"loop", "aborting", "awaiting", "cleanup", "ended"}
  /\ phase \in Phase
  /\ cancelled \in BOOLEAN /\ broken \in BOOLEAN /\ streaming \in BOOLEAN
  /\ init \in 0 .. Aborted
  /\ channel \in Seq(Message) /\ Len(channel) <= Capacity
  /\ engine \in {"none", "task", "channel", "app", "cleanup", "cleaned", "lost"}
  /\ sent \in [Instances -> 0 .. Lines]
  /\ console \in [Instances -> Seq(0 .. Lines)]
  /\ \A i \in Instances : Len(console[i]) <= MaxLines
  /\ average \in [Instances -> Averages \cup {None}]
  /\ done \subseteq Instances

Init ==
  /\ ViewInit
  /\ pc = "loop" /\ phase = 0 /\ cancelled = FALSE /\ broken = FALSE
  /\ init = 0 /\ channel = <<>> /\ engine = "none" /\ streaming = FALSE
  /\ sent = [i \in Instances |-> 0]
  /\ console = [i \in Instances |-> <<>>]
  /\ average = [i \in Instances |-> None]
  /\ done = {}

-----------------------------------------------------------------------------
\* The channel.  rx lives until the end of run_benchmarks_with_tui().

HasRoomStill == Len(channel) <= Capacity   \* mutant

HasRoom == Len(channel) < Capacity

\* Reporter::send(): try_send(), whose failure is ignored.
Report(m) == channel' = IF HasRoom THEN Append(channel, m) ELSE channel

-----------------------------------------------------------------------------
\* The initialization task.

Initializing == pc # "ended" /\ init \in 0 .. InitPhases
InitStep == UNCHANGED <<view, pc, phase, cancelled, broken, sent, console, average, done>>

NextPhase ==
  /\ Initializing /\ init < InitPhases
  /\ init' = init + 1 /\ Report(PhaseMsg(init + 1))
  /\ UNCHANGED <<engine, streaming>> /\ InitStep

\* report_instance_update() and, of an instance that does not start,
\* report_console_output(); both in the last two phases.
ReportInstance(i) ==
  /\ Initializing /\ init >= InitPhases - 1
  /\ Report(UpdateMsg(i)) \/ Report(NoteMsg(i))
  /\ UNCHANGED <<init, engine, streaming>> /\ InitStep

\* initialize() fails: "No instances launched" is the only error whose phase
\* is reported.  The guards see to what was created.
InitFails ==
  /\ Initializing
  /\ init' = InitError
  /\ UNCHANGED channel \/ (init = InitPhases - 1 /\ Report(PhaseMsg(Failed)))
  /\ UNCHANGED <<engine, streaming>> /\ InitStep

\* initialize() has committed the guards: from here on only the engine knows
\* what to delete.
InitSucceeds ==
  /\ Initializing /\ init = InitPhases
  /\ init' = Sending /\ engine' = "task" /\ streaming' = TRUE
  /\ UNCHANGED channel /\ InitStep

SendEngine ==
  /\ pc # "ended" /\ init = Sending /\ HasRoom
  /\ init' = Sent /\ engine' = "channel" /\ channel' = Append(channel, EngineMsg)
  /\ UNCHANGED streaming /\ InitStep

-----------------------------------------------------------------------------
\* The log task of an instance: it waits for room.

SendLine(i) ==
  /\ pc # "ended" /\ streaming /\ HasRoom /\ sent[i] < Lines
  /\ sent' = [sent EXCEPT ![i] = @ + 1]
  /\ channel' = Append(channel, LineMsg(i, sent[i] + 1))
  /\ UNCHANGED <<view, pc, phase, cancelled, broken, init, engine, streaming, console,
                 average, done>>

-----------------------------------------------------------------------------
\* LogBuffer

PushFirst(lines, line) ==   \* mutant: the new line is the one that is dropped
  IF Len(lines) >= MaxLines THEN lines ELSE Append(lines, line)

PushLine(lines, line) ==
  Append(IF Len(lines) >= MaxLines THEN Tail(lines) ELSE lines, line)

-----------------------------------------------------------------------------
\* The event loop.

InLoop == pc = "loop"
Loop == UNCHANGED <<broken, init, streaming, sent>>

\* handle_tui_message()
Receive ==
  /\ InLoop /\ channel # <<>>
  /\ channel' = Tail(channel)
  /\ LET m == Head(channel) IN
     /\ phase' = CASE m.kind = "phase" -> m.phase
                   [] m.kind = "engine" -> Running
                   [] OTHER -> phase
     /\ engine' = IF m.kind = "engine" THEN "app" ELSE engine
     /\ console' = CASE m.kind = "note" -> [console EXCEPT ![m.instance] = <<Note>>]
                     [] m.kind = "line" ->
                          [console EXCEPT ![m.instance] = PushLine(@, m.number)]
                     [] m.kind = "engine" -> [i \in Instances |-> <<>>]
                     [] OTHER -> console
     /\ IF m.kind = "update" THEN Sort(average) ELSE UNCHANGED view
  /\ UNCHANGED <<pc, cancelled, average, done>> /\ Loop

\* An answer that changes an instance: handle_run_events() sorts the list, the
\* message of a failed agent goes to its console.  An older answer than the last
\* may take the results back, and the average with them.
PollAnswer(i) ==
  /\ InLoop /\ engine = "app" /\ i \notin done
  /\ \/ \E a \in Averages \cup {None} : average' = [average EXCEPT ![i] = a] /\ UNCHANGED <<done, console>>
     \/ done' = done \cup {i} /\ UNCHANGED <<average, console>>
     \/ /\ done' = done \cup {i} /\ console' = [console EXCEPT ![i] = PushLine(@, Note)]
        /\ UNCHANGED average
  /\ Sort(average')
  /\ UNCHANGED <<pc, phase, cancelled, channel, engine>> /\ Loop

\* The tick: all instances ended with their results.
Completes ==
  /\ InLoop /\ phase = Running /\ done = Instances
  /\ phase' = Completed
  /\ UNCHANGED <<view, pc, cancelled, channel, engine, console, average, done>> /\ Loop

Key(key) ==
  /\ InLoop
  /\ Press(key)
  /\ cancelled' = (cancelled \/ Confirms(key))
  /\ UNCHANGED <<pc, phase, channel, engine, console, average, done>> /\ Loop

Click ==
  /\ pc \in {"loop", "cleanup"}
  /\ Mouse
  /\ UNCHANGED <<pc, phase, cancelled, channel, engine, console, average, done>> /\ Loop

\* SIGINT, for which a handler is installed once.
Signal ==
  /\ pc # "ended" /\ ~cancelled
  /\ cancelled' = TRUE
  /\ UNCHANGED <<view, pc, phase, channel, engine, console, average, done>> /\ Loop

OnCompletion == phase = Completed   \* mutant: the token does not end the loop

ShouldQuit == cancelled \/ phase = Completed

\* should_quit: by the token, or two seconds after the completion.  What
\* follows depends on the token.
Quit ==
  /\ InLoop /\ ShouldQuit
  /\ pc' = IF cancelled THEN "aborting" ELSE "awaiting"
  /\ UNCHANGED <<view, phase, cancelled, channel, engine, console, average, done>> /\ Loop

\* draw() fails: the loop ends at once, the token is not touched.
DrawFails ==
  /\ pc \in {"loop", "cleanup"}
  /\ broken' = TRUE
  /\ IF InLoop THEN pc' = (IF cancelled THEN "aborting" ELSE "awaiting") /\ UNCHANGED <<engine, channel>>
               ELSE pc' = "ended" /\ engine' = "lost" /\ channel' = <<>>
  /\ UNCHANGED <<view, phase, cancelled, init, streaming, sent, console, average, done>>

-----------------------------------------------------------------------------
\* After the loop.

HoldsUncancelled == engine = "app" /\ ~cancelled   \* mutant: no cleanup after a cancellation

HoldsEngine == engine = "app"

\* The engine is taken for the cleanup; without one, the run is over, and an
\* engine that is still in the channel is dropped with it.
TakeEngine(held) ==
  /\ pc' = IF HoldsEngine THEN "cleanup" ELSE "ended"
  /\ engine' = CASE HoldsEngine -> "cleanup"
                 [] held \in {"task", "channel"} -> "lost"
                 [] OTHER -> held
  /\ channel' = IF HoldsEngine THEN channel ELSE <<>>
  /\ UNCHANGED <<view, phase, cancelled, broken, streaming, sent, console, average, done>>

\* abort(), and 500ms for the task to end.
AbortInit ==
  /\ pc = "aborting"
  /\ init' = IF init \in {Sent, InitError} THEN init ELSE Aborted
  /\ TakeEngine(engine)

\* Without a cancellation the task is awaited, for as long as it takes; its
\* error is only logged.
AwaitInit ==
  /\ pc = "awaiting" /\ init \in {Sent, InitError}
  /\ UNCHANGED init
  /\ TakeEngine(engine)

-----------------------------------------------------------------------------
\* run_cleanup_phase(): the token of its keys is a dummy, its dialog is closed
\* after every key, and only phases are taken from the channel.

CleanupKey(key) ==
  /\ pc = "cleanup"
  /\ confirm' = FALSE
  /\ fullscreen' = IF ~confirm /\ key = "l" THEN ~fullscreen ELSE fullscreen
  /\ selected' = NextSelected(key)
  /\ UNCHANGED <<order, pc, phase, cancelled, channel, engine, console, average, done>> /\ Loop

CleanupReceive ==
  /\ pc = "cleanup" /\ channel # <<>>
  /\ channel' = Tail(channel)
  /\ phase' = IF Head(channel).kind = "phase" THEN Head(channel).phase ELSE phase
  /\ UNCHANGED <<view, pc, cancelled, engine, console, average, done>> /\ Loop

\* full_cleanup() ends, and after one more picture the program.
CleanupEnds ==
  /\ pc = "cleanup"
  /\ pc' = "ended" /\ engine' = "cleaned" /\ phase' = Completed /\ channel' = <<>>
  /\ UNCHANGED <<view, cancelled, console, average, done>> /\ Loop

-----------------------------------------------------------------------------
Next ==
  \/ NextPhase \/ InitFails \/ InitSucceeds \/ SendEngine
  \/ \E i \in Instances : ReportInstance(i) \/ SendLine(i) \/ PollAnswer(i)
  \/ Receive \/ Completes \/ Quit \/ DrawFails
  \/ \E key \in Keys : Key(key) \/ CleanupKey(key)
  \/ Click \/ Signal
  \/ AbortInit \/ AwaitInit
  \/ CleanupReceive \/ CleanupEnds

Spec == Init /\ [][Next]_vars

\* select! picks among its branches at random, so that none that stays ready is
\* left out for ever, and an aborted task ends.  That full_cleanup() ends assumes
\* that AWS answers its calls: AwsContext configures no timeout for them.
\* Neither the user, nor initialization, nor an agent has to do anything.
FairSpec ==
  /\ Spec
  /\ WF_vars(Completes) /\ WF_vars(Quit)
  /\ WF_vars(AbortInit) /\ WF_vars(AwaitInit) /\ WF_vars(CleanupEnds)

-----------------------------------------------------------------------------
(* Whoever leaves the program leaves nothing behind: its end finds the      *)
(* engine cleaned up, in every way the loop can end, except that it was     *)
(* dropped on its way to a loop the user had quit, or that the terminal     *)
(* failed.  No other way is left to lose what only the engine knows.        *)
NoEngineIsForgotten ==
  /\ pc = "ended" => engine \in {"none", "cleaned", "lost"}
  /\ engine = "lost" => broken \/ (cancelled /\ phase < Running)

\* The numbers of the lines of i that are shown, and of those in the channel.
Numbers(lines) == {lines[k] : k \in DOMAIN lines} \ {Note}
Mine(i) == {k \in DOMAIN channel : channel[k].kind = "line" /\ channel[k].instance = i}
Queued(i) == {channel[k].number : k \in Mine(i)}

Ascending(lines) ==
  \A k, l \in DOMAIN lines :
    k < l /\ Note \notin {lines[k], lines[l]} => lines[k] < lines[l]

QueuedInOrder(i) == \A k, l \in Mine(i) : k < l => channel[k].number < channel[l].number

(* While the loop runs the console shows the latest lines of each agent, in *)
(* order and without a gap, up to those that are still on their way: the    *)
(* channel is full at times, reports are dropped, the engine takes over the *)
(* console from the placeholders, and old lines are evicted.                *)
TailIsShown ==
  pc = "loop" => \A i \in Instances :
    /\ Ascending(console[i]) /\ QueuedInOrder(i)
    /\ \E q \in 0 .. sent[i] :
         /\ \E p \in 0 .. q : Numbers(console[i]) = p + 1 .. q
         /\ Queued(i) = q + 1 .. sent[i]

(* The TUI can be left: once the token is cancelled while the loop runs, or *)
(* when all instances ended, the program ends, with its cleanup, whatever   *)
(* initialization, the log tasks or the terminal do.                        *)
QuitEnds ==
  /\ cancelled /\ pc = "loop" ~> pc = "ended"
  /\ done = Instances /\ pc = "loop" ~> pc = "ended"
=============================================================================
