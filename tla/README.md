# nix-bench in TLA+

nix-bench measures Nix builds on EC2 instances. A *coordinator* (command line,
with or without a terminal UI) creates an S3 bucket, an IAM role, a security
group and one instance per instance type, starts an *agent* on each, polls the
agents over gRPC, collects results and deletes everything. This directory
models that system in TLA+, checks it with TLC and proves part of it with
TLAPS. `PROJECT.json` maps each definition to the source lines it translates.

## 1. Inventory

Paths are below `src/crates/`; `agent/` stands for `nix-bench-agent/src/`,
`coord/` for `nix-bench-coordinator/src/`.

| Component | State | Operations | Hard behaviour | Status |
|---|---|---|---|---|
| Agent process (`agent/main.rs`, `benchmark.rs`, `gc.rs`) | phase, successful runs, failures, shutdown token | bootstrap, config, warmup, runs with replacement of failed ones, completion, ack wait | cancellation between any two steps, retry budget, what outlives an error | `AgentRun` |
| Agent gRPC service (`agent/grpc.rs`) | `AgentStatus` under a lock, one ack permit | GetStatus, AcknowledgeComplete, CancelBenchmark, graceful stop | handlers in flight while the main task ends | `AgentRun` |
| Log broadcaster, StreamLogs (`agent/grpc.rs`, `command.rs`) | bounded buffer under a mutex, bounded broadcast channel, drop counter | broadcast, replay, live stream, lag | try_lock, push before send, copy before subscribe | `LogStream` |
| Bootstrap, config download (`agent/bootstrap.rs`, `results.rs`, `config.rs`) | none that is shared | disks, Nix, poll of S3 until TLS fields appear | each step may fail or stall, the coordinator may be gone | `Startup` |
| Command runner (`agent/command.rs`) | child process, two readers | run, kill at timeout | output after the kill | outcome and writers only |
| RunEngine (`coord/orchestrator/engine.rs`, `types.rs`) | instances, `acked`, `terminated` | poll, apply, acknowledge, terminate, timeout, console check | stale and overlapping polls, lost answers | `RunEngine` |
| Loops (`orchestrator/benchmark.rs`, `tui/app/event_loop.rs`) | phase of the loop, the App's own copy of the instances | CLI loop, TUI event loop, quit, hand-over | order of polls, completion, abort | `RunEngine`, `TuiApp`, `Provisioning` |
| Initializer (`orchestrator/init.rs`) | guards, context | create bucket, role, group, rule, instances; commit | error or abort at every await | `Provisioning`, `Startup` |
| Guards and executor (`aws/resource_guard/`) | registry, channel, pending items | register, commit, drop, delete by priority | a task beside initialization, process exit | `Provisioning` |
| Run cleanup (`orchestrator/cleanup.rs`) | progress | terminate, delete in order | each call may fail, instances take time to die | `Provisioning` |
| AWS clients (`coord/aws/*.rs`, `aws/ec2/`) | on AWS | create, tag, delete, wait | errors that mean "already gone" | effects and failures, in three modules |
| `wait.rs` | none | checks with backoff | timeout against exhausted backoff | `Startup` |
| Scanner, orphan cleanup (`aws/scanner.rs`, `aws/cleanup.rs`) | report | scan by tags, delete by run | runs that go on, tags that cannot be read, one failing scan, group after instances | `OrphanCleanup` |
| Log client (`aws/grpc_client/`) | one task per instance | wait, connect, stream | readiness, full channel | `Startup`, `TuiApp` |
| TUI state (`tui/app/`, `input.rs`, `orchestrator/progress.rs`) | order, selection, dialogs, phase, engine | keys, mouse, messages | lossy reporter, quit at any time, an engine on its way | `TuiView`, `TuiApp` (not scroll, focus, help) |
| `log_buffer.rs`, `stats.rs` | bounded lines; none | push, replace; mean, deviation | limits, empty input | `TuiApp`; statistics not modelled |
| Rendering, TLS, protocol, CLI parsing, Nix files, `update-tables.py` | — | — | — | not modelled: drawing, library calls, declarations, formatting |

**How they interact.** The agent's main task shares a `RwLock<AgentStatus>`, a
`CancellationToken` and a `Notify` with its gRPC handlers; builds write to the
broadcaster from two more tasks. The coordinator polls `GetStatus`, sends one
`AcknowledgeComplete`, reads `StreamLogs`; nothing in this repository calls
`CancelBenchmark`, which the agent nevertheless serves. In the TUI,
initialization is a task that sends the finished engine over a channel; polls
are tasks that send their answers over another. Dropped guards send messages to
the executor task. `main()` ends the process whatever its tasks do.

**What makes the parts correct.** Agent: what a poll reads is consistent;
Complete means all results; the budget holds; cancellation is prompt; the last
status is true; it ends. Logs: order, bounded repeats, a count of what a slow
client misses. Engine: no stale poll harms a decision; one acknowledgment;
nothing is terminated while it works; the loops end, and not early. Resources:
each has an owner from its guard on, none is deleted under the run, the order
respects dependencies, the cleanup is complete. Startup: whoever serves is
polled, nobody waits for ever unless S3 leaves a request unanswered. Orphans: nothing young or unmatched is deleted,
a clean report is true. TUI: the engine is never forgotten, logs have no gaps,
the user gets out.

## 2. Modules

| Module | What it is |
|---|---|
| `AgentStatus` | The status record of an agent and the steps it may take; shared by the next two |
| `AgentLifecycle` | Abstract specification: what an agent promises to a coordinator that only polls it |
| `AgentRun` | The agent process: main task, benchmark loop, gRPC handlers |
| `Startup` | Machines, their user data and agents until they serve, beside the coordinator's waits, certificates, uploads and log tasks |
| `LogStream` | Writers, buffer, channel and StreamLogs calls |
| `RunEngine` | The engine and both loops, against agents that move as in `AgentStatus` |
| `MCRunEngine` | `RunEngine` with symmetry, for TLC |
| `ResourceOwnership` | Abstract specification: who is responsible for a resource of a run, without channels, timers and the order of creation |
| `Provisioning` | Initialization, guards, executor, the run's use of its resources, cleanup, exit |
| `OrphanCleanup` | `cleanup-orphans`: scan and deletions, against runs that create, delete and die |
| `MCOrphanCleanup` | `OrphanCleanup` with its runs, resources and command lines, for TLC |
| `TuiView` | What the TUI shows and how keys and clicks change it |
| `TuiApp` | The run under the TUI: initialization task, channel, event loop, log tasks, quit, cleanup; extends `TuiView` |
| `*_proofs` | Theorems about `AgentRun`, `Startup`, `LogStream`, `RunEngine`, `Provisioning`, `OrphanCleanup` and `TuiApp` |

**AgentRun.** `pc` is the position of the main task; a step is the code between
two points at which another task can interfere. `BuildSucceeds` ends with the
result in `successful_runs` and `PublishResult` adds it to the status: two
steps, as the status lock is taken in between. `CancelSignal` and
`CancelRecord` are the two halves of one handler. `lateBuilds` is history.
A failed build, one that timed out and one that did not start are the same
thing to the loop, hence one action. Errors of `?` are the second target of
`GotoOrFail`.

**AgentLifecycle.** One record: status, two counters, server up or not. A
terminal status is final, `Complete` only follows the last result, a server that
came up answers until then. `AgentRun` implements it until the first
`CancelBenchmark`, after which an agent may go from Failed back to Running and
end as Complete, because `run_agent()` writes its status unconditionally.
`RunEngine` moves its agents by the status steps of the same definitions, so
its properties rest on what `AgentRun` was shown to implement. Whether the
server is up is not part of its state: a poll may go unanswered at any time,
which is weaker.

**LogStream.** A writer's `broadcast()` is lock-or-skip, push, send; a client's
call is lock, copy, subscribe, replay, follow. `sent` is the whole history of
the channel, of which `Oldest ..` is still there. `from`, `next`, `behind` and
`skipped` say where a call stands in it. `Close` is the biased `select!`: a call
whose token was cancelled ends whatever is unread.

**RunEngine.** One `Apply` is all of `apply_poll_results()`: update,
acknowledge, terminate. It is one step because the loop awaits it and nobody
else has the engine; agents may move between the `Answer`s of one poll and its
`Apply`. In the mode "cli" the steps `timeout`, `poll`, `bootstrap`, `decide`
are the body of the loop; in "tui" polls, ticks and the user interleave.
Completion with results is abstracted to numbers of results. `Keep` is a constant
that no action reads, as the engine does not.

**Provisioning.** Each creation is two steps, the effect on AWS and the guard
that follows the answer, because a task can be aborted between them; a step
that fails goes to "dropping", where the guards are dropped one by one in the
order of their fields, each with its message, beside the executor. `AnswerIsLost`
is a launch that took effect and looks like an error, so that it may be retried or
given up: the machine is in `stray` and in nobody's list, and keeps the group in
use. `Commit` is `commit_all()` and `registry.shutdown()`, which no
await separates. The executor's `select!` is `Receive`, `Stop` and `Timer`. A
deletion takes effect, is refused, or fails, or is never answered and hangs the
executor; an instance stays until `InstanceGone`. Instance types are taken to be
distinct (see the hazards).
With `away`, the profile of the run names another account than the default
credentials, which executor and cleanup use. `Provisioning` implements
`ResourceOwnership` (`ImplementsOwnership`): `held` are the guards, `dropped` what
is being dropped, in the executor's channel or on its list, `owned` what the
engine has recorded, `tried` the deletions asked for; a group that the user provided is none of it.

**ResourceOwnership.** Initialization holds everything; then all of it goes to the
executor at once, or all to the engine at once. Whoever deletes the group has no
instance left that it has not asked to terminate before. The executor tries each
resource once; the engine, whose automatic termination and cleanup may both ask,
keeps what it owns.

**Startup.** `wait_for_resource()` is one operator, `WaitSteps`: from its state and
the answers its check can give, the states that may follow. The same operator
drives the wait for a machine (the check is EC2's state) and the wait for an
agent (the check is GetStatus). The coordinator's phases, the agent's bootstrap
and its poll of S3 are processes that meet in `config`, which stands for
the objects in the bucket. Timeouts may fire at any time, as durations are not
kept. `unanswered` holds the requests to S3 that nobody answers (`DownloadHangs`,
`UploadHangs`): what awaits one of them waits for ever. What it
reaches at `ready` is what `RunEngine` starts from.

**OrphanCleanup.** The command knows only what its five queries return and what the
tags say. Runs go on beside it: they create in the order of initialization, tag
the bucket one step later than they create it, delete in the order of
`full_cleanup()`, and die. `Matches` is `build_discovered_resource()` with its
filters; `blind` are resources whose tags could not be read, which the code
takes for orphans without a run. A `Handle` step is one call of AWS. The
attempts on a group are counted and bounded as in the code. That
initialization takes less time than `--min-age-hours` is an assumption of the
model (guards of `Create` and `GrowOld`).

**TuiView, TuiApp.** The initialization task, the log tasks and the event loop share
the bounded channel. `Report` is the reporter's `try_send()`, which drops a
message when the channel is full; log lines and the engine wait for room
(`HasRoom` is their guard). `engine` says who holds the `RunEngine`; this is the
only thing in the process that knows what to delete. `Quit`, `AbortInit`,
`AwaitInit` and the cleanup phase follow `run_benchmarks_with_tui()`. The list
is sorted as in `sort_instances_by_duration()`, stable, with the selection going
along.

## 3. Runs

| Run | Instance | Shows |
|---|---|---|
| `agent_run` | 3 runs, 2 failures, GC, 2 cancels | six invariants, that the agent exits, and refinement of `AgentLifecycle` until the first cancel |
| `log_stream` | 2 writers, 2 clients, 3 lines, buffer 2, channel 1 | order, repeats, replay, what the counter of losses counts |
| `engine_polls` | TUI, 2 instances, 2 overlapping polls | six properties about stale and repeated answers |
| `engine_loops` | both modes, 2 instances, 1 poll, a timeout | no early end, and no missing end |
| `provisioning` | 2 instances, all 32 combinations of options | refinement of `ResourceOwnership`, order, completeness, progress of the executor |
| `orphan_cleanup` | a run with group and instance, one with bucket, role and profile; 4 command lines, any number of commands | what is spared, what a clean report promises, the order |
| `startup` | 2 machines, 3 delays | who serves is polled; everyone serves, streams or gives up, or awaits S3 |
| `tui_app` | 2 instances, channel of 2, console of 2 lines, 2 lines each | the engine is cleaned up, the tail of each log is shown, the user gets out |
| `agent_ack` | no cancel | **violated**: the server is stopped before the wait for the acknowledgment |
| `engine_results` | 1 instance, TUI | **violated**: the TUI writes results it never updated |
| `engine_keep` | 1 instance, TUI, `--keep` | **violated**: the instance is terminated when its agent has ended |
| `provisioning_guards` | 1 instance | **violated**: the process exits before dropped guards are cleaned up |

The quotes behind the violated ones are the findings in `PROJECT.json`.

**Why the bounds are enough.** Three runs and two failures put a failure before,
between and after successes; two cancels race each other as well as the loop.
Three lines overflow a buffer of two and a channel of one, and leave one writer
two lines, which order needs. Two polls suffice for one to overtake another:
each brings a whole snapshot, and the engine remembers nothing of a poll but
what it wrote. Two instances distinguish "one" from "all". Symmetry is used
only for invariants and one action property, in the mode in which no
definition chooses an element. All counters are bounded by the behaviour
itself: runs by `Runs` and `MaxFailures`, lines by `Lines`, calls by `Cancels`.
A channel of two is full with one message of each kind that waits, and a console
of two lines shows an order, and evicts: the lines of its agent come behind a
placeholder or a note. Two runs suffice for `--run-id` to pass one
over; the group and what has no dependency are in different runs because the
rest of a run does not tell them apart. `MaxRetries` is 1 for `orphan_cleanup`: a
retry changes nothing but its counter. Options that differ only in printing are
left out. The deadlock check is off in `log_stream`, where all may be written,
`startup`, which comes to rest, and `tui_app`, whose program ends.

**Fairness.** Weak, and only where the code has a timer or waits for nothing: the
agent's main task (builds and collections have timeouts); the CLI's loop, its
poll (connect and request timeouts), the clock; the TUI's tick and its two seconds;
the executor, and the drop of guards. In `startup`, every timeout, sleep and task
of coordinator and agent; in `tui_app`, the branches of `select!`, which picks at
random among those that are ready, and the end of an aborted task. None for
agents, instances, answers, users or successful AWS calls.

Calls of AWS are another matter: neither `AwsContext` (`context.rs:43-48`) nor the
agent (`results.rs:34-37`) configures a timeout, and they are awaited bare, so that
one that is never answered holds up its task for ever. Where this is modelled, the
property names the exception: `StartupSettles` a request in `unanswered`,
`DroppedAreDeleted` an executor that hangs (or a process that has ended). Where it
is not, an answer, a refusal included, is assumed: to the console check and the
calls of the cleanup in `TimeoutEndsRun` and `TuiMovesOn`, to those of
`full_cleanup()` in `QuitEnds`, to the download of the configuration in
`AgentExits`. The wait for a machine needs no such assumption, as its timeout
encloses the calls (`wait.rs:48`). One assumption is about the scheduler: the
executor's 100 ms do not pass between the drops of two guards of one struct.

Some results that are less than one would expect:

* A line of the log may come twice although the buffer is copied "BEFORE
  subscribing to avoid duplicates" (`grpc.rs:161`): `OneRepeatPerWriter` says
  how often.
* Lines sent between copy and subscription are lost and not counted, and so are
  those that a stream has not read when it ends. At the end of a run the `select!`
  looks at the token before the channel (`grpc.rs:208`): the last lines of a build
  may reach nobody. `DroppedIsExact` says so with `Unread`.
* `NothingIsLost` starts with the guard and excludes an abort by the user.
  Between an effect on AWS and its guard nobody owns a resource; a user who
  quits between `commit_all()` and the delivery of the engine leaves
  everything behind.
* A machine whose launch took effect but looked like an error (`instance.rs:171-181`)
  is known to nobody and keeps running, and the group that it uses cannot be
  deleted: `CleanupIsComplete` excepts the group in this case (`stray`).
* `AckedAreTerminated` holds in the TUI only, and is claimed without `--keep`:
  automatic termination ignores that flag (the finding of `engine_keep`).
* `CompleteIsCaptured` is about runs that nobody cancelled. A cancelled one may end
  as Complete with fewer results, and its Failed may be overwritten as long as the
  loop has not returned; `EndsAsReported` and `WhatIsServedStands` say what remains.
* A security group that the user provides is recorded like one of the run
  (`init.rs:239`, `engine.rs:430`), and `full_cleanup()` deletes it
  (`cleanup.rs:108`). The model does the same.
* The cleanup loads credentials without `--aws-profile` (`cleanup.rs:44`): `away`.
* `wait_for_resource()` "Times out after `config.timeout`", but its backoff is over
  after three delays (`wait.rs:57`), so that a machine that boots slowly is given
  up. `StartupSettles` and `OnlyContactedServe` hold all the same: the machine
  gets a configuration without certificates and gives up in its turn. A log task
  has about a minute in all for the bootstrap of its agent and is not restarted.
* The agent's "Maximum time to wait for TLS config" (`results.rs:23`) is only looked at
  between two downloads (`results.rs:44`): one without an answer outlasts it, the
  exception in `StartupSettles`.
* Nothing sets the status tag to "active" or anything but "creating": without
  `--force` the orphan cleanup only matches what has no readable tags. Errors of
  the role's five calls are not reported; hence the exception in
  `CleanReportIsClean`.
* In the TUI an initialization that fails shows its error only for "No instances
  launched", and the phase "cleaning up" is never reported. A failed draw while
  the channel is full awaits an initialization task that cannot send its engine:
  `QuitEnds` does not claim an end there, and no other property does;
  `NoEngineIsForgotten` names the loss.
* The TUI enforces no timeout. `TimeoutEndsRun` is about the CLI; of the TUI,
  `QuitEnds` says that the user can leave.
* `OrphanCleanup` keeps the age of a run, not of each of its resources, and
  `--min-age-hours 0` is not covered. `TuiApp` leaves out the first phase and the
  message with the account, and reports the IAM phase also when it is skipped.

## 4. Proofs

Each `*_proofs` module proves, for every value of the constants that meets the
named assumptions of its model (sets finite where the code has lists, sizes
positive, names apart from each other), that an invariant `IInv` is inductive
(`InitInv`, then one step per action, then `InductiveInvariant`), and derives
the properties of the runs from it. TLC has checked each `IInv` first. None of
the properties is inductive by itself; what `IInv` adds is where the argument is.

* **AgentRun_proofs.** Where in its handler a cancel can still be, and what the
  tests at the head of the loop leave true until the build ends: `CountsAgree` (a
  result is unpublished exactly at `publish`), `BudgetLeft`, `TokenExplained`,
  `LateBuildsBounded`, `EndingsAgree` (the status is terminal once the outcome is
  set, so that a handler in flight changes nothing), `CompleteExplained`. All six
  invariants of `agent_run` are theorems. `WhatIsServedStands`: with cancellations
  too, no step takes back a result, a count, a Complete, or what is served once
  `run_agent()` has returned; a Failed is overwritten only if a cancel wrote it and
  the loop goes on (`FailureExplained`: every other Failed comes with an outcome).
  `AgentImplementsLifecycle`: until the first cancel `StatusFollowsTask` ties the
  status to `pc`, and `StepRefines` maps each action to a step of `AgentLifecycle`
  or to a stutter; `NotCancelling` leaves out the handler of a cancel. With
  `Cancels = {}` that is all of `AgentLifecycle`
  (`UncancelledAgentImplementsLifecycle`).
  `MainTaskIsBounded`: each step of the main task lowers `StepsLeft`, which starts at
  5 * (Runs + MaxFailures) + 10, and the handlers leave it.
* **Startup_proofs.** The way of an address: only a wait that ended well sets it
  (`IpsAreAnswers`), certificates are made once for all addresses there will ever
  be (`CertsAreComplete`), S3 tells who has them (`ConfigsFollowCerts`), and a
  server has seen it (`ServersHaveConfig`). `StartupComesToAnEnd`: each step of a
  wait, a log task or a bootstrap lowers its measure, and of the poll of S3 once it
  is late; nobody else raises one; and an instance is launching exactly as long as
  its wait goes on (`WaitsDecide`), so that the phase that awaits it does not wait
  for a wait that has ended.
* **LogStream_proofs.** Each writer pushes and sends in order
  (`WritersInOrder`); what is sent was pushed or skipped as long as nothing was
  evicted, and the buffer stays full once it has evicted (`NothingEvicted`); a
  copy is as good as the buffer was (`CopyIsGood`); the channel goes on at or
  after the last line of each writer in the copy (`ChannelFollows`), which gives
  both the order and the bound on repeats; what was delivered is the copy and
  then lines of the channel (`DeliveredExplained`). `DroppedIsExact` (what was sent since a
  subscription is delivered, counted, or unread) is a sum over all clients, for which the fold of the community module must be unfolded: by
  induction over the set of clients, in the form of a smallest counterexample
  (`WFMin`), as the induction theorems of the library cannot be used. For this
  the calls of StreamLogs are finitely many (`CallsAssumption`): each is a task
  of a connection of one process.
* **RunEngine_proofs.** A report in flight may be old, but what it says of the end is
  true and complete (`ReportsAreTrue`, from `AgentsCount`), so that polls may
  arrive in any order; in the TUI only a poll ends an instance
  (`TuiEndsAreAcked`). `EveryAgentIsAllowed` and `AgentsFollowLifecycle` close the
  chain from `AgentRun` over `AgentLifecycle` to the engine: what the one may do,
  its server left aside, the agents of the other may do, and no more.
  `OverdueRunIsBounded`: once overdue, the CLI has at most |pollable| + 7 steps to
  its end, as each of the loop and of its poll lowers `StepsToEnd` and the world
  leaves it; while it awaits a poll there is one (`CliAwaitsItsPoll`).
  `CapturedWhenComplete`: the TUI's second test for completion is implied by the
  first.
* **Provisioning_proofs.** Who owns a resource: all is under guards during
  initialization (`GuardsStand`), the executor has nothing to do until guards are
  dropped (`ExecutorRests`), then it gets all of them before it is told to stop
  (`ExecutorHasAll`), otherwise the engine has them (`EngineHasAll`). The order of
  the cleanup needs that no instance is launched without being guarded next
  (`LaunchedAreGuarded`) and that a run has one group (`OneGroup`);
  `CleanedSoFar` is the loop invariant of `full_cleanup()`. Guards are dropped one by one
  while the executor already receives, but it starts no batch (`ExecutorRests`) and
  what it has not got is still under a guard. The lemmas `AppendSet` and `TailSet` say what the
  sequences of messages contain. All invariants of the run are theorems, and so is `ImplementsOwnership`
  (`OwnershipIsKept`): the steps of an action that change no owner stutter; that the
  executor has only what had a guard (`OnlyGuardedAreDropped`) and that an
  initialization that failed or was aborted leaves no engine (`EngineIsGone`) are
  what `IInv` lacked. `OneOwnerAtATime` is then proved of `ResourceOwnership`
  alone and carried over. `CommittedStay` says the same of a committed run more
  sharply (`RunIsNotCleanedUp`: nothing but instances was asked to be deleted).
  `ExecutorFinishes`: each step of the executor lowers `ExecutorSteps`, only commit
  and the drop of guards raise it, and the order to stop comes last in its channel
  (`StopsLast`).
* **OrphanCleanup_proofs.** What a query can miss: only buckets lack tags
  (`TaggedFromTheStart`), what was found matched when it was found and matches for
  ever, as age only grows (`FoundIsMatched`), and what was dead and old before
  the scan is in it (`NothingIsMissed`). `WorkIsComplete` says what an execution
  has skipped: nothing. Both action properties are theorems. `ExecutionIsBounded`:
  after the scan, each step of the command makes `DeletionLeft` smaller (things not
  handled yet, then the retries and the wait of the current run), runs that go on
  beside it do not make it larger, and as long as a run has something left one
  resource is next in the order of deletion. It needs that what exists is finite
  (`FinitelyMade`), also when `Owned` is not.
* **TuiApp_proofs.** Where the engine can be: it follows the initialization task
  (`EngineFollowsInit`), at most one is in the channel (`MessagesExplained`), the
  phase "running" implies that the loop holds it (`PhaseFollowsEngine`), and who
  leaves the loop has one of the reasons of `LeavingExplained`. `TypeOK` needs that
  the sort permutes whatever it compares: `Sorted` gives an instance the place that
  the number of those before it says (`BeatsIsTotal`, `SortedIsOrder`, by
  cardinalities); from the same lemmas, `SortIsStable` and `SelectionStays`.
  `TailIsShown` is inductive together with the types: a line is sent with the next
  number, taken from the front of the channel, and pushed behind the last one shown
  (`AppendedToChannel`, `TakenFromChannel`, `PushedLine`, `EvictedTail`).
  `WayOutIsOpen`: no phase is behind the engine in the channel (`PhasesComeFirst`),
  so that none takes the loop back from "running" once all may end; what asks the
  loop to end is not withdrawn; the initialization task is only awaited without
  limit when the terminal broke.

Every safety property that a passing run checks is a theorem, the refinements
included.
Only model-checked are the liveness properties, `AgentExits`, `TimeoutEndsRun`,
`TuiMovesOn`, `DroppedAreDeleted`, `CommitReturns`, `StartupSettles` and `QuitEnds`: they rest on
fairness, hence on ENABLED, which the prover does not handle. What they need besides
fairness is proved, by the measures above: that there is a bounded number of steps
to be taken, that no other process adds to them, and that the ways to them stay open.

## 5. Not modelled, and why

* Rendering, themes and the areas for clicks (`ui.rs`, `theme.rs`, `widgets/`): functions of
  the state. Scroll positions, the panel in focus, help and the estimates of the
  remaining time: nothing else depends on them.
* Statistics (`stats.rs`): floating-point arithmetic. The JSON of the results, tables
  and messages: formatting.
* Certificates, TLS handshakes, serialization, AWS requests: libraries. Their outcomes
  are choices in the models.
* The kill of a build at its timeout and the drain of its pipes
  (`agent/command.rs`): for the loop it is a failed build, for the log two more
  writers. What a process does that survives its kill is outside the code.
* The three attempts of `send_ack_complete()` and of `connect_with_retry()`: one step with
  an outcome, as nobody sees the attempts.
* Two equal instance types in one run: all models take them to be distinct; the
  hazard at `init.rs:312` says what happens otherwise.
* Several regions: one executor per region in the code, and no interaction between
  them.
* Nix files, `update-tables.py`: no state.

## 6. What could follow

1. `NothingIsLost` starts at the guard: a model of AWS-side idempotence (client
   tokens, tagging at creation) would tell how to close the window before it.
2. The command runner as a module of its own, with readers that outlive the child.
3. Duplicate instance types in `Provisioning`, with the map of `init.rs:312`.
4. Proofs of the liveness properties from the measures of section 4, once the
   tools handle ENABLED.
