----------------------------- MODULE Provisioning -----------------------------
(***************************************************************************)
(* The life of a run's AWS resources: Initializer::run() creates them one  *)
(* by one and holds a guard of each; dropped guards send their resource to *)
(* the CleanupExecutor, a task of its own; committed ones leave it to the  *)
(* RunEngine, whose cleanup deletes what initialization recorded.  The     *)
(* process ends when main() returns, whatever its tasks are doing.         *)
(*                                                                         *)
(* Creating is two steps, the effect on AWS and the answer that leads to a *)
(* guard, as the TUI may abort the task between them.  A call may fail.    *)
(* Instance types are distinct; the benchmark itself is module RunEngine.  *)
(***************************************************************************)
EXTENDS Naturals, Sequences, FiniteSets, SequencesExt

CONSTANTS
  Instances,   \* the instances to launch, one for each instance type
  Configs      \* the configurations to consider, a subset of Config

Named == {"bucket", "role", "rule", "group", "user_group"}
Groups == {"group", "user_group"}
Resources == Named \cup Instances

\* Does the user provide an instance profile, a security group; --keep; is
\* there a TUI; does --aws-profile name another account than the default
\* credentials?
Config == [profile : BOOLEAN, group : BOOLEAN, keep : BOOLEAN, tui : BOOLEAN, away : BOOLEAN]

ASSUME ProvisioningAssumption ==
  /\ Instances # {} /\ IsFiniteSet(Instances) /\ Instances \cap (Named \cup {"shutdown"}) = {}
  /\ Configs \subseteq Config

VARIABLES
  config,    \* what the user asked for
  pc,        \* where the coordinator is
  live,      \* resources that exist on AWS
  dying,     \* instances that AWS was told to terminate
  todo,      \* instances that are still to be launched
  stray,     \* types of which a machine was launched whose id nobody was told
  guards,    \* resources held by ResourceGuards
  guarded,   \* history: resources that ever had a guard
  recorded,  \* resources that the InitContext or RunEngine knows
  inbox,     \* messages sent to the executor
  pending,   \* the executor's pending items
  exec,      \* where the executor is
  tried,     \* history: resources whose deletion was asked of AWS
  failed,    \* history: resources for which such a call failed
  quit       \* history: did the user abort initialization?

aws == <<live, dying, tried, failed>>
executor == <<inbox, pending, exec>>
vars == <<config, pc, live, dying, todo, stray, guards, guarded, recorded, inbox,
          pending, exec, tried, failed, quit>>

InitSteps == {"bucket", "tag", "role", "role_setup", "upload", "group", "group_rules",
              "rule", "rule_added", "launch", "launching", "wait", "configs"}
HandOverSteps == {"shutdown", "ready"}
CleanupSteps == {"terminate", "delete_bucket", "delete_role", "delete_rules",
                 "await_terminated", "delete_group"}
Failing == {"dropping", "closing", "failed"}

\* Beyond the types: a guard stands for something that exists.
TypeOK ==
  /\ config \in Configs
  /\ pc \in InitSteps \cup HandOverSteps \cup {"running"} \cup CleanupSteps
            \cup {"cleaned", "exited"} \cup Failing
  /\ live \subseteq Resources /\ dying \subseteq Instances
  /\ todo \subseteq Instances /\ stray \subseteq Instances
  /\ guards \subseteq guarded \cap live
  /\ guarded \subseteq Resources
  /\ recorded \subseteq guarded \cup {"user_group"}
  /\ inbox \in Seq(Resources \cup {"shutdown"})
  /\ pending \subseteq Resources
  /\ exec \in {"waiting", "deleting", "draining", "hung", "stopped"}
  /\ failed \subseteq tried /\ tried \subseteq Resources
  /\ quit \in BOOLEAN

Init ==
  /\ config \in Configs
  /\ pc = "bucket"
  /\ live = IF config.group THEN {"user_group"} ELSE {}
  /\ dying = {} /\ todo = Instances /\ stray = {}
  /\ guards = {} /\ guarded = {} /\ recorded = {}
  /\ inbox = <<>> /\ pending = {} /\ exec = "waiting"
  /\ tried = {} /\ failed = {} /\ quit = FALSE

-----------------------------------------------------------------------------
\* Initializer::run()

Step(from, to) == pc = from /\ pc' = to

Creates(from, r, to) ==
  /\ Step(from, to) /\ live' = live \cup {r}
  /\ UNCHANGED <<config, dying, stray, guards, guarded, recorded, executor, tried, failed, quit>>

Guards(from, r, to) ==
  /\ Step(from, to) /\ guards' = guards \cup {r} /\ guarded' = guarded \cup {r}
  /\ UNCHANGED <<config, aws, todo, stray, recorded, executor, quit>>

Passes(from, to) ==
  Step(from, to) /\ UNCHANGED <<config, aws, stray, guards, guarded, recorded, executor, quit>>

CreateBucket == Creates("bucket", "bucket", "tag") /\ UNCHANGED todo
TagBucket == Guards("tag", "bucket", IF config.profile THEN "upload" ELSE "role")

\* create_benchmark_role(): the role, then its policies and its profile.
CreateRole == Creates("role", "role", "role_setup") /\ UNCHANGED todo
SetUpRole == Guards("role_setup", "role", "upload")

UploadAgents == Passes("upload", IF config.group THEN "rule" ELSE "group") /\ UNCHANGED todo

\* create_security_group(): the group, then its ingress rules.
CreateGroup == Creates("group", "group", "group_rules") /\ UNCHANGED todo
AddGroupRules == Guards("group_rules", "group", "launch")

\* A group that the user provides gets one more rule.
AddRule == Creates("rule", "rule", "rule_added") /\ UNCHANGED todo
RuleAdded == Guards("rule_added", "rule", "launch")

WithoutGroupGuarded ==   \* mutant: guards the group that could not be created
  /\ pc \in {"group", "group_rules", "rule"} /\ pc' = "launch"
  /\ guards' = guards \cup {"group"} /\ guarded' = guarded \cup {"group"}
  /\ UNCHANGED <<config, aws, todo, stray, recorded, executor, quit>>

\* No own address or an error of EC2 is logged, and the run goes on without
\* the group or the rule, also when the group exists and its rules do not.
WithoutGroup ==
  \E step \in {"group", "group_rules", "rule"} : Passes(step, "launch") /\ UNCHANGED todo

RunInstance(i) ==
  /\ i \in todo /\ todo' = todo \ {i}
  /\ Creates("launch", i, "launching")

Launched == \E i \in (live \cap Instances) \ guarded : Guards("launching", i, "launch")

\* RunInstances takes effect, but its answer is lost or without an instance id.
\* To launch_instance() that is an error, which it may retry.
AnswerIsLost(i) ==
  /\ pc = "launch" /\ i \in todo
  /\ stray' = stray \cup {i}
  /\ UNCHANGED <<config, pc, aws, todo, guards, guarded, recorded, executor, quit>>

LaunchFails(i) ==
  /\ i \in todo /\ todo' = todo \ {i}
  /\ Passes("launch", "launch")

AllLaunched ==
  /\ todo = {} /\ guards \cap Instances # {}
  /\ Passes("launch", "wait") /\ UNCHANGED todo

\* Some instance has a public IP.
InstancesRun == Passes("wait", "configs") /\ UNCHANGED todo

RecordedOwn == guards \ {"rule"}   \* mutant: forgets the rule's identifier
Recorded == guards \cup (IF config.group THEN {"user_group"} ELSE {})

CommitLate ==   \* mutant: returns with the guards still in place
  /\ Step("configs", "shutdown")
  /\ guards' = {} /\ recorded' = Recorded
  /\ inbox' = SetToSeq(guards) \o <<"shutdown">>
  /\ UNCHANGED <<config, aws, todo, stray, guarded, pending, exec, quit>>

CommitOnly ==   \* mutant: awaits an executor that nobody stops
  /\ Step("configs", "shutdown")
  /\ guards' = {} /\ recorded' = Recorded
  /\ UNCHANGED <<config, aws, todo, stray, guarded, executor, quit>>

\* The configs are uploaded; no await from here to the executor's handle.
Commit ==
  /\ Step("configs", "shutdown")
  /\ guards' = {} /\ recorded' = Recorded
  /\ inbox' = Append(inbox, "shutdown")
  /\ UNCHANGED <<config, aws, todo, stray, guarded, pending, exec, quit>>

ExecutorEnded == exec = "stopped" /\ Passes("shutdown", "ready") /\ UNCHANGED todo

Creating ==
  \/ CreateBucket \/ TagBucket \/ CreateRole \/ SetUpRole \/ UploadAgents
  \/ CreateGroup \/ AddGroupRules \/ AddRule \/ RuleAdded \/ WithoutGroup
  \/ (\E i \in Instances : RunInstance(i) \/ AnswerIsLost(i) \/ LaunchFails(i))
  \/ Launched \/ AllLaunched \/ InstancesRun \/ Commit

-----------------------------------------------------------------------------
\* Initialization that does not succeed.

\* Every `?` of run(), and the bail when nothing was launched.
InitFails ==
  /\ \/ pc \in {"bucket", "tag", "role", "role_setup", "upload", "wait", "configs"}
     \/ pc = "launch" /\ todo = {} /\ guards \cap Instances = {}
  /\ pc' = "dropping"
  /\ UNCHANGED <<config, aws, todo, stray, guards, guarded, recorded, executor, quit>>

\* The user leaves the TUI before it got the engine: the task is aborted where
\* it awaits, or the engine is dropped with the channel.
UserAborts ==
  /\ config.tui /\ pc \in InitSteps \cup HandOverSteps
  /\ pc' = "dropping" /\ recorded' = {} /\ quit' = TRUE
  /\ UNCHANGED <<config, aws, todo, stray, guards, guarded, executor>>

\* The fields of ResourceGuards are dropped in order, without an await, and each
\* guard sends its message.
FieldOrder(r) ==
  CASE r = "bucket" -> 1 [] r = "role" -> 2 [] r = "group" -> 3 [] r = "rule" -> 4
    [] OTHER -> 5

DropGuard(r) ==
  /\ pc = "dropping" /\ r \in guards /\ \A g \in guards : FieldOrder(r) <= FieldOrder(g)
  /\ inbox' = Append(inbox, r) /\ guards' = guards \ {r}
  /\ UNCHANGED <<config, pc, aws, todo, stray, guarded, recorded, pending, exec, quit>>

GuardsDropped == guards = {} /\ Passes("dropping", "closing") /\ UNCHANGED todo

Dropping == GuardsDropped \/ \E r \in Resources : DropGuard(r)

\* The registry is gone, and with it the last sender.
DropRegistry == Passes("closing", "failed") /\ UNCHANGED todo

\* main() returns or exits; the TUI first waits for its user.
Exit ==
  /\ pc \in {"failed", "cleaned"} /\ pc' = "exited"
  /\ UNCHANGED <<config, aws, todo, stray, guards, guarded, recorded, executor, quit>>

-----------------------------------------------------------------------------
\* A call that deletes r: it takes effect (an instance first shuts down), is
\* refused as long as machines use the group until its retries are used up, or
\* fails.  Executor and cleanup use the default credentials: in another
\* account a role, a group or a rule that is not found counts as deleted.

InUse(r) == r \in Groups /\ (live \cap Instances # {} \/ stray # {})
NotFound(r) == config.away /\ r \in Named \ {"bucket"}

Attempt(r) ==
  /\ tried' = tried \cup {r}
  /\ \/ r \in Instances /\ ~config.away /\ dying' = dying \cup {r} /\ UNCHANGED <<live, failed>>
     \/ r \in Named /\ ~InUse(r) /\ ~config.away /\ live' = live \ {r} /\ UNCHANGED <<dying, failed>>
     \/ (InUse(r) \/ NotFound(r)) /\ UNCHANGED <<live, dying, failed>>
     \/ failed' = failed \cup {r} /\ UNCHANGED <<live, dying>>

InstanceGone(i) ==
  /\ pc # "exited" /\ i \in dying \cap live /\ live' = live \ {i}
  /\ UNCHANGED <<config, pc, dying, todo, stray, guards, guarded, recorded, executor, tried, failed, quit>>

-----------------------------------------------------------------------------
\* CleanupExecutor::run()

Runs == pc # "exited"
Elsewhere == UNCHANGED <<config, pc, todo, stray, guards, guarded, recorded, quit>>

Receive ==
  /\ Runs /\ exec = "waiting" /\ inbox # <<>> /\ Head(inbox) # "shutdown"
  /\ pending' = pending \cup {Head(inbox)} /\ inbox' = Tail(inbox)
  /\ UNCHANGED <<exec, aws>> /\ Elsewhere

Closed == inbox = <<>> /\ pc = "failed"
ToldToStop == inbox # <<>> /\ Head(inbox) = "shutdown"

StopAtOnce ==   \* mutant: leaves the loop and the pending items
  /\ Runs /\ exec = "waiting"
  /\ \/ ToldToStop /\ inbox' = Tail(inbox)
     \/ Closed /\ UNCHANGED inbox
  /\ exec' = "stopped"
  /\ UNCHANGED <<pending, aws>> /\ Elsewhere

Stop ==
  /\ Runs /\ exec = "waiting"
  /\ \/ ToldToStop /\ inbox' = Tail(inbox)
     \/ Closed /\ UNCHANGED inbox
  /\ exec' = IF pending = {} THEN "stopped" ELSE "draining"
  /\ UNCHANGED <<pending, aws>> /\ Elsewhere

\* 100ms without a message: more than two guards of one struct need to be
\* dropped one after the other (an assumption about the scheduler).
Timer ==
  /\ Runs /\ exec = "waiting" /\ inbox = <<>> /\ ~Closed /\ pending # {}
  /\ pc # "dropping"
  /\ exec' = "deleting"
  /\ UNCHANGED <<inbox, pending, aws>> /\ Elsewhere

PriorityOfKind(r) ==   \* mutant: in the order of the fields
  CASE r = "bucket" -> 0 [] r = "role" -> 1 [] r = "group" -> 2 [] r = "rule" -> 3
    [] OTHER -> 4
CleanupPriority(r) ==
  CASE r = "bucket" -> 2 [] r = "role" -> 3 [] r = "rule" -> 4 [] r \in Groups -> 5
    [] OTHER -> 0

\* process_pending(): nothing is received until all items were tried.
TryFirst(r) ==
  /\ Runs /\ exec \in {"deleting", "draining"}
  /\ r \in pending /\ \A s \in pending : CleanupPriority(r) <= CleanupPriority(s)
  /\ Attempt(r)
  /\ pending' = pending \ {r}
  /\ UNCHANGED inbox /\ Elsewhere

DeletePending(r) ==
  /\ TryFirst(r)
  /\ exec' = CASE pending' # {} -> exec
               [] pending' = {} /\ exec = "deleting" -> "waiting"
               [] OTHER -> "stopped"

\* AWS never answers, whatever it does; AwsContext configures no timeout.
DeletionHangs(r) == TryFirst(r) /\ exec' = "hung"

Executor == Receive \/ Stop \/ Timer \/ \E r \in Resources : DeletePending(r) \/ DeletionHangs(r)

-----------------------------------------------------------------------------
\* The run, and full_cleanup() of what is recorded.

Known == UNCHANGED <<config, todo, stray, guards, guarded, recorded, executor, quit>>

StartRun == Passes("ready", "running") /\ UNCHANGED todo

\* RunEngine terminates an instance as soon as its agent is through, also with
\* --keep; an error is only logged.
AutoTerminate(i) ==
  /\ pc = "running" /\ i \in recorded \ dying
  /\ tried' = tried \cup {i} /\ dying' = dying \cup {i}
  /\ UNCHANGED <<pc, live, failed>> /\ Known

EndRun == Passes("running", IF config.keep THEN "cleaned" ELSE "terminate") /\ UNCHANGED todo

\* One call for all of them.
Terminate ==
  LET ids == recorded \cap Instances
  IN  /\ Step("terminate", "delete_bucket")
      /\ tried' = tried \cup ids
      /\ \/ ~config.away /\ dying' = dying \cup ids /\ UNCHANGED failed
         \/ failed' = failed \cup ids /\ UNCHANGED dying
      /\ UNCHANGED live /\ Known

DeleteRecorded(from, r, to) ==
  /\ Step(from, to)
  /\ IF r \in recorded THEN Attempt(r) ELSE UNCHANGED aws
  /\ Known

AfterRules == IF recorded \cap Groups = {} THEN "cleaned" ELSE "await_terminated"

DeleteAtOnce ==   \* mutant: does not wait for the instances
  Step("await_terminated", "delete_group") /\ UNCHANGED aws /\ Known

\* wait_for_all_terminated() only logs that it gave up on an instance; one
\* that is not found is gone.
AwaitTerminated ==
  /\ Step("await_terminated", "delete_group")
  /\ failed' = failed \cup (IF config.away THEN {} ELSE recorded \cap Instances \cap live)
  /\ UNCHANGED <<live, dying, tried>> /\ Known

Cleanup ==
  \/ EndRun \/ Terminate
  \/ DeleteRecorded("delete_bucket", "bucket", "delete_role")
  \/ DeleteRecorded("delete_role", "role", "delete_rules")
  \/ DeleteRecorded("delete_rules", "rule", AfterRules)
  \/ AwaitTerminated
  \/ \E g \in recorded \cap Groups : DeleteRecorded("delete_group", g, "cleaned")

-----------------------------------------------------------------------------
Over == pc = "exited" /\ UNCHANGED vars

Next ==
  \/ Creating \/ ExecutorEnded \/ StartRun \/ Cleanup
  \/ InitFails \/ UserAborts \/ Dropping \/ DropRegistry \/ Exit
  \/ Executor
  \/ \E i \in Instances : AutoTerminate(i) \/ InstanceGone(i)
  \/ Over

Spec == Init /\ [][Next]_vars

\* Tasks of the runtime.  Nothing is asked of AWS: a call of the executor may
\* hang, and the calls of initialization and cleanup are not fair.
FairSpec ==
  /\ Spec
  /\ WF_vars(Executor) /\ WF_vars(ExecutorEnded)
  /\ WF_vars(Dropping) /\ WF_vars(DropRegistry)

-----------------------------------------------------------------------------
(***************************************************************************)
(* Properties                                                              *)
(***************************************************************************)

InExecutor == pending \cup {inbox[n] : n \in DOMAIN inbox}

\* As long as the process runs and its user has not aborted it, a resource
\* that once had a guard is held by a guard, on its way through the executor,
\* known to the engine, or was deleted or tried: no path through commit,
\* early returns and shutdown lets go of it.
NothingIsLost ==
  pc # "exited" /\ ~quit => guarded \subseteq guards \cup InExecutor \cup recorded \cup tried

\* Guards, executor and engine do what ResourceOwnership promises: all resources
\* of a run have one owner at a time, and change it all together (guards that
\* are being dropped are the executor's); the group of the user has none of them.
Owned == INSTANCE ResourceOwnership WITH
  Resources <- Resources \ {"user_group"},
  held <- IF pc = "dropping" THEN {} ELSE guards,
  dropped <- (InExecutor \ {"shutdown"}) \cup (IF pc = "dropping" THEN guards ELSE {}),
  owned <- recorded \ {"user_group"},
  tried <- tried \ {"user_group"}

ImplementsOwnership == Owned!OwnershipSpec

\* Whoever deletes the security group, the executor or the cleanup, has asked
\* before for the termination of all instances that had a guard.
GroupGoesLast == "group" \in tried => guarded \cap Instances \subseteq tried

\* After the cleanup of a run in its own account what the engine knew of is
\* gone, or shutting down, unless a call for it failed; the group may also
\* remain when the cleanup gave up on an instance, or when a machine uses it
\* whose launch was never confirmed: never because the cleanup was too early.
CleanedUp ==
  recorded \cap live
    \subseteq failed \cup dying \cup (IF failed \cap Instances = {} /\ stray = {} THEN {} ELSE Groups)

CleanupIsComplete == pc = "cleaned" /\ ~config.keep /\ ~config.away => CleanedUp

\* A dropped resource is deleted, or tried, if the process lasts long enough
\* and AWS answers what the executor asks before.
DroppedAreDeleted ==
  \A r \in Resources : r \in InExecutor ~> r \in tried \/ pc = "exited" \/ exec = "hung"

\* Initialization, which awaits the executor while it still holds a sender of
\* its channel, is not blocked by it forever.
CommitReturns == pc = "shutdown" ~> pc # "shutdown"

\* What ResourceGuards promises: "If dropped without commit (e.g., due to panic
\* or early return), the guards will trigger cleanup of the associated AWS
\* resources".  Here: by the end of a process that its user did not abort.
GuardsTriggerCleanup == pc = "exited" /\ ~quit => guarded \ recorded \subseteq tried
=============================================================================
