------------------------- MODULE Provisioning_proofs -------------------------
(***************************************************************************)
(* Theorems about Provisioning, for any number of instances and every      *)
(* configuration: who owns a resource at each point, and that neither the  *)
(* executor nor the cleanup touches one at the wrong time.  The inductive  *)
(* invariant follows the resources from guards to executor or engine.      *)
(***************************************************************************)
EXTENDS Provisioning, FiniteSetTheorems, TLAPS

\* Where the executor may have something to do.
Dropped == {"closing", "failed", "exited"}

\* Where the engine owns what was created.
EngineSteps == HandOverSteps \cup {"running", "cleaned"} \cup CleanupSteps

\* Guards are held until they are committed or dropped, and what they stand for
\* was there when they were made.
GuardsStand ==
  /\ pc \in InitSteps => guarded = guards /\ recorded = {} /\ inbox = <<>>
  /\ pc = "dropping" =>
       guards = {} \/ (guarded \subseteq guards \cup InExecutor /\ "shutdown" \notin InExecutor)
  /\ pc \notin InitSteps \cup {"dropping"} => guards = {}
  /\ "user_group" \notin guarded
  /\ pc = "tag" => "bucket" \in live
  /\ pc = "role_setup" => "role" \in live
  /\ pc = "group_rules" => "group" \in live
  /\ pc = "rule_added" => "rule" \in live

\* Until guards are dropped the executor has nothing but its signal to stop, and
\* until all are dropped it only collects them.
ExecutorRests ==
  /\ pc \notin Dropped \cup {"dropping"} => pending = {} /\ ToSet(inbox) \subseteq {"shutdown"}
  /\ pc \notin Dropped => exec \in {"waiting", "stopped"}
  /\ pc \in InitSteps \cup HandOverSteps \cup {"dropping"} => tried = {}
  /\ dying \subseteq tried

\* Then it gets all of them, and is not told to stop.
ExecutorHasAll ==
  /\ InExecutor \ {"shutdown"} # {} => guarded \subseteq guards \cup InExecutor \cup tried
  /\ "shutdown" \in InExecutor => InExecutor = {"shutdown"} /\ guards = {}
  /\ exec \in {"deleting", "draining", "hung"} => inbox = <<>>

\* Otherwise the engine has them, and asks for the instances first.
EngineHasAll ==
  /\ pc \in EngineSteps => guarded \subseteq recorded
  /\ pc \in HandOverSteps \cup {"running", "terminate"} => tried \subseteq Instances
  /\ pc \in CleanupSteps \ {"terminate"} => recorded \cap Instances \subseteq tried

\* What is launched is guarded before anything else happens.
LaunchedAreGuarded ==
  /\ pc \in (InitSteps \ {"launching"}) \cup EngineSteps => live \cap Instances \subseteq guarded
  /\ pc = "launching" => \A i, j \in (live \cap Instances) \ guarded : i = j

\* A run has one group, its own or its user's.
OneGroup ==
  /\ pc \in {"group", "group_rules"} \/ "group" \in guarded => ~config.group
  /\ "user_group" \in recorded => config.group

\* r is gone or could not be deleted.
Handled(r) == r \in recorded \cap live => r \in failed

\* What the cleanup of a run in its own account has done so far.
CleanedSoFar ==
  /\ pc \in CleanupSteps => ~config.keep
  /\ ~config.away /\ ~config.keep =>
       /\ pc \in (CleanupSteps \ {"terminate"}) \cup {"cleaned"}
            => recorded \cap Instances \subseteq failed \cup dying
       /\ pc \in (CleanupSteps \ {"terminate", "delete_bucket"}) \cup {"cleaned"} => Handled("bucket")
       /\ pc \in {"delete_rules", "await_terminated", "delete_group", "cleaned"} => Handled("role")
       /\ pc \in {"await_terminated", "delete_group", "cleaned"} => Handled("rule")
       /\ pc = "delete_group" => recorded \cap Instances \cap live \subseteq failed
       /\ pc = "cleaned" =>
            failed \cap Instances # {} \/ stray # {} \/ (Handled("group") /\ Handled("user_group"))

IInv ==
  /\ TypeOK
  /\ GuardsStand /\ ExecutorRests /\ ExecutorHasAll /\ EngineHasAll
  /\ LaunchedAreGuarded /\ OneGroup /\ CleanedSoFar
  /\ NothingIsLost /\ GroupGoesLast

-----------------------------------------------------------------------------
\* Sequences and their elements.
LEMMA AppendSet ==
  ASSUME NEW X, NEW s \in Seq(X), NEW x \in X
  PROVE  Append(s, x) \in Seq(X) /\ ToSet(Append(s, x)) = ToSet(s) \cup {x}
<1>1. /\ Append(s, x) \in Seq(X) /\ Len(s) \in Nat
      /\ DOMAIN s = 1 .. Len(s) /\ DOMAIN Append(s, x) = 1 .. Len(s) + 1
      /\ \A k \in 1 .. Len(s) : Append(s, x)[k] = s[k]
      /\ Append(s, x)[Len(s) + 1] = x
  OBVIOUS
<1>2. ToSet(Append(s, x)) \subseteq ToSet(s) \cup {x}
  <2> SUFFICES ASSUME NEW k \in 1 .. Len(s) + 1
               PROVE  Append(s, x)[k] \in ToSet(s) \cup {x}
    BY <1>1 DEF ToSet
  <2>1. k \in 1 .. Len(s) \/ k = Len(s) + 1
    BY <1>1
  <2> QED
    BY <1>1, <2>1 DEF ToSet
<1>3. ToSet(s) \cup {x} \subseteq ToSet(Append(s, x))
  <2>1. \A k \in 1 .. Len(s) : k \in DOMAIN Append(s, x)
    BY <1>1
  <2>2. Len(s) + 1 \in DOMAIN Append(s, x)
    BY <1>1
  <2> QED
    BY <1>1, <2>1, <2>2 DEF ToSet
<1> QED
  BY <1>1, <1>2, <1>3

LEMMA TailSet ==
  ASSUME NEW X, NEW s \in Seq(X), s # <<>>
  PROVE  /\ Head(s) \in X /\ Tail(s) \in Seq(X)
         /\ ToSet(s) = {Head(s)} \cup ToSet(Tail(s))
<1>1. /\ Head(s) = s[1] /\ Tail(s) \in Seq(X) /\ 1 \in DOMAIN s
      /\ DOMAIN s = 1 .. Len(s) /\ Len(s) \in Nat /\ DOMAIN Tail(s) = 1 .. Len(s) - 1
      /\ \A k \in 1 .. Len(s) - 1 : Tail(s)[k] = s[k + 1]
  OBVIOUS
<1>2. ToSet(Tail(s)) \subseteq ToSet(s)
  <2> SUFFICES ASSUME NEW k \in 1 .. Len(s) - 1
               PROVE  Tail(s)[k] \in ToSet(s)
    BY <1>1 DEF ToSet
  <2>1. k + 1 \in DOMAIN s
    BY <1>1
  <2> QED
    BY <1>1, <2>1 DEF ToSet
<1>3. ToSet(s) \subseteq {Head(s)} \cup ToSet(Tail(s))
  <2> SUFFICES ASSUME NEW k \in 1 .. Len(s), k # 1
               PROVE  s[k] \in ToSet(Tail(s))
    BY <1>1 DEF ToSet
  <2>1. k - 1 \in DOMAIN Tail(s) /\ Tail(s)[k - 1] = s[k]
    BY <1>1
  <2> QED
    BY <2>1 DEF ToSet
<1> QED
  BY <1>1, <1>2, <1>3 DEF ToSet

-----------------------------------------------------------------------------
LEMMA InitInv == Init => IInv
<1> SUFFICES ASSUME Init
             PROVE  IInv
  OBVIOUS
<1> USE ProvisioningAssumption DEF Init
<1>1. inbox \in Seq(Resources \cup {"shutdown"}) /\ ToSet(inbox) = {} /\ InExecutor = {}
  BY DEF ToSet, InExecutor
<1>2. live \cap Instances = {} /\ "user_group" \notin Instances
  BY DEF Named
<1>3. TypeOK
  BY <1>1 DEF TypeOK, InitSteps, Resources, Named
<1>4. GuardsStand /\ ExecutorRests /\ ExecutorHasAll /\ EngineHasAll
  BY <1>1 DEF GuardsStand, ExecutorRests, ExecutorHasAll, EngineHasAll, EngineSteps,
              InitSteps, HandOverSteps, CleanupSteps
<1>5. LaunchedAreGuarded /\ OneGroup /\ CleanedSoFar /\ NothingIsLost /\ GroupGoesLast
  BY <1>2 DEF LaunchedAreGuarded, OneGroup, CleanedSoFar, NothingIsLost, GroupGoesLast,
              EngineSteps, InitSteps, HandOverSteps, CleanupSteps
<1> QED
  BY <1>3, <1>4, <1>5 DEF IInv

\* Initialization creates and guards, one after the other, while nothing is
\* deleted.
LEMMA CreatingInv == IInv /\ Creating /\ ~Commit => IInv'
<1> SUFFICES ASSUME IInv, Creating, ~Commit
             PROVE  IInv'
  OBVIOUS
<1> USE ProvisioningAssumption
<1>1. pc \in InitSteps /\ UNCHANGED <<config, dying, recorded, inbox, pending, exec, tried, failed, quit>>
  BY DEF Creating, CreateBucket, TagBucket, CreateRole, SetUpRole, UploadAgents, CreateGroup,
         AddGroupRules, AddRule, RuleAdded, WithoutGroup, RunInstance, AnswerIsLost, LaunchFails, Launched,
         AllLaunched, InstancesRun, Creates, Guards, Passes, Step, InitSteps, aws, executor
<1>2. pc' \in InitSteps
  BY DEF Creating, CreateBucket, TagBucket, CreateRole, SetUpRole, UploadAgents, CreateGroup,
         AddGroupRules, AddRule, RuleAdded, WithoutGroup, RunInstance, AnswerIsLost, LaunchFails, Launched,
         AllLaunched, InstancesRun, Creates, Guards, Passes, Step, InitSteps
<1>3. /\ guarded = guards /\ recorded = {} /\ inbox = <<>> /\ pending = {} /\ tried = {} /\ dying = {}
      /\ exec \in {"waiting", "stopped"}
  BY <1>1 DEF IInv, GuardsStand, ExecutorRests, InitSteps, Dropped
<1>4. InExecutor = {} /\ ToSet(inbox) = {}
  BY <1>3 DEF InExecutor, ToSet
<1> USE <1>1, <1>2, <1>3, <1>4
<1>5. (ExecutorRests /\ ExecutorHasAll /\ EngineHasAll /\ CleanedSoFar /\ GroupGoesLast)'
  BY DEF IInv, ExecutorRests, ExecutorHasAll, EngineHasAll, CleanedSoFar, GroupGoesLast, InExecutor,
         InitSteps, HandOverSteps, CleanupSteps, EngineSteps, Dropped
<1> DEFINE Progress == (TypeOK /\ GuardsStand /\ LaunchedAreGuarded /\ OneGroup /\ NothingIsLost)'
<1>6. ASSUME NEW r \in {"bucket", "role", "group", "rule"}, NEW to \in InitSteps, UNCHANGED todo,
             \/ to = "tag" /\ r = "bucket" /\ Creates("bucket", r, to)
             \/ to = "role_setup" /\ r = "role" /\ Creates("role", r, to)
             \/ to = "group_rules" /\ r = "group" /\ Creates("group", r, to)
             \/ to = "rule_added" /\ r = "rule" /\ Creates("rule", r, to)
      PROVE  Progress
  BY <1>6, ZenonT(60)
  DEF IInv, TypeOK, GuardsStand, LaunchedAreGuarded, OneGroup, NothingIsLost, Creates, Step, Resources,
      Named, InitSteps, HandOverSteps, CleanupSteps, EngineSteps
<1>7. ASSUME NEW to \in InitSteps \ {"launching", "tag", "role_setup", "group_rules", "rule_added"},
             \/ to \in {"upload", "role"} /\ Guards("tag", "bucket", to)
             \/ to = "upload" /\ Guards("role_setup", "role", to)
             \/ to = "launch" /\ Guards("group_rules", "group", to)
             \/ to = "launch" /\ Guards("rule_added", "rule", to)
      PROVE  Progress
  BY <1>7, ZenonT(60)
  DEF IInv, TypeOK, GuardsStand, LaunchedAreGuarded, OneGroup, NothingIsLost, Guards, Step, aws,
      Resources, Named, InitSteps, HandOverSteps, CleanupSteps, EngineSteps, Groups
<1>8. ASSUME NEW from \in InitSteps \ {"launching"}, NEW to \in InitSteps, todo' \subseteq todo,
             to \notin {"launching", "tag", "role_setup", "group_rules", "rule_added"},
             to = "group" => ~config.group,
             Passes(from, to)
      PROVE  Progress
  BY <1>8
  DEF IInv, TypeOK, GuardsStand, LaunchedAreGuarded, OneGroup, NothingIsLost, Passes, Step, aws,
      Resources, Named, InitSteps, HandOverSteps, CleanupSteps, EngineSteps
<1>9. ASSUME NEW i \in Instances, RunInstance(i)
      PROVE  Progress
  BY <1>9
  DEF IInv, TypeOK, GuardsStand, LaunchedAreGuarded, OneGroup, NothingIsLost, RunInstance, Creates,
      Step, Resources, Named, InitSteps, HandOverSteps, CleanupSteps, EngineSteps
<1>10. ASSUME Launched
       PROVE  Progress
  <2>1. PICK i \in (live \cap Instances) \ guarded : Guards("launching", i, "launch")
    BY <1>10 DEF Launched
  <2>2. /\ pc = "launching" /\ pc' = "launch" /\ i \in live /\ i \in Instances /\ i \notin Named
        /\ guards' = guards \cup {i} /\ guarded' = guarded \cup {i} /\ UNCHANGED <<live, todo, stray>>
    BY <2>1 DEF Guards, Step, aws
  <2>3. live \cap Instances \subseteq guarded'
    BY <2>1, <2>2 DEF IInv, LaunchedAreGuarded
  <2>4. (TypeOK /\ GuardsStand)'
    BY <2>2 DEF IInv, TypeOK, GuardsStand, Resources, Named, InitSteps
  <2>5. (LaunchedAreGuarded /\ OneGroup /\ NothingIsLost)'
    BY <2>2, <2>3 DEF IInv, LaunchedAreGuarded, OneGroup, NothingIsLost, Named
  <2> QED
    BY <2>4, <2>5
<1>11. ASSUME NEW i \in Instances, AnswerIsLost(i)
       PROVE  Progress
  BY <1>11
  DEF IInv, TypeOK, GuardsStand, LaunchedAreGuarded, OneGroup, NothingIsLost, AnswerIsLost, aws,
      InitSteps, HandOverSteps, CleanupSteps, EngineSteps
<1> HIDE DEF Progress
<1>12. Progress
  <2>1. CASE CreateBucket \/ CreateRole \/ CreateGroup \/ AddRule
    BY <2>1, <1>6 DEF CreateBucket, CreateRole, CreateGroup, AddRule, InitSteps
  <2>2. CASE TagBucket \/ SetUpRole \/ AddGroupRules \/ RuleAdded
    BY <2>2, <1>7 DEF TagBucket, SetUpRole, AddGroupRules, RuleAdded, InitSteps
  <2>3. CASE UploadAgents \/ WithoutGroup \/ AllLaunched \/ InstancesRun
    BY <2>3, <1>8 DEF UploadAgents, WithoutGroup, AllLaunched, InstancesRun, InitSteps
  <2>4. ASSUME NEW i \in Instances, LaunchFails(i)
        PROVE  Progress
    BY <2>4, <1>8 DEF LaunchFails, InitSteps
  <2> QED
    BY <1>9, <1>10, <1>11, <2>1, <2>2, <2>3, <2>4 DEF Creating
<1> QED
  BY <1>5, <1>12 DEF IInv, Progress

\* What has guards goes to the engine.
LEMMA CommitInv == IInv /\ Commit => IInv'
<1> SUFFICES ASSUME IInv, Commit
             PROVE  IInv'
  OBVIOUS
<1>1. /\ pc = "configs" /\ pc' = "shutdown" /\ guards' = {} /\ recorded' = Recorded
      /\ inbox' = Append(inbox, "shutdown")
      /\ UNCHANGED <<config, live, dying, tried, failed, todo, stray, guarded, pending, exec, quit>>
  BY DEF Commit, Step, aws
<1>2. guarded = guards /\ inbox = <<>> /\ pending = {} /\ tried = {} /\ exec \in {"waiting", "stopped"}
  BY <1>1 DEF IInv, GuardsStand, ExecutorRests, InitSteps, Dropped
<1>3. inbox' = <<"shutdown">> /\ ToSet(inbox') = {"shutdown"} /\ InExecutor' = {"shutdown"}
  BY <1>1, <1>2 DEF ToSet, InExecutor
<1>4. inbox' \in Seq(Resources \cup {"shutdown"})
  BY <1>3
<1>5. guarded \subseteq recorded' /\ recorded' \subseteq guarded \cup {"user_group"}
  BY <1>1, <1>2 DEF Recorded
<1> USE <1>1, <1>2, <1>3, <1>4, <1>5
<1>6. (TypeOK /\ GuardsStand /\ ExecutorRests /\ ExecutorHasAll)'
  BY DEF IInv, TypeOK, GuardsStand, ExecutorRests, ExecutorHasAll, InitSteps, HandOverSteps
<1>7. (EngineHasAll /\ LaunchedAreGuarded /\ CleanedSoFar)'
  BY DEF IInv, EngineHasAll, LaunchedAreGuarded, CleanedSoFar, InitSteps, HandOverSteps, CleanupSteps,
         EngineSteps
<1>8. OneGroup'
  BY DEF IInv, GuardsStand, OneGroup, Recorded
<1>9. (NothingIsLost /\ GroupGoesLast)'
  BY DEF NothingIsLost, GroupGoesLast
<1> QED
  BY <1>6, <1>7, <1>8, <1>9 DEF IInv

\* Initialization ends without success: what it made goes to the executor.
LEMMA FailingInv ==
  IInv /\ (InitFails \/ UserAborts \/ Dropping \/ DropRegistry \/ Exit) => IInv'
<1> SUFFICES ASSUME IInv, InitFails \/ UserAborts \/ Dropping \/ DropRegistry \/ Exit
             PROVE  IInv'
  OBVIOUS
<1> USE ProvisioningAssumption
<1> USE DEF IInv, TypeOK, GuardsStand, ExecutorRests, ExecutorHasAll, EngineHasAll, LaunchedAreGuarded,
            OneGroup, CleanedSoFar, NothingIsLost, GroupGoesLast, InitSteps, HandOverSteps,
            CleanupSteps, EngineSteps, Dropped, Failing, InExecutor, Handled
<1>1. CASE InitFails
  BY <1>1 DEF InitFails, aws, executor
<1>2. CASE UserAborts
  BY <1>2 DEF UserAborts, aws, executor
<1>3. ASSUME NEW r \in Resources, DropGuard(r)
      PROVE  IInv'
  <2>1. /\ pc = "dropping" /\ r \in guards /\ guards' = guards \ {r} /\ inbox' = Append(inbox, r)
        /\ UNCHANGED <<config, pc, live, dying, tried, failed, todo, stray, guarded, recorded, pending,
                       exec, quit>>
    BY <1>3 DEF DropGuard, aws
  <2>2. inbox' \in Seq(Resources \cup {"shutdown"}) /\ ToSet(inbox') = ToSet(inbox) \cup {r}
    BY <2>1, AppendSet
  <2>3. InExecutor' = InExecutor \cup {r}
    <3>1. InExecutor = pending \cup ToSet(inbox) /\ InExecutor' = pending' \cup ToSet(inbox')
      BY DEF ToSet
    <3> QED
      BY <2>1, <2>2, <3>1, ZenonT(60)
  <2>4. /\ guarded \subseteq guards \cup InExecutor /\ "shutdown" \notin InExecutor
        /\ exec \in {"waiting", "stopped"} /\ tried = {} /\ r # "shutdown"
    BY <2>1 DEF Resources, Named
  <2>5. guarded \subseteq guards' \cup InExecutor' /\ "shutdown" \notin InExecutor'
    BY <2>1, <2>3, <2>4
  <2> HIDE DEF InExecutor
  <2> QED
    BY <2>1, <2>2, <2>3, <2>4, <2>5
<1>6. CASE GuardsDropped
  BY <1>6 DEF GuardsDropped, Passes, Step, aws, executor
<1>4. CASE DropRegistry
  BY <1>4 DEF DropRegistry, Passes, Step, aws, executor
<1>5. CASE Exit
  <2>1. /\ pc \in {"failed", "cleaned"} /\ pc' = "exited"
        /\ UNCHANGED <<config, live, dying, tried, failed, todo, stray, guards, guarded, recorded, inbox,
                       pending, exec, quit>>
    BY <1>5 DEF Exit, aws, executor
  <2>2. InExecutor' = InExecutor
    BY <2>1
  <2> HIDE DEF InExecutor
  <2> QED
    BY <2>1, <2>2
<1> QED
  BY <1>1, <1>2, <1>3, <1>4, <1>5, <1>6 DEF Dropping

\* One deletion: what it may change.
LEMMA AttemptChanges ==
  ASSUME IInv, NEW r \in Resources, Attempt(r)
  PROVE  /\ tried' = tried \cup {r}
         /\ live' \subseteq live /\ dying \subseteq dying' /\ failed \subseteq failed'
         /\ dying' \subseteq Instances /\ dying' \subseteq tried' /\ failed' \subseteq tried'
         /\ live \cap Instances = live' \cap Instances
         /\ r \in Named /\ ~config.away => r \notin live' \/ r \in failed' \/ InUse(r)
BY ProvisioningAssumption
DEF Attempt, IInv, TypeOK, ExecutorRests, NotFound

\* The executor moves what it was sent towards its deletion, instances first.
LEMMA ExecutorInv == IInv /\ Executor => IInv'
<1> SUFFICES ASSUME IInv, Executor
             PROVE  IInv'
  OBVIOUS
<1> USE ProvisioningAssumption
<1> USE DEF IInv, TypeOK
<1>1. /\ UNCHANGED <<config, pc, todo, stray, guards, guarded, recorded, quit>>
      /\ pc # "exited"
  BY DEF Executor, Receive, Stop, Timer, DeletePending, DeletionHangs, TryFirst, Elsewhere, Runs
<1>2. "shutdown" \notin Resources
  BY DEF Resources, Named
<1>3. CASE Receive
  <2>1. /\ inbox # <<>> /\ Head(inbox) # "shutdown" /\ exec = "waiting"
        /\ pending' = pending \cup {Head(inbox)} /\ inbox' = Tail(inbox)
        /\ UNCHANGED <<exec, live, dying, tried, failed>>
    BY <1>3 DEF Receive, aws
  <2>2. /\ Head(inbox) \in Resources /\ inbox' \in Seq(Resources \cup {"shutdown"})
        /\ ToSet(inbox) = {Head(inbox)} \cup ToSet(inbox')
    BY <2>1, TailSet
  <2>3. InExecutor' = InExecutor
    BY <2>1, <2>2 DEF InExecutor, ToSet
  <2>4. pc \in Dropped \cup {"dropping"}
    BY <2>1, <2>2 DEF ExecutorRests
  <2> QED
    BY <1>1, <2>1, <2>2, <2>3, <2>4
    DEF GuardsStand, ExecutorRests, ExecutorHasAll, EngineHasAll, LaunchedAreGuarded, OneGroup,
        CleanedSoFar, NothingIsLost, GroupGoesLast, Dropped, InitSteps, Handled
<1>4. CASE Stop
  <2>1. /\ exec = "waiting" /\ exec' = IF pending = {} THEN "stopped" ELSE "draining"
        /\ UNCHANGED <<pending, live, dying, tried, failed>>
        /\ \/ inbox # <<>> /\ Head(inbox) = "shutdown" /\ inbox' = Tail(inbox)
           \/ inbox = <<>> /\ UNCHANGED inbox /\ pc = "failed"
    BY <1>4 DEF Stop, ToldToStop, Closed, aws
  <2>2. /\ inbox' \in Seq(Resources \cup {"shutdown"}) /\ ToSet(inbox') \subseteq ToSet(inbox)
        /\ ToSet(inbox) \subseteq ToSet(inbox') \cup {"shutdown"}
        /\ inbox # inbox' => "shutdown" \in ToSet(inbox)
    <3>1. CASE inbox # <<>> /\ Head(inbox) = "shutdown" /\ inbox' = Tail(inbox)
      <4>1. inbox' \in Seq(Resources \cup {"shutdown"}) /\ ToSet(inbox) = {"shutdown"} \cup ToSet(inbox')
        BY <3>1, TailSet
      <4> QED
        BY <4>1
    <3>2. CASE UNCHANGED inbox
      BY <3>2
    <3> QED
      BY <2>1, <3>1, <3>2
  <2>3. InExecutor' \subseteq InExecutor /\ InExecutor \subseteq InExecutor' \cup {"shutdown"}
    BY <2>1, <2>2 DEF InExecutor, ToSet
  <2>4. inbox # inbox' => pending = {}
    <3>1. "shutdown" \in ToSet(inbox) => InExecutor = {"shutdown"}
      BY DEF ExecutorHasAll, InExecutor, ToSet
    <3> QED
      BY <1>2, <2>2, <3>1 DEF InExecutor
  <2>5. guarded \subseteq Resources /\ (pending # {} => inbox' = <<>>)
    BY <2>1, <2>4
  <2>6. inbox = <<>> => inbox' = <<>>
    BY <2>1
  <2> QED
    BY <1>1, <1>2, <2>1, <2>2, <2>3, <2>4, <2>5, <2>6
    DEF GuardsStand, ExecutorRests, ExecutorHasAll, EngineHasAll, LaunchedAreGuarded, OneGroup,
        CleanedSoFar, NothingIsLost, GroupGoesLast, Handled
<1>5. CASE Timer
  <2>1. /\ pending # {} /\ inbox = <<>> /\ exec' = "deleting" /\ pc # "dropping"
        /\ UNCHANGED <<inbox, pending, live, dying, tried, failed>>
    BY <1>5 DEF Timer, aws
  <2> QED
    BY <1>1, <2>1
    DEF GuardsStand, ExecutorRests, ExecutorHasAll, EngineHasAll, LaunchedAreGuarded, OneGroup,
        CleanedSoFar, NothingIsLost, GroupGoesLast, InExecutor, Handled
<1>6. ASSUME NEW r \in Resources, DeletePending(r) \/ DeletionHangs(r)
      PROVE  IInv'
  <2>1. /\ exec \in {"deleting", "draining"} /\ r \in pending /\ pending' = pending \ {r}
        /\ \A s \in pending : CleanupPriority(r) <= CleanupPriority(s)
        /\ exec' \in {"deleting", "draining", "waiting", "hung", "stopped"}
        /\ UNCHANGED inbox
    BY <1>6 DEF DeletePending, DeletionHangs, TryFirst
  <2>2. /\ tried' = tried \cup {r}
        /\ live' \subseteq live /\ dying \subseteq dying' /\ failed \subseteq failed'
        /\ dying' \subseteq Instances /\ dying' \subseteq tried' /\ failed' \subseteq tried'
    BY <1>6, AttemptChanges DEF DeletePending, DeletionHangs, TryFirst
  <2>3. inbox = <<>> /\ InExecutor = pending /\ InExecutor' = pending \ {r}
    BY <2>1 DEF ExecutorHasAll, InExecutor
  <2>4. pc \in Dropped /\ guards = {}
    BY <2>1 DEF ExecutorRests, GuardsStand, Dropped, InitSteps
  <2>5. guarded \subseteq pending \cup tried
    BY <1>2, <2>1, <2>3, <2>4 DEF ExecutorHasAll
  <2>6. GroupGoesLast'
    <3>1. CASE r = "group"
      <4>1. ASSUME NEW i \in Instances, i \in pending
            PROVE  FALSE
        <5>1. i \notin Named
          OBVIOUS
        <5>2. CleanupPriority(r) = 5 /\ CleanupPriority(i) = 0
          BY <3>1, <5>1 DEF CleanupPriority, Named, Groups
        <5> QED
          BY <2>1, <4>1, <5>2
      <4> QED
        BY <1>1, <2>2, <2>5, <4>1 DEF GroupGoesLast
    <3>2. CASE r # "group"
      BY <1>1, <2>2, <3>2 DEF GroupGoesLast
    <3> QED
      BY <3>1, <3>2
  <2>7. TypeOK'
    BY <1>1, <2>1, <2>2, <2>4
  <2>8. (GuardsStand /\ ExecutorRests /\ ExecutorHasAll /\ NothingIsLost)'
    BY <1>1, <1>2, <2>1, <2>2, <2>3, <2>4, <2>5
    DEF GuardsStand, ExecutorRests, ExecutorHasAll, NothingIsLost, Dropped, InitSteps, HandOverSteps
  <2>9. (EngineHasAll /\ LaunchedAreGuarded /\ OneGroup /\ CleanedSoFar)'
    BY <1>1, <2>4
    DEF EngineHasAll, LaunchedAreGuarded, OneGroup, CleanedSoFar, EngineSteps, Dropped, InitSteps,
        HandOverSteps, CleanupSteps
  <2> QED
    BY <2>6, <2>7, <2>8, <2>9
<1> QED
  BY <1>3, <1>4, <1>5, <1>6 DEF Executor

\* The run and its cleanup: instances first, the group when they are gone or
\* counted as failed.
LEMMA EngineInv ==
  ASSUME IInv,
         \/ ExecutorEnded \/ StartRun \/ Cleanup
         \/ \E i \in Instances : AutoTerminate(i)
  PROVE  IInv'
<1> USE ProvisioningAssumption
<1> DEFINE Frame == UNCHANGED <<config, todo, stray, guards, guarded, recorded, inbox, pending, exec, quit>>
           Rest == (TypeOK /\ GuardsStand /\ ExecutorRests /\ ExecutorHasAll /\ LaunchedAreGuarded
                    /\ OneGroup /\ NothingIsLost)'
           Own == (EngineHasAll /\ CleanedSoFar /\ GroupGoesLast)'
           Calls == /\ live' \subseteq live /\ tried \subseteq tried' /\ tried' \subseteq Resources
                    /\ dying' \subseteq Instances /\ dying' \subseteq tried' /\ failed' \subseteq tried'
<1>1. ASSUME Frame, Calls, pc \in EngineSteps, pc' \in EngineSteps, pc' \in HandOverSteps => tried' = {}
      PROVE  Rest
  <2>1. /\ guards = {} /\ pending = {} /\ exec \in {"waiting", "stopped"}
        /\ ToSet(inbox) \subseteq {"shutdown"} /\ guarded \subseteq recorded
        /\ live \cap Instances \subseteq guarded
    BY <1>1 DEF IInv, GuardsStand, ExecutorRests, EngineHasAll, LaunchedAreGuarded, EngineSteps,
                InitSteps, HandOverSteps, CleanupSteps, Dropped
  <2>2. InExecutor' = InExecutor
    BY <1>1 DEF InExecutor
  <2>3. (TypeOK /\ GuardsStand /\ ExecutorRests)'
    BY <1>1, <2>1 DEF IInv, TypeOK, GuardsStand, ExecutorRests, EngineSteps, InitSteps, HandOverSteps,
                      CleanupSteps, Dropped, ToSet
  <2>4. (ExecutorHasAll /\ LaunchedAreGuarded /\ OneGroup /\ NothingIsLost)'
    BY <1>1, <2>1, <2>2
    DEF IInv, ExecutorHasAll, LaunchedAreGuarded, OneGroup, NothingIsLost, EngineSteps, InitSteps,
        HandOverSteps, CleanupSteps
  <2> QED
    BY <2>3, <2>4
<1>2. recorded \subseteq guarded \cup {"user_group"} /\ recorded \subseteq Resources
  BY DEF IInv, TypeOK, Resources, Named
<1>3. CASE ExecutorEnded \/ StartRun
  <2>1. /\ Frame /\ UNCHANGED <<live, dying, tried, failed>>
        /\ \/ pc = "shutdown" /\ pc' = "ready"
           \/ pc = "ready" /\ pc' = "running"
    BY <1>3 DEF ExecutorEnded, StartRun, Passes, Step, aws, executor
  <2>2. tried = {}
    BY <2>1 DEF IInv, ExecutorRests, HandOverSteps
  <2>3. Rest
    BY <1>1, <2>1, <2>2 DEF IInv, TypeOK, ExecutorRests, EngineSteps, HandOverSteps
  <2>4. Own
    BY <2>1, <2>2 DEF IInv, EngineHasAll, CleanedSoFar, GroupGoesLast, EngineSteps, HandOverSteps,
                      CleanupSteps
  <2> QED
    BY <2>3, <2>4 DEF IInv
<1>4. ASSUME NEW i \in Instances, AutoTerminate(i)
      PROVE  IInv'
  <2>1. /\ Frame /\ pc = "running" /\ pc' = "running" /\ UNCHANGED <<live, failed>>
        /\ tried' = tried \cup {i} /\ dying' = dying \cup {i}
    BY <1>4 DEF AutoTerminate, Known, executor
  <2>2. Rest
    BY <1>1, <2>1 DEF IInv, TypeOK, ExecutorRests, EngineSteps, HandOverSteps, Resources
  <2>3. tried' \subseteq Instances /\ "group" \notin Instances
    BY <2>1 DEF IInv, EngineHasAll, Named
  <2>4. Own
    BY <2>1, <2>3 DEF IInv, EngineHasAll, CleanedSoFar, GroupGoesLast, EngineSteps, HandOverSteps,
                      CleanupSteps
  <2> QED
    BY <2>2, <2>4 DEF IInv
<1>5. CASE EndRun
  <2>1. /\ Frame /\ pc = "running" /\ pc' = (IF config.keep THEN "cleaned" ELSE "terminate")
        /\ UNCHANGED <<live, dying, tried, failed>>
    BY <1>5 DEF EndRun, Passes, Step, aws, executor
  <2>2. Rest
    BY <1>1, <2>1 DEF IInv, TypeOK, ExecutorRests, EngineSteps, HandOverSteps, CleanupSteps
  <2>3. Own
    BY <2>1 DEF IInv, EngineHasAll, CleanedSoFar, GroupGoesLast, EngineSteps, HandOverSteps, CleanupSteps
  <2> QED
    BY <2>2, <2>3 DEF IInv
<1>6. CASE Terminate
  <2> DEFINE ids == recorded \cap Instances
  <2>1. /\ Frame /\ pc = "terminate" /\ pc' = "delete_bucket" /\ UNCHANGED live
        /\ tried' = tried \cup ids
        /\ \/ ~config.away /\ dying' = dying \cup ids /\ UNCHANGED failed
           \/ failed' = failed \cup ids /\ UNCHANGED dying
    BY <1>6 DEF Terminate, Step, Known, executor
  <2>2. Calls
    BY <1>2, <2>1 DEF IInv, TypeOK, ExecutorRests
  <2>3. Rest
    BY <1>1, <2>1, <2>2 DEF EngineSteps, HandOverSteps, CleanupSteps
  <2>4. tried' \subseteq Instances /\ "group" \notin Instances
    BY <2>1 DEF IInv, EngineHasAll, Named
  <2>5. Own
    BY <2>1, <2>4 DEF IInv, EngineHasAll, CleanedSoFar, GroupGoesLast, EngineSteps, HandOverSteps,
                      CleanupSteps
  <2> QED
    BY <2>3, <2>5 DEF IInv
<1> DEFINE Late == CleanupSteps \ {"terminate"}
<1>7. ASSUME NEW from \in Late, NEW to \in Late \cup {"cleaned"}, NEW r \in Named, DeleteRecorded(from, r, to)
      PROVE  /\ Frame /\ pc = from /\ pc' = to /\ Calls /\ Rest
             /\ (EngineHasAll /\ GroupGoesLast)'
             /\ dying \subseteq dying' /\ failed \subseteq failed'
             /\ r \in recorded /\ ~config.away => r \notin live' \/ r \in failed' \/ InUse(r)
  <2>1. Frame /\ pc = from /\ pc' = to
    BY <1>7 DEF DeleteRecorded, Step, Known, executor
  <2>2. /\ Calls /\ dying \subseteq dying' /\ failed \subseteq failed' /\ tried' \subseteq tried \cup {r}
        /\ r \in recorded /\ ~config.away => r \notin live' \/ r \in failed' \/ InUse(r)
    <3>1. CASE r \in recorded
      <4>1. Attempt(r) /\ r \in Resources
        BY <1>7, <3>1 DEF DeleteRecorded, Resources
      <4> QED
        BY <4>1, AttemptChanges DEF IInv, TypeOK
    <3>2. CASE r \notin recorded
      BY <1>7, <3>2 DEF DeleteRecorded, IInv, TypeOK, ExecutorRests, aws
    <3> QED
      BY <3>1, <3>2
  <2>3. Rest
    BY <1>1, <2>1, <2>2 DEF EngineSteps, CleanupSteps, HandOverSteps
  <2>4. (EngineHasAll /\ GroupGoesLast)'
    BY <2>1, <2>2 DEF IInv, EngineHasAll, GroupGoesLast, EngineSteps, HandOverSteps, CleanupSteps
  <2> QED
    BY <2>1, <2>2, <2>3, <2>4
<1>8. CASE DeleteRecorded("delete_bucket", "bucket", "delete_role")
  <2>1. /\ Frame /\ pc = "delete_bucket" /\ pc' = "delete_role" /\ Calls /\ Rest
        /\ (EngineHasAll /\ GroupGoesLast)'
        /\ dying \subseteq dying' /\ failed \subseteq failed'
        /\ "bucket" \in recorded /\ ~config.away => "bucket" \notin live' \/ "bucket" \in failed' \/ InUse("bucket")
    BY <1>7, <1>8 DEF CleanupSteps, Named
  <2>2. CleanedSoFar'
    BY <2>1 DEF IInv, CleanedSoFar, Handled, InUse, Groups, CleanupSteps
  <2> QED
    BY <2>1, <2>2 DEF IInv
<1>9. CASE DeleteRecorded("delete_role", "role", "delete_rules")
  <2>1. /\ Frame /\ pc = "delete_role" /\ pc' = "delete_rules" /\ Calls /\ Rest
        /\ (EngineHasAll /\ GroupGoesLast)'
        /\ dying \subseteq dying' /\ failed \subseteq failed'
        /\ "role" \in recorded /\ ~config.away => "role" \notin live' \/ "role" \in failed' \/ InUse("role")
    BY <1>7, <1>9 DEF CleanupSteps, Named
  <2>2. CleanedSoFar'
    BY <2>1 DEF IInv, CleanedSoFar, Handled, InUse, Groups, CleanupSteps
  <2> QED
    BY <2>1, <2>2 DEF IInv
<1>10. CASE DeleteRecorded("delete_rules", "rule", AfterRules)
  <2>1. AfterRules \in {"cleaned", "await_terminated"} /\ (AfterRules = "cleaned" => recorded \cap Groups = {})
    BY DEF AfterRules
  <2>2. /\ Frame /\ pc = "delete_rules" /\ pc' = AfterRules /\ Calls /\ Rest
        /\ (EngineHasAll /\ GroupGoesLast)'
        /\ dying \subseteq dying' /\ failed \subseteq failed'
        /\ "rule" \in recorded /\ ~config.away => "rule" \notin live' \/ "rule" \in failed' \/ InUse("rule")
    BY <1>7, <1>10, <2>1 DEF CleanupSteps, Named
  <2>3. CleanedSoFar'
    BY <2>1, <2>2 DEF IInv, CleanedSoFar, Handled, InUse, Groups, CleanupSteps
  <2> QED
    BY <2>2, <2>3 DEF IInv
<1>11. CASE AwaitTerminated
  <2>1. /\ Frame /\ pc = "await_terminated" /\ pc' = "delete_group" /\ UNCHANGED <<live, dying, tried>>
        /\ failed' = failed \cup (IF config.away THEN {} ELSE recorded \cap Instances \cap live)
    BY <1>11 DEF AwaitTerminated, Step, Known, executor
  <2>2. Calls
    BY <2>1 DEF IInv, TypeOK, ExecutorRests, EngineHasAll, CleanupSteps
  <2>3. Rest
    BY <1>1, <2>1, <2>2 DEF EngineSteps, HandOverSteps, CleanupSteps
  <2>4. (EngineHasAll /\ GroupGoesLast)'
    BY <2>1 DEF IInv, EngineHasAll, GroupGoesLast, EngineSteps, HandOverSteps, CleanupSteps
  <2>5. CleanedSoFar'
    BY <2>1 DEF IInv, CleanedSoFar, Handled, CleanupSteps
  <2> QED
    BY <2>3, <2>4, <2>5 DEF IInv
<1>12. ASSUME NEW g \in recorded \cap Groups, DeleteRecorded("delete_group", g, "cleaned")
       PROVE  IInv'
  <2>1. g \in {"group", "user_group"} /\ g \in Named /\ g \in recorded
    BY DEF Groups, Named
  <2>2. /\ Frame /\ pc = "delete_group" /\ pc' = "cleaned" /\ Calls /\ Rest
        /\ (EngineHasAll /\ GroupGoesLast)'
        /\ dying \subseteq dying' /\ failed \subseteq failed'
        /\ ~config.away => g \notin live' \/ g \in failed' \/ InUse(g)
    BY <1>7, <1>12, <2>1 DEF CleanupSteps
  <2>3. \A h \in Groups : h \in recorded => h = g
    BY <1>2, <2>1 DEF IInv, OneGroup, Groups
  <2>4. live \cap Instances \subseteq recorded
    BY <2>2 DEF IInv, EngineHasAll, LaunchedAreGuarded, EngineSteps, CleanupSteps
  <2>5. ~config.away /\ ~config.keep =>
          failed' \cap Instances # {} \/ stray # {} \/ (Handled("group") /\ Handled("user_group"))'
    <3> SUFFICES ASSUME ~config.away, ~config.keep, stray = {}
                 PROVE  failed' \cap Instances # {} \/ (Handled("group") /\ Handled("user_group"))'
      OBVIOUS
    <3>1. CASE InUse(g)
      <4>1. recorded \cap Instances \cap live \subseteq failed
        BY <2>2 DEF IInv, CleanedSoFar
      <4> QED
        BY <2>2, <2>4, <3>1, <4>1 DEF InUse
    <3>2. CASE ~InUse(g)
      BY <2>2, <2>3, <3>2 DEF Handled, Groups
    <3> QED
      BY <3>1, <3>2
  <2>6. CleanedSoFar'
    BY <2>2, <2>5 DEF IInv, CleanedSoFar, Handled, CleanupSteps
  <2> QED
    BY <2>2, <2>6 DEF IInv
<1> QED
  BY <1>3, <1>4, <1>5, <1>6, <1>8, <1>9, <1>10, <1>11, <1>12 DEF Cleanup

\* An instance that was told to terminate disappears: nobody guards it any more.
LEMMA GoneInv ==
  ASSUME IInv, NEW i \in Instances, InstanceGone(i)
  PROVE  IInv'
<1>1. /\ i \in dying /\ live' = live \ {i}
      /\ UNCHANGED <<config, pc, dying, todo, stray, guards, guarded, recorded, inbox, pending, exec, tried,
                     failed, quit>>
  BY DEF InstanceGone, executor
<1>2. pc \notin InitSteps \cup {"dropping"} /\ guards = {}
  BY <1>1 DEF IInv, ExecutorRests, GuardsStand
<1>3. InExecutor' = InExecutor
  BY <1>1 DEF InExecutor
<1>4. (TypeOK /\ GuardsStand /\ ExecutorRests /\ ExecutorHasAll)'
  BY <1>1, <1>2, <1>3 DEF IInv, TypeOK, GuardsStand, ExecutorRests, ExecutorHasAll, InitSteps, ToSet
<1>5. (EngineHasAll /\ LaunchedAreGuarded /\ OneGroup /\ NothingIsLost /\ GroupGoesLast)'
  BY <1>1, <1>2, <1>3 DEF IInv, EngineHasAll, LaunchedAreGuarded, OneGroup, NothingIsLost, GroupGoesLast,
                          InitSteps
<1>6. CleanedSoFar'
  BY <1>1 DEF IInv, CleanedSoFar, Handled
<1> QED
  BY <1>4, <1>5, <1>6 DEF IInv

LEMMA NextInv == IInv /\ [Next]_vars => IInv'
<1> SUFFICES ASSUME IInv, [Next]_vars
             PROVE  IInv'
  OBVIOUS
<1>1. CASE UNCHANGED vars
  <2>1. UNCHANGED <<config, pc, live, dying, todo, stray, guards, guarded, recorded, inbox, pending, exec, tried,
                    failed, quit>>
    BY <1>1 DEF vars
  <2>2. InExecutor' = InExecutor
    BY <2>1 DEF InExecutor
  <2>3. (TypeOK /\ GuardsStand /\ ExecutorRests /\ ExecutorHasAll)'
    BY <2>1, <2>2 DEF IInv, TypeOK, GuardsStand, ExecutorRests, ExecutorHasAll, ToSet
  <2>4. (EngineHasAll /\ LaunchedAreGuarded /\ OneGroup /\ NothingIsLost /\ GroupGoesLast /\ CleanedSoFar)'
    BY <2>1, <2>2 DEF IInv, EngineHasAll, LaunchedAreGuarded, OneGroup, NothingIsLost, GroupGoesLast,
                      CleanedSoFar, Handled
  <2> QED
    BY <2>3, <2>4 DEF IInv
<1>2. CASE Creating
  BY <1>2, CreatingInv, CommitInv
<1>3. CASE InitFails \/ UserAborts \/ Dropping \/ DropRegistry \/ Exit
  BY <1>3, FailingInv
<1>4. CASE Executor
  BY <1>4, ExecutorInv
<1>5. CASE ExecutorEnded \/ StartRun \/ Cleanup \/ \E i \in Instances : AutoTerminate(i)
  BY <1>5, EngineInv
<1>6. ASSUME NEW i \in Instances, InstanceGone(i)
      PROVE  IInv'
  BY <1>6, GoneInv
<1> QED
  BY <1>1, <1>2, <1>3, <1>4, <1>5, <1>6 DEF Next, Over

-----------------------------------------------------------------------------
\* The inductive invariant.
THEOREM InductiveInvariant == Spec => []IInv
BY InitInv, NextInv, PTL DEF Spec

\* A guard always stands for something that was created, and the engine knows
\* of nothing that was never guarded, but for the user's group.
THEOREM TypeCorrect == Spec => []TypeOK
BY InductiveInvariant, PTL DEF IInv

\* No path through commit, early return or shutdown lets go of a resource that
\* once had a guard, as long as the process runs and its user stays.
THEOREM NothingGetsLost == Spec => []NothingIsLost
BY InductiveInvariant, PTL DEF IInv

\* Whoever deletes the run's group has asked for the end of every instance that
\* uses it before, in executor and cleanup alike.
THEOREM GroupIsLast == Spec => []GroupGoesLast
BY InductiveInvariant, PTL DEF IInv

\* Once initialization has committed, the executor has nothing of the run that
\* is about to use it, and nothing but instances was asked to be deleted: here
\* the order of commit_all(), the shutdown message and the wait for the executor
\* (init.rs) matters.
RunIsNotCleanedUp ==
  pc \in HandOverSteps \cup {"running"} => recorded \cap (InExecutor \cup (tried \cap Named)) = {}

THEOREM CommittedStay == Spec => []RunIsNotCleanedUp
<1>1. IInv => RunIsNotCleanedUp
  <2> SUFFICES ASSUME IInv, pc \in HandOverSteps \cup {"running"}
               PROVE  recorded \cap (InExecutor \cup (tried \cap Named)) = {}
    BY DEF RunIsNotCleanedUp
  <2>1. pending = {} /\ ToSet(inbox) \subseteq {"shutdown"} /\ tried \subseteq Instances
    BY DEF IInv, ExecutorRests, EngineHasAll, HandOverSteps, Dropped
  <2>2. InExecutor \subseteq {"shutdown"}
    BY <2>1 DEF InExecutor, ToSet
  <2>3. recorded \subseteq Resources
    BY DEF IInv, TypeOK, Resources, Named
  <2> QED
    BY <2>1, <2>2, <2>3, ProvisioningAssumption DEF Resources, Named
<1> QED
  BY <1>1, InductiveInvariant, PTL

\* After the cleanup of a run nothing that the engine knew of is left without a
\* call that failed; the group only when an instance did not go.
THEOREM CleanupLeavesNothing == Spec => []CleanupIsComplete
<1>1. IInv => CleanupIsComplete
  <2> SUFFICES ASSUME IInv, pc = "cleaned", ~config.keep, ~config.away,
                      NEW r \in recorded \cap live
               PROVE  r \in failed \cup dying
                              \cup (IF failed \cap Instances = {} /\ stray = {} THEN {} ELSE Groups)
    BY DEF CleanupIsComplete, CleanedUp
  <2>1. r \in Resources
    BY DEF IInv, TypeOK
  <2>2. /\ recorded \cap Instances \subseteq failed \cup dying
        /\ Handled("bucket") /\ Handled("role") /\ Handled("rule")
        /\ failed \cap Instances # {} \/ stray # {} \/ (Handled("group") /\ Handled("user_group"))
    BY DEF IInv, CleanedSoFar
  <2> QED
    BY <2>1, <2>2 DEF Handled, Resources, Named, Groups
<1> QED
  BY <1>1, InductiveInvariant, PTL
-----------------------------------------------------------------------------
\* Provisioning implements ResourceOwnership.

\* Once initialization fails or is aborted there is no engine, or none any more.
EngineIsGone == pc \in Failing => recorded = {}

LEMMA EngineIsGoneNext == IInv /\ EngineIsGone /\ [Next]_vars => EngineIsGone'
<1> SUFFICES ASSUME IInv, EngineIsGone, [Next]_vars
             PROVE  EngineIsGone'
  OBVIOUS
<1> USE DEF EngineIsGone, Failing
<1>1. CASE Creating
  <2>1. pc \in InitSteps /\ pc' \in InitSteps \cup {"shutdown"}
    BY <1>1
    DEF Creating, CreateBucket, TagBucket, CreateRole, SetUpRole, UploadAgents, CreateGroup,
        AddGroupRules, AddRule, RuleAdded, WithoutGroup, RunInstance, AnswerIsLost, LaunchFails, Launched,
        AllLaunched, InstancesRun, Commit, Creates, Guards, Passes, Step, InitSteps
  <2> QED
    BY <2>1 DEF InitSteps
<1>2. CASE InitFails \/ UserAborts
  <2>1. recorded' = {}
    BY <1>2 DEF InitFails, UserAborts, IInv, GuardsStand, InitSteps
  <2> QED
    BY <2>1
<1>3. CASE Dropping \/ DropRegistry \/ Exit
  BY <1>3 DEF Dropping, DropGuard, GuardsDropped, DropRegistry, Exit, Passes, Step
<1>4. CASE Executor \/ (\E i \in Instances : AutoTerminate(i) \/ InstanceGone(i)) \/ UNCHANGED vars
  <2>1. UNCHANGED <<pc, recorded>>
    BY <1>4 DEF Executor, Receive, Stop, Timer, DeletePending, DeletionHangs, TryFirst, Elsewhere,
                AutoTerminate, InstanceGone, Known, vars
  <2> QED
    BY <2>1
<1>5. CASE ExecutorEnded \/ StartRun \/ Cleanup
  <2>1. pc' \in {"ready", "running", "cleaned"} \cup CleanupSteps
    BY <1>5 DEF ExecutorEnded, StartRun, Cleanup, EndRun, Terminate, DeleteRecorded, AwaitTerminated,
                AfterRules, Passes, Step, CleanupSteps
  <2> QED
    BY <2>1 DEF CleanupSteps
<1> QED
  BY <1>1, <1>2, <1>3, <1>4, <1>5 DEF Next, Over

\* The executor gets nothing but what had a guard: never the group of the user.
OnlyGuardedAreDropped == InExecutor \subseteq guarded \cup {"shutdown"}

LEMMA OnlyGuardedNext == IInv /\ OnlyGuardedAreDropped /\ [Next]_vars => OnlyGuardedAreDropped'
<1> SUFFICES ASSUME IInv, OnlyGuardedAreDropped, [Next]_vars
             PROVE  OnlyGuardedAreDropped'
  OBVIOUS
<1>1. guarded \subseteq guarded'
  BY DEF Next, Over, vars, Creating, CreateBucket, TagBucket, CreateRole, SetUpRole, UploadAgents,
         CreateGroup, AddGroupRules, AddRule, RuleAdded, WithoutGroup, RunInstance, AnswerIsLost, LaunchFails,
         Launched, AllLaunched, InstancesRun, Commit, Creates, Guards, Passes, ExecutorEnded, StartRun,
         Cleanup, EndRun, Terminate, DeleteRecorded, AwaitTerminated, Known, InitFails, UserAborts,
         Dropping, DropGuard, GuardsDropped, DropRegistry, Exit, Executor, Receive, Stop, Timer,
         DeletePending, DeletionHangs, TryFirst, Elsewhere, AutoTerminate, InstanceGone
<1>2. InExecutor = pending \cup ToSet(inbox) /\ InExecutor' = pending' \cup ToSet(inbox')
  BY DEF InExecutor, ToSet
<1>3. ASSUME UNCHANGED <<pending, inbox>>
      PROVE  OnlyGuardedAreDropped'
  BY <1>1, <1>3 DEF OnlyGuardedAreDropped, InExecutor
<1>4. ASSUME pending' \subseteq pending, UNCHANGED inbox
      PROVE  OnlyGuardedAreDropped'
  BY <1>1, <1>2, <1>4 DEF OnlyGuardedAreDropped
<1>5. CASE Commit
  <2>1. inbox = <<>> /\ inbox' = Append(inbox, "shutdown") /\ UNCHANGED pending
    BY <1>5 DEF Commit, Step, IInv, GuardsStand, InitSteps
  <2>2. ToSet(inbox') = {"shutdown"}
    BY <2>1 DEF ToSet
  <2> QED
    BY <1>1, <1>2, <2>1, <2>2 DEF OnlyGuardedAreDropped
<1>6. ASSUME NEW r \in Resources, DropGuard(r)
      PROVE  OnlyGuardedAreDropped'
  <2>1. inbox' = Append(inbox, r) /\ r \in guarded /\ UNCHANGED pending
    BY <1>6 DEF DropGuard, IInv, TypeOK
  <2>2. ToSet(inbox') = ToSet(inbox) \cup {r}
    BY <2>1, AppendSet DEF IInv, TypeOK
  <2> QED
    BY <1>1, <1>2, <2>1, <2>2 DEF OnlyGuardedAreDropped
<1>7. CASE Receive \/ Stop
  <2>1. /\ \/ pending' = pending \cup {Head(inbox)} /\ inbox # <<>> /\ inbox' = Tail(inbox)
           \/ pending' = pending /\ inbox # <<>> /\ inbox' = Tail(inbox)
           \/ pending' = pending /\ inbox' = inbox
    BY <1>7 DEF Receive, Stop, ToldToStop
  <2>2. inbox # <<>> => ToSet(inbox) = {Head(inbox)} \cup ToSet(Tail(inbox))
    BY TailSet DEF IInv, TypeOK
  <2> QED
    BY <1>1, <1>2, <2>1, <2>2 DEF OnlyGuardedAreDropped
<1>8. CASE \/ Creating /\ ~Commit
           \/ ExecutorEnded \/ StartRun \/ Cleanup \/ InitFails \/ UserAborts \/ GuardsDropped
           \/ DropRegistry \/ Exit \/ Timer
           \/ (\E i \in Instances : AutoTerminate(i) \/ InstanceGone(i)) \/ UNCHANGED vars
  BY <1>3, <1>8
  DEF vars, Creating, CreateBucket, TagBucket, CreateRole, SetUpRole, UploadAgents,
      CreateGroup, AddGroupRules, AddRule, RuleAdded, WithoutGroup, RunInstance, AnswerIsLost, LaunchFails,
      Launched, AllLaunched, InstancesRun, Creates, Guards, Passes, ExecutorEnded, StartRun,
      Cleanup, EndRun, Terminate, DeleteRecorded, AwaitTerminated, Known, InitFails, UserAborts,
      GuardsDropped, DropRegistry, Exit, Timer, AutoTerminate, InstanceGone, executor
<1>9. ASSUME NEW r \in Resources, DeletePending(r) \/ DeletionHangs(r)
      PROVE  OnlyGuardedAreDropped'
  BY <1>4, <1>9 DEF DeletePending, DeletionHangs, TryFirst
<1> QED
  BY <1>5, <1>6, <1>7, <1>8, <1>9 DEF Next, Dropping, Executor, Over

\* The view of a state as one of ResourceOwnership.
StillHeld == IF pc = "dropping" THEN {} ELSE guards
LeftToExecutor == (InExecutor \ {"shutdown"}) \cup (IF pc = "dropping" THEN guards ELSE {})
LeftToEngine == recorded \ {"user_group"}
Asked == tried \ {"user_group"}

LEMMA InitOwns == Init => Owned!OwnershipInit
BY DEF Init, Owned!OwnershipInit, InExecutor

\* Every step is one of ResourceOwnership, or one that it does not see.
LEMMA StepOwns ==
  ASSUME IInv, EngineIsGone, OnlyGuardedAreDropped, [Next]_vars
  PROVE  [Owned!OwnershipNext]_(Owned!ownership)
<1> DEFINE Unseen == UNCHANGED <<StillHeld, LeftToExecutor, LeftToEngine, Asked>>
<1>1. ASSUME Unseen
      PROVE  UNCHANGED Owned!ownership
  BY <1>1 DEF Owned!ownership, StillHeld, LeftToExecutor, LeftToEngine, Asked
<1>2. ASSUME UNCHANGED <<guards, inbox, pending, recorded, tried>>,
             guards = {} \/ (pc = "dropping" <=> pc' = "dropping")
      PROVE  Unseen
  BY <1>2 DEF StillHeld, LeftToExecutor, LeftToEngine, Asked, InExecutor
<1>3. "user_group" \notin Instances /\ "group" \notin Instances /\ "shutdown" \notin Resources
  BY ProvisioningAssumption DEF Resources, Named
<1>4. pc \in InitSteps =>
        /\ tried = {} /\ pending = {} /\ inbox = <<>> /\ InExecutor = {} /\ pc # "dropping"
        /\ recorded = {} /\ guards \subseteq Resources \ {"user_group"}
  BY DEF IInv, TypeOK, GuardsStand, ExecutorRests, Dropped, InitSteps, InExecutor
<1>5. CASE Creating /\ ~Commit
  <2>1. /\ pc \in InitSteps /\ pc' \in InitSteps
        /\ UNCHANGED <<recorded, inbox, pending, tried>>
    BY <1>5
    DEF Creating, CreateBucket, TagBucket, CreateRole, SetUpRole, UploadAgents, CreateGroup,
        AddGroupRules, AddRule, RuleAdded, WithoutGroup, RunInstance, AnswerIsLost, LaunchFails, Launched,
        AllLaunched, InstancesRun, Creates, Guards, Passes, Step, InitSteps, aws, executor
  <2>2. \/ UNCHANGED guards
        \/ \E r \in Resources \ {"user_group"} : guards' = guards \cup {r}
    <3>1. \A i \in Instances : i \in Resources \ {"user_group"}
      BY <1>3 DEF Resources
    <3> QED
      BY <1>5, <3>1
      DEF Creating, CreateBucket, TagBucket, CreateRole, SetUpRole, UploadAgents, CreateGroup,
          AddGroupRules, AddRule, RuleAdded, WithoutGroup, RunInstance, AnswerIsLost, LaunchFails, Launched,
          AllLaunched, InstancesRun, Creates, Guards, Passes, Resources, Named
  <2>3. inbox = <<>> /\ InExecutor = {}
    BY <1>4, <2>1
  <2>4. CASE UNCHANGED guards
    BY <1>1, <1>2, <2>1, <2>4 DEF InitSteps
  <2>5. ASSUME NEW r \in Resources \ {"user_group"}, guards' = guards \cup {r}
        PROVE  Owned!OwnershipNext
    <3>1. Owned!Acquire(r)
      BY <1>4, <2>1, <2>3, <2>5 DEF Owned!Acquire, Owned!Initializing, InExecutor, InitSteps
    <3> QED
      BY <3>1 DEF Owned!OwnershipNext
  <2> QED
    BY <2>2, <2>4, <2>5
<1>6. CASE Commit
  <2>1. /\ pc = "configs" /\ pc' = "shutdown" /\ guards' = {} /\ recorded' = Recorded
        /\ inbox' = Append(inbox, "shutdown") /\ UNCHANGED <<pending, tried>>
    BY <1>6 DEF Commit, Step, aws
  <2>2. inbox = <<>> /\ inbox' = <<"shutdown">>
    BY <2>1 DEF IInv, GuardsStand, InitSteps
  <2>3. /\ tried = {} /\ pending = {} /\ recorded = {} /\ guards \subseteq Resources \ {"user_group"}
    BY <1>4, <2>1 DEF InitSteps
  <2>4. InExecutor = {} /\ InExecutor' = {"shutdown"}
    BY <2>1, <2>2, <2>3 DEF InExecutor
  <2>5. recorded' \ {"user_group"} = guards
    BY <2>1, <2>3 DEF Recorded
  <2>6. Owned!CommitAll
    BY <2>1, <2>3, <2>4, <2>5 DEF Owned!CommitAll, Owned!Initializing
  <2> QED
    BY <2>6 DEF Owned!OwnershipNext
<1>7. CASE DropRegistry \/ Exit \/ ExecutorEnded \/ StartRun
  <2>1. /\ UNCHANGED <<guards, inbox, pending, recorded, tried>>
        /\ pc # "dropping" /\ pc' # "dropping"
    BY <1>7 DEF DropRegistry, Exit, ExecutorEnded, StartRun, Passes, Step, aws, executor
  <2> QED
    BY <1>1, <1>2, <2>1
<1>8. CASE InitFails \/ UserAborts
  <2>1. /\ pc \in InitSteps \cup HandOverSteps /\ pc # "dropping" /\ pc' = "dropping"
        /\ recorded' = {} \/ (pc \in InitSteps /\ UNCHANGED recorded)
        /\ UNCHANGED <<guards, inbox, pending, tried>>
    <3>1. CASE InitFails
      BY <3>1 DEF InitFails, InitSteps, aws, executor
    <3>2. CASE UserAborts
      <4>1. /\ pc \in InitSteps \cup HandOverSteps /\ pc' = "dropping" /\ recorded' = {}
            /\ UNCHANGED <<guards, inbox, pending, tried>>
        BY <3>2 DEF UserAborts, aws, executor
      <4>2. pc # "dropping"
        BY <4>1 DEF InitSteps, HandOverSteps
      <4> QED
        BY <4>1, <4>2
    <3> QED
      BY <1>8, <3>1, <3>2
  <2>2. tried = {} /\ InExecutor' = InExecutor
    BY <2>1 DEF IInv, ExecutorRests, InExecutor
  <2>3. CASE pc \in InitSteps
    <3>1. InExecutor = {} /\ recorded = {} /\ recorded' = {} /\ "shutdown" \notin guards
      BY <1>3, <1>4, <2>1, <2>3
    <3>2. Owned!DropAll
      BY <2>1, <2>2, <3>1 DEF Owned!DropAll, Owned!Initializing
    <3> QED
      BY <3>2 DEF Owned!OwnershipNext
  <2>4. CASE pc \in HandOverSteps
    <3>1. guards = {} /\ recorded' = {}
      BY <2>1, <2>4 DEF IInv, GuardsStand, InitSteps, HandOverSteps
    <3>2. Owned!Abandon
      BY <2>1, <2>2, <3>1 DEF Owned!Abandon
    <3> QED
      BY <3>2 DEF Owned!OwnershipNext
  <2> QED
    BY <2>1, <2>3, <2>4
<1>9. ASSUME NEW r \in Resources, DropGuard(r)
      PROVE  Unseen
  <2>1. /\ pc = "dropping" /\ pc' = "dropping" /\ r \in guards /\ guards' = guards \ {r}
        /\ inbox' = Append(inbox, r) /\ UNCHANGED <<recorded, pending, tried>>
    BY <1>9 DEF DropGuard, aws
  <2>2. ToSet(inbox') = ToSet(inbox) \cup {r}
    BY <2>1, AppendSet DEF IInv, TypeOK
  <2>3. InExecutor' = InExecutor \cup {r}
    BY <2>1, <2>2 DEF InExecutor, ToSet
  <2>4. r # "shutdown"
    BY <1>3
  <2>5. LeftToExecutor' = LeftToExecutor
    BY <2>1, <2>3, <2>4 DEF LeftToExecutor
  <2> QED
    BY <2>1, <2>5 DEF StillHeld, LeftToEngine, Asked
<1>21. CASE GuardsDropped
  <2>1. guards = {} /\ UNCHANGED <<guards, inbox, pending, recorded, tried>>
    BY <1>21 DEF GuardsDropped, Passes, aws, executor
  <2> QED
    BY <1>1, <1>2, <2>1
<1>10. CASE Receive
  <2>1. /\ inbox # <<>> /\ pending' = pending \cup {Head(inbox)} /\ inbox' = Tail(inbox)
        /\ UNCHANGED <<pc, guards, recorded, tried>>
    BY <1>10 DEF Receive, Elsewhere, aws
  <2>2. ToSet(inbox) = {Head(inbox)} \cup ToSet(inbox')
    BY <2>1, TailSet DEF IInv, TypeOK
  <2>3. InExecutor' = InExecutor
    BY <2>1, <2>2 DEF InExecutor, ToSet
  <2> QED
    BY <1>1, <2>1, <2>3 DEF StillHeld, LeftToExecutor, LeftToEngine, Asked
<1>11. CASE Stop
  <2>1. /\ UNCHANGED <<pc, guards, recorded, pending, tried>>
        /\ \/ inbox # <<>> /\ Head(inbox) = "shutdown" /\ inbox' = Tail(inbox)
           \/ UNCHANGED inbox
    BY <1>11 DEF Stop, ToldToStop, Elsewhere, aws
  <2>2. ASSUME inbox # <<>>, Head(inbox) = "shutdown", inbox' = Tail(inbox)
        PROVE  ToSet(inbox) = {"shutdown"} \cup ToSet(inbox')
    BY <2>2, TailSet DEF IInv, TypeOK
  <2>3. (InExecutor \ {"shutdown"})' = InExecutor \ {"shutdown"}
    BY <2>1, <2>2 DEF InExecutor, ToSet
  <2> QED
    BY <1>1, <2>1, <2>3 DEF StillHeld, LeftToExecutor, LeftToEngine, Asked
<1>12. CASE Timer
  BY <1>1, <1>2, <1>12 DEF Timer, Elsewhere, aws
<1>13. ASSUME NEW r \in Resources, DeletePending(r) \/ DeletionHangs(r)
       PROVE  Owned!OwnershipNext
  <2>1. /\ exec \in {"deleting", "draining"} /\ r \in pending /\ pending' = pending \ {r}
        /\ \A s \in pending : CleanupPriority(r) <= CleanupPriority(s)
        /\ tried' = tried \cup {r} /\ UNCHANGED <<pc, inbox, guards, recorded>>
    BY <1>13 DEF DeletePending, DeletionHangs, TryFirst, Attempt, Elsewhere
  <2>2. /\ inbox = <<>> /\ InExecutor = pending /\ InExecutor' = pending \ {r}
        /\ pc # "dropping"
    BY <2>1 DEF IInv, ExecutorHasAll, ExecutorRests, InExecutor, Dropped
  <2>3. r \notin {"user_group", "shutdown"}
    BY <1>3, <2>1, <2>2 DEF OnlyGuardedAreDropped, IInv, GuardsStand
  <2>4. r = "group" => pending \cap Instances = {}
    <3> SUFFICES ASSUME r = "group", NEW i \in Instances, i \in pending
                 PROVE  FALSE
      OBVIOUS
    <3>1. i \notin Named
      BY ProvisioningAssumption
    <3>2. CleanupPriority(r) = 5 /\ CleanupPriority(i) = 0
      BY <3>1 DEF CleanupPriority, Named, Groups
    <3> QED
      BY <2>1, <3>2
  <2>5. Owned!ExecutorDeletes(r)
    BY <2>1, <2>2, <2>3, <2>4 DEF Owned!ExecutorDeletes
  <2> QED
    BY <2>3, <2>5 DEF Owned!OwnershipNext
<1>14. ASSUME NEW S \in SUBSET recorded, tried' = tried \cup S,
              UNCHANGED <<guards, inbox, pending, recorded>>,
              pc # "dropping", pc' # "dropping",
              "group" \in S => recorded \cap Instances \subseteq tried
       PROVE  Owned!OwnershipNext
  <2> DEFINE T == S \ {"user_group"}
  <2>1. T \in SUBSET (recorded \ {"user_group"}) /\ InExecutor' = InExecutor
    BY <1>14 DEF InExecutor
  <2>2. Owned!EngineDeletes(T)
    BY <1>3, <1>14, <2>1 DEF Owned!EngineDeletes
  <2> QED
    BY <2>1, <2>2 DEF Owned!OwnershipNext
<1>15. ASSUME NEW i \in Instances, AutoTerminate(i)
       PROVE  Owned!OwnershipNext
  <2>1. /\ pc = "running" /\ pc' = "running" /\ {i} \in SUBSET recorded /\ tried' = tried \cup {i}
        /\ UNCHANGED <<guards, inbox, pending, recorded>>
    BY <1>15 DEF AutoTerminate, Known, executor
  <2> QED
    BY <1>3, <1>14, <2>1
<1>16. CASE Terminate
  <2> DEFINE S == recorded \cap Instances
  <2>1. S \in SUBSET recorded /\ "group" \notin S
    BY <1>3
  <2>2. /\ tried' = tried \cup S /\ UNCHANGED <<guards, inbox, pending, recorded>>
        /\ pc # "dropping" /\ pc' # "dropping"
    BY <1>16 DEF Terminate, Step, Known, executor
  <2> QED
    BY <1>14, <2>1, <2>2
<1>17. ASSUME NEW from \in CleanupSteps \ {"terminate"}, NEW r, NEW to \in CleanupSteps \cup {"cleaned"},
              DeleteRecorded(from, r, to)
       PROVE  [Owned!OwnershipNext]_(Owned!ownership)
  <2>1. /\ pc = from /\ UNCHANGED <<guards, inbox, pending, recorded>>
        /\ pc # "dropping" /\ pc' # "dropping"
    BY <1>17 DEF DeleteRecorded, Step, Known, executor, CleanupSteps
  <2>2. CASE r \in recorded
    <3>1. {r} \in SUBSET recorded /\ tried' = tried \cup {r}
      BY <1>17, <2>2 DEF DeleteRecorded, Attempt
    <3>2. recorded \cap Instances \subseteq tried
      BY <2>1 DEF IInv, EngineHasAll
    <3> QED
      BY <1>14, <2>1, <3>1, <3>2
  <2>3. CASE r \notin recorded
    BY <1>1, <1>2, <1>17, <2>1, <2>3 DEF DeleteRecorded, aws
  <2> QED
    BY <2>2, <2>3
<1>18. CASE Cleanup
  <2>1. CASE EndRun \/ AwaitTerminated
    <3>1. /\ UNCHANGED <<guards, inbox, pending, recorded, tried>>
          /\ pc # "dropping" /\ pc' # "dropping"
      BY <2>1 DEF EndRun, AwaitTerminated, Passes, Step, Known, aws, executor
    <3> QED
      BY <1>1, <1>2, <3>1
  <2>2. CASE \/ DeleteRecorded("delete_bucket", "bucket", "delete_role")
             \/ DeleteRecorded("delete_role", "role", "delete_rules")
             \/ DeleteRecorded("delete_rules", "rule", AfterRules)
    <3>1. AfterRules \in CleanupSteps \cup {"cleaned"}
      BY DEF AfterRules, CleanupSteps
    <3> QED
      BY <1>17, <2>2, <3>1 DEF CleanupSteps
  <2>3. ASSUME NEW g \in recorded \cap Groups, DeleteRecorded("delete_group", g, "cleaned")
        PROVE  [Owned!OwnershipNext]_(Owned!ownership)
    BY <1>17, <2>3 DEF CleanupSteps
  <2> QED
    BY <1>16, <1>18, <2>1, <2>2, <2>3 DEF Cleanup
<1>19. ASSUME NEW i \in Instances, InstanceGone(i)
       PROVE  Unseen
  BY <1>2, <1>19 DEF InstanceGone, executor
<1>20. CASE UNCHANGED vars
  BY <1>1, <1>2, <1>20 DEF vars
<1> QED
  BY <1>1, <1>5, <1>6, <1>7, <1>8, <1>9, <1>10, <1>11, <1>12, <1>13, <1>15, <1>18, <1>19, <1>20, <1>21
  DEF Next, Dropping, Executor, Over

\* All that a run has created has one owner at a time, guards, executor or
\* engine, and goes from the first to one of the others in a single step.
THEOREM OwnershipIsKept == Spec => ImplementsOwnership
<1>1. Init => EngineIsGone
  BY DEF Init, EngineIsGone, Failing
<1>2. Spec => []EngineIsGone
  BY <1>1, EngineIsGoneNext, InductiveInvariant, PTL DEF Spec
<1>3. Init => OnlyGuardedAreDropped
  BY DEF Init, OnlyGuardedAreDropped, InExecutor
<1>4. Spec => []OnlyGuardedAreDropped
  BY <1>3, OnlyGuardedNext, InductiveInvariant, PTL DEF Spec
<1>5. IInv /\ EngineIsGone /\ OnlyGuardedAreDropped /\ [Next]_vars
        => [Owned!OwnershipNext]_(Owned!ownership)
  BY StepOwns
<1> QED
  BY <1>2, <1>4, <1>5, InitOwns, InductiveInvariant, PTL DEF Spec, ImplementsOwnership, Owned!OwnershipSpec

\* What follows from ResourceOwnership alone.
LEMMA OwnershipStepKeeps ==
  ASSUME Owned!OneOwner, Owned!GroupIsLast, [Owned!OwnershipNext]_(Owned!ownership)
  PROVE  Owned!OneOwner' /\ Owned!GroupIsLast'
<1> DEFINE Own == Resources \ {"user_group"}
           Kept == Owned!OneOwner' /\ Owned!GroupIsLast'
<1> USE DEF Owned!OneOwner, Owned!GroupIsLast, Owned!Initializing
<1>1. ASSUME NEW r \in Own, Owned!Acquire(r)
      PROVE  Kept
  BY <1>1 DEF Owned!Acquire
<1>2. ASSUME NEW r \in Own, Owned!ExecutorDeletes(r)
      PROVE  Kept
  BY <1>2 DEF Owned!ExecutorDeletes
<1>3. CASE Owned!CommitAll
  BY <1>3 DEF Owned!CommitAll
<1>4. CASE Owned!DropAll
  BY <1>4 DEF Owned!DropAll
<1>5. CASE Owned!Abandon
  BY <1>5 DEF Owned!Abandon
<1>6. ASSUME NEW S \in SUBSET (recorded \ {"user_group"}), Owned!EngineDeletes(S)
      PROVE  Kept
  BY <1>6 DEF Owned!EngineDeletes
<1>7. CASE UNCHANGED Owned!ownership
  BY <1>7 DEF Owned!ownership
<1> QED
  BY <1>1, <1>2, <1>3, <1>4, <1>5, <1>6, <1>7 DEF Owned!OwnershipNext

\* No resource is the business of two: while guards hold something nobody else
\* has anything, executor and engine never both do, and what the executor has
\* tried is off its list.  And nobody has an instance left when the group goes.
THEOREM OneOwnerAtATime == Spec => [](Owned!OneOwner /\ Owned!GroupIsLast)
<1>1. Owned!OwnershipInit => Owned!OneOwner /\ Owned!GroupIsLast
  BY DEF Owned!OwnershipInit, Owned!OneOwner, Owned!GroupIsLast
<1>2. /\ Owned!OneOwner /\ Owned!GroupIsLast /\ [Owned!OwnershipNext]_(Owned!ownership)
      => Owned!OneOwner' /\ Owned!GroupIsLast'
  BY OwnershipStepKeeps
<1> QED
  BY <1>1, <1>2, OwnershipIsKept, PTL DEF ImplementsOwnership, Owned!OwnershipSpec
-----------------------------------------------------------------------------
\* What keeps the executor from waiting, or ending, at the wrong time.

\* It is told to stop once, after all that it will ever get; and it only stops
\* when it has nothing left and no guard can send it more.
StopsLast ==
  /\ "shutdown" \in InExecutor => inbox = <<"shutdown">> /\ exec = "waiting" /\ guards = {}
  /\ exec = "stopped" => InExecutor = {} /\ guards = {} /\ pc \notin InitSteps
  /\ pc = "shutdown" => "shutdown" \in InExecutor \/ exec = "stopped"

\* How many steps the executor can still take without another message.
ExecutorSteps == 3 * Len(inbox) + 2 * Cardinality(pending) + (IF exec = "waiting" THEN 1 ELSE 0)

ExecutorGetsDone ==
  /\ Executor => ExecutorSteps' < ExecutorSteps
  /\ ~Executor /\ ~Commit /\ ~(\E r \in Resources : DropGuard(r)) => ExecutorSteps' = ExecutorSteps

LEMMA PendingIsFinite == IInv => IsFiniteSet(pending) /\ Cardinality(pending) \in Nat
<1> SUFFICES ASSUME IInv
             PROVE  IsFiniteSet(pending) /\ Cardinality(pending) \in Nat
  OBVIOUS
<1>1. IsFiniteSet({"bucket", "role", "rule", "group", "user_group"})
  <2>1. /\ IsFiniteSet({"bucket"}) /\ IsFiniteSet({"role"}) /\ IsFiniteSet({"rule"})
        /\ IsFiniteSet({"group"}) /\ IsFiniteSet({"user_group"})
    BY FS_Singleton
  <2>2. IsFiniteSet({"bucket"} \cup {"role"}) /\ IsFiniteSet({"group"} \cup {"user_group"})
    BY <2>1, FS_Union
  <2>3. IsFiniteSet(({"bucket"} \cup {"role"}) \cup {"rule"})
    BY <2>1, <2>2, FS_Union
  <2>4. IsFiniteSet((({"bucket"} \cup {"role"}) \cup {"rule"}) \cup ({"group"} \cup {"user_group"}))
    BY <2>2, <2>3, FS_Union
  <2>5. (({"bucket"} \cup {"role"}) \cup {"rule"}) \cup ({"group"} \cup {"user_group"})
          = {"bucket", "role", "rule", "group", "user_group"}
    OBVIOUS
  <2> QED
    BY <2>4, <2>5
<1>2. IsFiniteSet(Resources)
  BY <1>1, ProvisioningAssumption, FS_Union DEF Resources, Named
<1> QED
  BY <1>2, FS_Subset, FS_CardinalityType DEF IInv, TypeOK

\* A step of the executor brings it nearer to rest; nothing but a message of
\* commit() or of dropped guards gives it more to do.
LEMMA ExecutorStepsCounted == IInv /\ [Next]_vars => [ExecutorGetsDone]_vars
<1> SUFFICES ASSUME IInv, Next
             PROVE  ExecutorGetsDone
  OBVIOUS
<1>1. /\ inbox \in Seq(Resources \cup {"shutdown"}) /\ Len(inbox) \in Nat
      /\ IsFiniteSet(pending) /\ Cardinality(pending) \in Nat
  BY PendingIsFinite DEF IInv, TypeOK
<1>2. ASSUME inbox # <<>>
      PROVE  Len(Tail(inbox)) = Len(inbox) - 1
  BY <1>1, <1>2
<1>3. CASE Receive
  <2>1. /\ exec = "waiting" /\ exec' = "waiting" /\ inbox # <<>> /\ inbox' = Tail(inbox)
        /\ pending' = pending \cup {Head(inbox)}
    BY <1>3 DEF Receive
  <2>2. /\ Cardinality(pending') \in Nat /\ Cardinality(pending') <= Cardinality(pending) + 1
    <3>1. Cardinality(pending \cup {Head(inbox)})
            = IF Head(inbox) \in pending THEN Cardinality(pending) ELSE Cardinality(pending) + 1
      BY <1>1, FS_AddElement
    <3> QED
      BY <1>1, <2>1, <3>1
  <2>3. ExecutorSteps' < ExecutorSteps
    BY <1>1, <1>2, <2>1, <2>2 DEF ExecutorSteps
  <2> QED
    BY <1>3, <2>3 DEF ExecutorGetsDone, Executor
<1>4. CASE Stop
  <2>1. /\ exec = "waiting" /\ exec' # "waiting" /\ UNCHANGED pending
        /\ inbox' = inbox \/ (inbox # <<>> /\ inbox' = Tail(inbox))
    BY <1>4 DEF Stop, ToldToStop
  <2>2. ExecutorSteps' < ExecutorSteps
    BY <1>1, <1>2, <2>1 DEF ExecutorSteps
  <2> QED
    BY <1>4, <2>2 DEF ExecutorGetsDone, Executor
<1>5. CASE Timer
  <2>1. exec = "waiting" /\ exec' = "deleting" /\ UNCHANGED <<inbox, pending>>
    BY <1>5 DEF Timer
  <2>2. ExecutorSteps' < ExecutorSteps
    BY <1>1, <2>1 DEF ExecutorSteps
  <2> QED
    BY <1>5, <2>2 DEF ExecutorGetsDone, Executor
<1>6. ASSUME NEW r \in Resources, DeletePending(r) \/ DeletionHangs(r)
      PROVE  ExecutorGetsDone
  <2>1. exec # "waiting" /\ r \in pending /\ pending' = pending \ {r} /\ UNCHANGED inbox
    BY <1>6 DEF DeletePending, DeletionHangs, TryFirst
  <2>2. Cardinality(pending') = Cardinality(pending) - 1
    BY <1>1, <2>1, FS_RemoveElement
  <2>3. ExecutorSteps' < ExecutorSteps
    BY <1>1, <2>1, <2>2 DEF ExecutorSteps
  <2> QED
    BY <1>6, <2>3 DEF ExecutorGetsDone, Executor
<1>7. ASSUME ~Executor, ~Commit, ~\E r \in Resources : DropGuard(r)
      PROVE  ExecutorGetsDone
  <2>1. UNCHANGED <<inbox, pending, exec>>
    BY <1>7
    DEF Next, Over, vars, Creating, CreateBucket, TagBucket, CreateRole, SetUpRole, UploadAgents,
        CreateGroup, AddGroupRules, AddRule, RuleAdded, WithoutGroup, RunInstance, AnswerIsLost, LaunchFails,
        Launched, AllLaunched, InstancesRun, Creates, Guards, Passes, ExecutorEnded, StartRun, Cleanup,
        EndRun, Terminate, DeleteRecorded, AwaitTerminated, Known, InitFails, UserAborts, Dropping,
        GuardsDropped, DropRegistry, Exit, AutoTerminate, InstanceGone, executor
  <2>2. ExecutorSteps' = ExecutorSteps
    BY <2>1 DEF ExecutorSteps
  <2> QED
    BY <1>7, <2>2 DEF ExecutorGetsDone
<1>8. CASE ~Executor /\ (Commit \/ \E r \in Resources : DropGuard(r))
  BY <1>8 DEF ExecutorGetsDone
<1> QED
  BY <1>3, <1>4, <1>5, <1>6, <1>7, <1>8 DEF Executor

LEMMA StopsLastNext == IInv /\ StopsLast /\ [Next]_vars => StopsLast'
<1> SUFFICES ASSUME IInv, StopsLast, [Next]_vars
             PROVE  StopsLast'
  OBVIOUS
<1>1. inbox \in Seq(Resources \cup {"shutdown"}) /\ guards \subseteq Resources \ {"user_group"}
      /\ "shutdown" \notin Resources /\ pending \subseteq Resources
  BY ProvisioningAssumption DEF IInv, TypeOK, GuardsStand, Resources, Named
<1>2. InExecutor = pending \cup ToSet(inbox) /\ InExecutor' = pending' \cup ToSet(inbox')
  BY DEF InExecutor, ToSet
<1>3. ASSUME UNCHANGED <<pending, inbox, exec, guards>>, pc' \in InitSteps => pc \in InitSteps,
             pc' = "shutdown" => pc = "shutdown"
      PROVE  StopsLast'
  BY <1>3 DEF StopsLast, InExecutor
<1>4. CASE Creating /\ ~Commit
  <2>1. /\ pc \in InitSteps /\ pc' \in InitSteps /\ UNCHANGED <<inbox, pending, exec>>
    BY <1>4
    DEF Creating, CreateBucket, TagBucket, CreateRole, SetUpRole, UploadAgents, CreateGroup,
        AddGroupRules, AddRule, RuleAdded, WithoutGroup, RunInstance, AnswerIsLost, LaunchFails, Launched,
        AllLaunched, InstancesRun, Creates, Guards, Passes, Step, InitSteps, executor
  <2>2. inbox = <<>> /\ pending = {} /\ exec # "stopped" /\ pc' # "shutdown"
    BY <2>1 DEF IInv, GuardsStand, ExecutorRests, StopsLast, InitSteps, Dropped
  <2>3. InExecutor' = {}
    BY <2>1, <2>2 DEF InExecutor
  <2> QED
    BY <2>1, <2>2, <2>3 DEF StopsLast
<1>5. CASE Commit
  <2>1. /\ pc = "configs" /\ pc' = "shutdown" /\ guards' = {}
        /\ inbox' = Append(inbox, "shutdown") /\ UNCHANGED <<pending, exec>>
    BY <1>5 DEF Commit, Step
  <2>2. inbox = <<>> /\ pending = {} /\ exec = "waiting"
    BY <2>1 DEF IInv, GuardsStand, ExecutorRests, StopsLast, InitSteps, Dropped
  <2>3. inbox' = <<"shutdown">>
    BY <2>1, <2>2
  <2>4. "shutdown" \in InExecutor'
    BY <2>3 DEF InExecutor
  <2> QED
    BY <2>1, <2>2, <2>3, <2>4 DEF StopsLast
<1>6. ASSUME NEW r \in Resources, DropGuard(r)
      PROVE  StopsLast'
  <2>1. /\ pc = "dropping" /\ UNCHANGED <<pc, pending, exec>> /\ r \in guards
        /\ inbox' = Append(inbox, r)
    BY <1>6 DEF DropGuard
  <2>2. ToSet(inbox') = ToSet(inbox) \cup {r}
    BY <1>1, <2>1, AppendSet
  <2>3. "shutdown" \notin InExecutor /\ exec # "stopped"
    BY <2>1 DEF StopsLast
  <2>4. "shutdown" \notin InExecutor'
    BY <1>1, <1>2, <2>1, <2>2, <2>3
  <2> QED
    BY <2>1, <2>3, <2>4 DEF StopsLast
<1>7. CASE InitFails \/ GuardsDropped \/ DropRegistry \/ Exit \/ ExecutorEnded \/ StartRun \/ UserAborts
  BY <1>3, <1>7
  DEF InitFails, GuardsDropped, DropRegistry, Exit, ExecutorEnded, StartRun, UserAborts, Passes, Step, executor,
      InitSteps
<1>8. CASE Cleanup
  BY <1>3, <1>8
  DEF Cleanup, EndRun, Terminate, DeleteRecorded, AwaitTerminated, AfterRules, Known, Passes, Step,
      executor, InitSteps
<1>9. CASE (\E i \in Instances : AutoTerminate(i) \/ InstanceGone(i)) \/ UNCHANGED vars
  BY <1>3, <1>9 DEF AutoTerminate, InstanceGone, Known, executor, vars
<1>10. CASE Receive
  <2>1. /\ inbox # <<>> /\ Head(inbox) # "shutdown" /\ exec = "waiting" /\ UNCHANGED <<exec, pc, guards>>
        /\ pending' = pending \cup {Head(inbox)} /\ inbox' = Tail(inbox)
    BY <1>10 DEF Receive, Elsewhere
  <2>2. ToSet(inbox) = {Head(inbox)} \cup ToSet(inbox')
    BY <1>1, <2>1, TailSet
  <2>3. InExecutor' = InExecutor
    BY <1>2, <2>1, <2>2
  <2>4. "shutdown" \notin InExecutor
    <3>1. inbox = <<"shutdown">> => Head(inbox) = "shutdown"
      OBVIOUS
    <3> QED
      BY <2>1, <3>1 DEF StopsLast
  <2> QED
    BY <2>1, <2>3, <2>4 DEF StopsLast
<1>11. CASE Stop
  <2>1. /\ exec = "waiting" /\ exec' = (IF pending = {} THEN "stopped" ELSE "draining")
        /\ UNCHANGED <<pending, pc, guards>>
        /\ \/ inbox # <<>> /\ Head(inbox) = "shutdown" /\ inbox' = Tail(inbox)
           \/ inbox = <<>> /\ UNCHANGED inbox /\ pc = "failed"
    BY <1>11 DEF Stop, ToldToStop, Closed, Elsewhere
  <2>2. CASE inbox # <<>> /\ Head(inbox) = "shutdown" /\ inbox' = Tail(inbox)
    <3>1. ToSet(inbox) = {"shutdown"} \cup ToSet(inbox')
      BY <1>1, <2>2, TailSet
    <3>2. inbox = <<"shutdown">> /\ guards = {} /\ InExecutor = {"shutdown"}
      BY <1>2, <3>1 DEF StopsLast, IInv, ExecutorHasAll
    <3>3. inbox' = <<>> /\ pending = {}
      BY <1>1, <1>2, <2>2, <3>2
    <3>4. InExecutor' = {}
      BY <2>1, <3>3 DEF InExecutor
    <3>5. pc \notin InitSteps
      BY <3>2 DEF IInv, GuardsStand
    <3> QED
      BY <2>1, <3>2, <3>3, <3>4, <3>5 DEF StopsLast
  <2>3. CASE inbox = <<>> /\ UNCHANGED inbox /\ pc = "failed"
    <3>1. guards = {} /\ "shutdown" \notin InExecutor' /\ (pending = {} => InExecutor' = {})
      BY <1>1, <2>1, <2>3 DEF IInv, GuardsStand, InExecutor, InitSteps
    <3> QED
      BY <2>1, <2>3, <3>1 DEF StopsLast, InitSteps
  <2> QED
    BY <2>1, <2>2, <2>3
<1>12. CASE Timer
  <2>1. inbox = <<>> /\ exec = "waiting" /\ exec' = "deleting" /\ UNCHANGED <<inbox, pending, pc, guards>>
    BY <1>12 DEF Timer, Elsewhere
  <2>2. "shutdown" \notin InExecutor' /\ InExecutor' = InExecutor
    BY <1>1, <2>1 DEF InExecutor
  <2> QED
    BY <2>1, <2>2 DEF StopsLast
<1>13. ASSUME NEW r \in Resources, DeletePending(r) \/ DeletionHangs(r)
       PROVE  StopsLast'
  <2>1. /\ exec \in {"deleting", "draining"} /\ r \in pending /\ pending' = pending \ {r}
        /\ exec' = "stopped" => pending' = {}
        /\ UNCHANGED <<inbox, pc, guards>>
    BY <1>13 DEF DeletePending, DeletionHangs, TryFirst, Elsewhere
  <2>2. inbox = <<>> /\ pc \in Dropped /\ guards = {}
    BY <2>1 DEF IInv, ExecutorHasAll, ExecutorRests, GuardsStand, Dropped, InitSteps
  <2>3. InExecutor' = pending'
    BY <2>1, <2>2 DEF InExecutor
  <2> QED
    BY <1>1, <2>1, <2>2, <2>3 DEF StopsLast, Dropped, InitSteps
<1> QED
  BY <1>4, <1>5, <1>6, <1>7, <1>8, <1>9, <1>10, <1>11, <1>12, <1>13
  DEF Next, Dropping, Executor, Over

\* What DroppedAreDeleted and CommitReturns need beside the fairness of a
\* task: the executor takes a bounded number of steps for what it was sent, it
\* does not end before it has handled everything, and an initialization that
\* awaits its end has told it so.
THEOREM ExecutorFinishes ==
  Spec => /\ [](ExecutorSteps \in Nat)
          /\ [][ExecutorGetsDone]_vars
          /\ []StopsLast
<1>1. Init => StopsLast
  BY DEF Init, StopsLast, InExecutor
<1>2. IInv => ExecutorSteps \in Nat
  BY PendingIsFinite DEF ExecutorSteps, IInv, TypeOK
<1> QED
  BY <1>1, <1>2, ExecutorStepsCounted, StopsLastNext, InductiveInvariant, PTL DEF Spec
=============================================================================
