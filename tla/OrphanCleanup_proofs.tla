-------------------------- MODULE OrphanCleanup_proofs --------------------------
(***************************************************************************)
(* Theorems about OrphanCleanup, for any number of runs, instances and     *)
(* commands and every command line.  The inductive invariant says what     *)
(* the scan must have found, and what it may have found, while runs go on  *)
(* creating and deleting beside it.  Last, a measure bounds what an        *)
(* execution has left to do after its scan.                                *)
(***************************************************************************)
EXTENDS OrphanCleanup, FiniteSetTheorems, TLAPS

\* What is not a bucket carries its tags from the start.
TaggedFromTheStart == \A r \in made : r.name # "bucket" => r \in tagged

\* What the scan took is old, and was asked for or could not be read.
FoundIsMatched ==
  /\ broken => found = {}
  /\ \A r \in found :
       /\ r.run \in old
       /\ \/ options.force /\ options.runId \in {"any", r.run}
          \/ options.runId = "any" /\ r \in blind

InScope(r) == r.run \in settled /\ options.runId \in {"any", r.run}

\* A forced scan has found what was there before, in the services it has seen.
NothingIsMissed ==
  pc \in {"scanning", "deleting"} /\ ~broken /\ options.force =>
    \A r \in exists \ dying :
      InScope(r) /\ Service(r) \in scanned
        => r \in found \/ (r \in blind /\ options.runId # "any")

\* Deleting begins with the whole scan and nothing in the report, and skips
\* nothing if it is to execute.
WorkIsComplete ==
  /\ pc = "scanning" => deleted \cup failed \cup skipped = {}
  /\ pc = "deleting" => scanned = Services /\ ~broken
  /\ options.execute => skipped = {}

IInv ==
  /\ TypeOK
  /\ TaggedFromTheStart /\ FoundIsMatched /\ NothingIsMissed /\ WorkIsComplete

-----------------------------------------------------------------------------
\* Names of instances are not names of services, and each resource has a service.
LEMMA Names ==
  ASSUME NEW r \in Owned
  PROVE  /\ r = [run |-> r.run, name |-> r.name] /\ r.run \in Runs
         /\ r.name \in Instances \cup {"group", "bucket", "role", "profile"}
         /\ r.name \in Instances <=> r.name \notin {"group", "bucket", "role", "profile"}
         /\ Service(r) \in Services
         /\ Service(r) = IF r.name \in Instances THEN "instance" ELSE r.name
BY OrphanCleanupAssumption DEF Resource, Services, Service

LEMMA NoOptionsType == NoOptions \in Option
BY DEF NoOptions, Option

LEMMA InitInv == Init => IInv
<1> SUFFICES ASSUME Init
             PROVE  IInv
  OBVIOUS
<1> USE OrphanCleanupAssumption, NoOptionsType DEF Init
<1>1. TypeOK
  <2>1. tries \in 0 .. MaxRetries /\ options \in Option
    OBVIOUS
  <2>2. dying \subseteq InstancesIn(exists) /\ unawaited \subseteq InstancesIn(Of(current, deleted))
    OBVIOUS
  <2> QED
    BY <2>1, <2>2 DEF TypeOK
<1>2. TaggedFromTheStart /\ FoundIsMatched /\ NothingIsMissed /\ WorkIsComplete
  BY DEF TaggedFromTheStart, FoundIsMatched, NothingIsMissed, WorkIsComplete
<1> QED
  BY <1>1, <1>2 DEF IInv

\* What the runs and AWS do leaves the command alone; they create nothing in the
\* name of a run that was dead when the command began.
LEMMA WorldInv ==
  ASSUME IInv,
         \/ \E r \in Owned : Create(r) \/ TagBucket(r) \/ RunDeletes(r) \/ InstanceGone(r)
         \/ \E run \in Runs : RunDies(run) \/ GrowOld(run)
  PROVE  IInv'
<1> USE OrphanCleanupAssumption, Names
<1> USE DEF IInv, TypeOK, TaggedFromTheStart, FoundIsMatched, NothingIsMissed, WorkIsComplete,
            InstancesIn, Of, Command, scan, report, InScope
<1>1. ASSUME NEW r \in Owned, Create(r)
      PROVE  IInv'
  BY <1>1 DEF Create
<1>2. ASSUME NEW r \in Owned, TagBucket(r)
      PROVE  IInv'
  BY <1>2 DEF TagBucket
<1>3. ASSUME NEW r \in Owned, RunDeletes(r)
      PROVE  IInv'
  BY <1>3 DEF RunDeletes
<1>4. ASSUME NEW r \in Owned, InstanceGone(r)
      PROVE  IInv'
  BY <1>4 DEF InstanceGone
<1>5. ASSUME NEW run \in Runs, RunDies(run)
      PROVE  IInv'
  BY <1>5 DEF RunDies
<1>6. ASSUME NEW run \in Runs, GrowOld(run)
      PROVE  IInv'
  BY <1>6 DEF GrowOld
<1> QED
  BY <1>1, <1>2, <1>3, <1>4, <1>5, <1>6

\* A process that starts or ends knows nothing.
LEMMA ProcessInv == IInv /\ (Begin \/ Kill \/ ScanError \/ Finish) => IInv'
<1> SUFFICES ASSUME IInv, Begin \/ Kill \/ ScanError \/ Finish
             PROVE  IInv'
  OBVIOUS
<1>1. Forget /\ UNCHANGED world
  BY DEF Begin, Kill, ScanError, Finish, Exit
<1>2. options' \in Option /\ settled' \subseteq old \ alive
  BY OrphanCleanupAssumption, NoOptionsType DEF Begin, Kill, ScanError, Finish, Exit
<1>3. pc' \in {"scanning", "idle", "error", "done"}
  BY DEF Begin, Kill, ScanError, Finish
<1>4. UNCHANGED <<made, exists, dying, tagged, alive, old>>
  BY <1>1 DEF world
<1> USE <1>1, <1>2, <1>3, <1>4 DEF Forget
<1>5. TypeOK'
  <2>1. dying' \subseteq InstancesIn(exists')
    BY DEF IInv, TypeOK
  <2>2. tries' \in 0 .. MaxRetries /\ unawaited' \subseteq InstancesIn(Of(current', deleted'))
    BY OrphanCleanupAssumption
  <2> QED
    BY <1>2, <2>1, <2>2 DEF IInv, TypeOK
<1>6. (TaggedFromTheStart /\ FoundIsMatched /\ NothingIsMissed /\ WorkIsComplete)'
  BY DEF IInv, TaggedFromTheStart, FoundIsMatched, NothingIsMissed, WorkIsComplete, Services
<1> QED
  BY <1>5, <1>6 DEF IInv

\* The five queries: each sees what exists when it is answered.
LEMMA ScanInv ==
  ASSUME IInv, NEW service \in Services, Scan(service)
  PROVE  IInv'
<1> USE OrphanCleanupAssumption, Names
<1> USE DEF IInv, TypeOK
<1>1. PICK unread \in UnreadSets(service) :
        /\ found' = IF broken THEN {}
                    ELSE found \cup {r \in Listed(service) : Matches(r, r \in unread)}
        /\ blind' = IF broken THEN {} ELSE blind \cup {r \in unread : r.run \in old}
  BY DEF Scan
<1>2. /\ pc = "scanning" /\ scanned' = scanned \cup {service}
      /\ UNCHANGED <<made, exists, dying, tagged, alive, old, pc, options, broken, current,
                     unawaited, tries, deleted, failed, skipped, settled>>
  BY DEF Scan, world, report
<1>3. unread \subseteq Listed(service) /\ Listed(service) \subseteq exists \ dying
  BY <1>1 DEF UnreadSets, Listed
<1>4. service \notin {"instance", "group"} => Listed(service) \ tagged \subseteq unread
  BY <1>1 DEF UnreadSets
<1>5. TypeOK'
  <2>1. found' \subseteq made /\ blind' \subseteq made
    BY <1>1, <1>3
  <2>2. deleted \cup failed \cup skipped \subseteq found'
    BY <1>2 DEF WorkIsComplete
  <2> QED
    BY <1>2, <2>1, <2>2 DEF InstancesIn, Of
<1>6. FoundIsMatched'
  BY <1>1, <1>2, <1>3 DEF FoundIsMatched, Matches
<1>7. NothingIsMissed'
  <2> SUFFICES ASSUME ~broken, options.force, NEW r \in exists \ dying, InScope(r),
                      Service(r) \in scanned \cup {service}
               PROVE  r \in found' \/ (r \in blind' /\ options.runId # "any")
    BY <1>2 DEF NothingIsMissed, InScope
  <2>1. CASE Service(r) \in scanned
    BY <1>1, <1>2, <2>1 DEF NothingIsMissed
  <2>2. CASE Service(r) = service
    <3>1. r \in Listed(service)
      BY <2>2 DEF Listed, TaggedFromTheStart
    <3>2. r.run \in old /\ options.runId \in {"any", r.run}
      BY DEF InScope
    <3>3. CASE r \in unread
      BY <1>1, <3>1, <3>2, <3>3 DEF Matches
    <3>4. CASE r \notin unread
      <4>1. r \in tagged
        BY <1>4, <3>1, <3>4 DEF Listed
      <4> QED
        BY <1>1, <3>1, <3>2, <3>4, <4>1 DEF Matches
    <3> QED
      BY <3>3, <3>4
  <2> QED
    BY <2>1, <2>2
<1>8. (TaggedFromTheStart /\ WorkIsComplete)'
  BY <1>2 DEF TaggedFromTheStart, WorkIsComplete
<1> QED
  BY <1>5, <1>6, <1>7, <1>8

LEMMA ScanEndsInv ==
  ASSUME IInv, EndScan \/ (\E service \in Services : ScanFails(service))
  PROVE  IInv'
<1> USE DEF IInv, TypeOK, TaggedFromTheStart, FoundIsMatched, NothingIsMissed, WorkIsComplete,
            InstancesIn, Of, InScope, world, scan, report
<1>1. CASE EndScan
  BY <1>1 DEF EndScan
<1>2. ASSUME NEW service \in Services, ScanFails(service)
      PROVE  IInv'
  BY <1>2 DEF ScanFails
<1> QED
  BY <1>1, <1>2

\* Deleting only takes away, and the report says what.
LEMMA DeletingInv ==
  ASSUME IInv, (\E run \in Runs : NextRun(run)) \/ (\E r \in Owned : Handle(r))
  PROVE  IInv'
<1> USE OrphanCleanupAssumption, Names
<1> USE DEF IInv, TypeOK, TaggedFromTheStart, FoundIsMatched, NothingIsMissed, WorkIsComplete,
            InstancesIn, Of, InScope, Work
<1>1. ASSUME NEW run \in Runs, NextRun(run)
      PROVE  IInv'
  BY <1>1 DEF NextRun, world, scan, report
<1> SUFFICES ASSUME NEW r \in Owned, Handle(r)
             PROVE  IInv'
  BY <1>1
<1>2. /\ pc = "deleting" /\ r \in found \ (deleted \cup failed \cup skipped) /\ r.run = current
      /\ UNCHANGED <<made, tagged, alive, old, pc, options, scanned, broken, found, blind,
                     current, settled>>
  BY DEF Handle, DryRun, Fails, Terminate, Delete, DeleteRole, AwaitInstances, DeleteGroup,
         RetryGroup, Turn, Deleting, scan
<1> USE <1>2
<1>3. CASE DryRun(r)
  BY <1>3 DEF DryRun
<1>4. CASE Fails(r)
  BY <1>4 DEF Fails
<1>5. CASE Terminate(r)
  BY <1>5 DEF Terminate
<1>6. CASE Delete(r)
  BY <1>6 DEF Delete
<1>7. CASE DeleteRole(r)
  BY <1>7 DEF DeleteRole, ProfileOf
<1>8. CASE AwaitInstances(r)
  BY <1>8 DEF AwaitInstances, report
<1>9. CASE DeleteGroup(r)
  BY <1>9 DEF DeleteGroup
<1>10. CASE RetryGroup(r)
  BY <1>10 DEF RetryGroup, report
<1> QED
  BY <1>3, <1>4, <1>5, <1>6, <1>7, <1>8, <1>9, <1>10 DEF Handle

LEMMA NextInv == IInv /\ [Next]_vars => IInv'
<1> SUFFICES ASSUME IInv, [Next]_vars
             PROVE  IInv'
  OBVIOUS
<1>1. CASE UNCHANGED vars
  BY <1>1
  DEF vars, world, scan, report, IInv, TypeOK, TaggedFromTheStart, FoundIsMatched,
      NothingIsMissed, WorkIsComplete, InstancesIn, Of, InScope
<1>2. CASE \E r \in Owned : Create(r) \/ TagBucket(r) \/ RunDeletes(r) \/ InstanceGone(r)
  BY <1>2, WorldInv
<1>3. CASE \E run \in Runs : RunDies(run) \/ GrowOld(run)
  BY <1>3, WorldInv
<1>4. CASE Begin \/ Kill \/ ScanError \/ Finish
  BY <1>4, ProcessInv
<1>5. CASE (\E service \in Services : Scan(service) \/ ScanFails(service)) \/ EndScan
  BY <1>5, ScanInv, ScanEndsInv
<1>6. CASE (\E run \in Runs : NextRun(run)) \/ (\E r \in Owned : Handle(r))
  BY <1>6, DeletingInv
<1> QED
  BY <1>1, <1>2, <1>3, <1>4, <1>5, <1>6 DEF Next, CommandStep

-----------------------------------------------------------------------------
\* The inductive invariant holds in every behaviour.
THEOREM InductiveInvariant == Spec => []IInv
<1>1. Init => IInv
  BY InitInv
<1>2. IInv /\ [Next]_vars => IInv'
  BY NextInv
<1> QED
  BY <1>1, <1>2, PTL DEF Spec

\* Every variable keeps its type, and the report of the command is true: it is
\* about what was found, each thing once, and what it calls deleted, a role
\* excepted, is gone or dying.
THEOREM TypeCorrect == Spec => []TypeOK
<1>1. IInv => TypeOK
  BY DEF IInv
<1> QED
  BY <1>1, InductiveInvariant, PTL

\* cleanup-orphans that reports no failure has missed nothing in its scope,
\* whatever the other runs did during its scan: the exceptions are roles and what
\* a filtered scan could not read.
THEOREM CleanReports == Spec => []CleanReportIsClean
<1>1. IInv => CleanReportIsClean
  <2> SUFFICES ASSUME IInv, Reported, options.execute, options.force, failed = {},
                      NEW r \in exists \ dying, r.run \in settled,
                      options.runId \in {"any", r.run}, r.name # "role",
                      ~(r \in blind /\ options.runId # "any")
               PROVE  FALSE
    BY DEF CleanReportIsClean
  <2> USE DEF IInv, TypeOK
  <2>1. pc = "deleting" /\ found \subseteq deleted
    BY DEF Reported, Work, WorkIsComplete
  <2>2. r \in Owned /\ Service(r) \in scanned
    BY <2>1, Names DEF WorkIsComplete
  <2>3. r \in found
    BY <2>1, <2>2 DEF WorkIsComplete, NothingIsMissed, InScope
  <2> QED
    BY <2>1, <2>3
<1> QED
  BY <1>1, InductiveInvariant, PTL

\* The report of deletions grows with the calls that delete, one resource each.
LEMMA DeletedBySomeCall ==
  ASSUME IInv, [Next]_vars, deleted' # deleted, pc' = "deleting"
  PROVE  \E r \in Owned : Terminate(r) \/ Delete(r) \/ DeleteRole(r) \/ DeleteGroup(r)
<1>1. CASE UNCHANGED vars
  BY <1>1 DEF vars, report
<1>2. CASE \E r \in Owned : Create(r) \/ TagBucket(r) \/ RunDeletes(r) \/ InstanceGone(r)
  BY <1>2 DEF Create, TagBucket, RunDeletes, InstanceGone, Command, report
<1>3. CASE \E run \in Runs : RunDies(run) \/ GrowOld(run)
  BY <1>3 DEF RunDies, GrowOld, Command, report
<1>4. CASE Begin \/ Kill \/ ScanError \/ Finish
  BY <1>4 DEF Begin, Kill, ScanError, Finish
<1>5. CASE (\E service \in Services : Scan(service) \/ ScanFails(service)) \/ EndScan
  BY <1>5 DEF Scan, ScanFails, EndScan, report
<1>6. CASE \E run \in Runs : NextRun(run)
  BY <1>6 DEF NextRun, report
<1>7. ASSUME NEW r \in Owned, Handle(r)
      PROVE  Terminate(r) \/ Delete(r) \/ DeleteRole(r) \/ DeleteGroup(r)
  BY <1>7 DEF Handle, DryRun, Fails, AwaitInstances, RetryGroup, report
<1> QED
  BY <1>1, <1>2, <1>3, <1>4, <1>5, <1>6, <1>7 DEF Next, CommandStep

\* No call of the command takes what its line does not ask for, nor anything of
\* a young run.
THEOREM DeletedAreMatched == Spec => OnlyMatchedAreDeleted
<1>1. IInv /\ [Next]_vars => DeletesOnlyMatched
  <2> SUFFICES ASSUME IInv, [Next]_vars, deleted' # deleted, pc' = "deleting",
                      NEW r \in (exists \ dying) \ (exists' \ dying')
               PROVE  MayBeDeleted(r)
    BY DEF DeletesOnlyMatched
  <2> USE OrphanCleanupAssumption DEF IInv, TypeOK
  <2>1. PICK t \in Owned : Terminate(t) \/ Delete(t) \/ DeleteRole(t) \/ DeleteGroup(t)
    BY DeletedBySomeCall
  <2>2. options.execute /\ t \in found /\ t \in Owned
    BY <2>1 DEF Terminate, Delete, DeleteRole, DeleteGroup, Turn, Work, Of
  <2>3. \/ t.run \in old /\ options.force /\ options.runId \in {"any", t.run}
        \/ t.run \in old /\ options.runId = "any" /\ t \in blind
    BY <2>2 DEF FoundIsMatched
  <2>4. CASE r = t
    BY <2>2, <2>3, <2>4 DEF MayBeDeleted
  <2>5. CASE r # t
    <3>1. DeleteRole(t) /\ r = ProfileOf(t) /\ t.name = "role"
      BY <2>1, <2>5 DEF Terminate, Delete, DeleteRole, DeleteGroup
    <3>2. r.run = t.run /\ r.name = "profile" /\ RoleOf(r) = t
      <4>1. t = [run |-> t.run, name |-> "role"] /\ r = [run |-> t.run, name |-> "profile"]
        BY <2>2, <3>1, Names DEF ProfileOf
      <4> QED
        BY <4>1 DEF RoleOf
    <3> QED
      BY <2>2, <2>3, <3>2 DEF MayBeDeleted
  <2> QED
    BY <2>4, <2>5
<1> QED
  BY <1>1, InductiveInvariant, PTL DEF Spec, OnlyMatchedAreDeleted

\* Attempts on a group are counted, and reported, by the calls for it.
LEMMA GroupCalls ==
  ASSUME IInv, [Next]_vars, pc = "deleting", NEW r \in Owned, r.name = "group",
         tries' > tries \/ r \in (deleted' \cup failed') \ (deleted \cup failed)
  PROVE  \E t \in Owned : Turn(t) /\ t.name = "group" /\ unawaited = {}
<1> USE OrphanCleanupAssumption DEF IInv, TypeOK
<1>1. CASE UNCHANGED vars
  BY <1>1 DEF vars, report
<1>2. CASE \E t \in Owned : Create(t) \/ TagBucket(t) \/ RunDeletes(t) \/ InstanceGone(t)
  BY <1>2 DEF Create, TagBucket, RunDeletes, InstanceGone, Command, report
<1>3. CASE \E run \in Runs : RunDies(run) \/ GrowOld(run)
  BY <1>3 DEF RunDies, GrowOld, Command, report
<1>4. CASE Begin \/ Kill \/ ScanError \/ Finish
  <2>1. tries' = 0 /\ deleted' = {} /\ failed' = {}
    BY <1>4 DEF Begin, Kill, ScanError, Finish, Exit, Forget
  <2> QED
    BY <2>1
<1>5. CASE (\E service \in Services : Scan(service) \/ ScanFails(service)) \/ EndScan
  BY <1>5 DEF Scan, ScanFails, EndScan, report
<1>6. CASE \E run \in Runs : NextRun(run)
  BY <1>6 DEF NextRun, report
<1>7. ASSUME NEW t \in Owned, Handle(t)
      PROVE  Turn(t) /\ t.name = "group" /\ unawaited = {}
  <2>1. CASE DryRun(t) \/ AwaitInstances(t)
    BY <2>1 DEF DryRun, AwaitInstances, report
  <2>2. CASE Terminate(t) \/ Delete(t) \/ DeleteRole(t)
    BY <2>2, Names DEF Terminate, Delete, DeleteRole
  <2>3. CASE Fails(t)
    BY <2>3 DEF Fails
  <2>4. CASE DeleteGroup(t) \/ RetryGroup(t)
    BY <2>4 DEF DeleteGroup, RetryGroup
  <2> QED
    BY <1>7, <2>1, <2>2, <2>3, <2>4 DEF Handle
<1> QED
  BY <1>1, <1>2, <1>3, <1>4, <1>5, <1>6, <1>7 DEF Next, CommandStep

\* A call for a group is the last of its run.
THEOREM GroupsGoLast == Spec => GroupGoesLast
<1>1. IInv /\ [Next]_vars => GroupComesLast
  <2> SUFFICES ASSUME IInv, [Next]_vars, NEW r \in Owned, r.name = "group", r.run = current,
                      pc = "deleting",
                      tries' > tries \/ r \in (deleted' \cup failed') \ (deleted \cup failed)
               PROVE  InstancesIn(Of(r.run, Work)) = {} /\ unawaited = {}
    BY DEF GroupComesLast
  <2> USE OrphanCleanupAssumption DEF IInv, TypeOK
  <2>1. PICK t \in Owned : Turn(t) /\ t.name = "group" /\ unawaited = {}
    BY GroupCalls
  <2>2. ASSUME NEW s \in Of(r.run, Work), s.name \in Instances
        PROVE  FALSE
    <3>1. s \in Owned /\ s \in Of(current, Work)
      BY <2>2 DEF Of, Work
    <3>2. CleanupOrder(t) <= CleanupOrder(s)
      BY <2>1, <3>1 DEF Turn
    <3>3. CleanupOrder(s) = 0 /\ CleanupOrder(t) = 5
      BY <2>1, <2>2, <3>1, Names DEF CleanupOrder
    <3> QED
      BY <3>2, <3>3
  <2> QED
    BY <2>1, <2>2 DEF InstancesIn
<1> QED
  BY <1>1, InductiveInvariant, PTL DEF Spec, GroupGoesLast
-----------------------------------------------------------------------------
(* A command comes to its report.                                           *)

\* How many deletions, retries, waits and changes of run are left at most.
DeletionLeft ==
  (MaxRetries + 3) * Cardinality(Work)
    + IF Of(current, Work) = {} THEN MaxRetries + 2
      ELSE (MaxRetries - tries) + (IF unawaited = {} THEN 0 ELSE 1)

FinitelyMade == IsFiniteSet(made)

\* AWS lists finitely many resources, and among those of a run one is next.
SomethingIsNext ==
  /\ FinitelyMade
  /\ pc = "deleting" /\ Of(current, Work) # {} => \E r \in Owned : Turn(r)

\* Each query answers once; then each step of the command leaves less to do, and
\* nothing else leaves more: what runs create meanwhile is not taken up.
ReportComesNearer ==
  /\ \A service \in Services :
       Scan(service) \/ ScanFails(service)
         => Cardinality(Services \ scanned') < Cardinality(Services \ scanned)
  /\ pc = "deleting" /\ pc' = "deleting" =>
       /\ DeletionLeft' <= DeletionLeft
       /\ CommandStep => DeletionLeft' < DeletionLeft

LEMMA OrderOfName ==
  ASSUME NEW r \in Owned
  PROVE  CleanupOrder(r) \in {0, 2, 3, 4, 5}
<1>1. /\ r.name \in Instances \cup {"group", "bucket", "role", "profile"}
      /\ Service(r) = IF r.name \in Instances THEN "instance" ELSE r.name
  BY Names
<1>2. Service(r) \in {"instance", "group", "bucket", "role", "profile"}
  BY <1>1
<1> QED
  BY <1>2 DEF CleanupOrder

\* The least of the resources of a run.
LEMMA SomeTurn ==
  ASSUME IInv, pc = "deleting", Of(current, Work) # {}
  PROVE  \E r \in Owned : Turn(r)
<1> DEFINE S == Of(current, Work)
<1>1. S \subseteq Owned
  BY DEF IInv, TypeOK, Of, Work
<1>2. \A r \in S : CleanupOrder(r) \in {0, 2, 3, 4, 5}
  BY <1>1, OrderOfName
<1>3. \E r \in S : \A s \in S : CleanupOrder(r) <= CleanupOrder(s)
  <2> DEFINE Has(n) == \E r \in S : CleanupOrder(r) = n
  <2>1. CASE Has(0)
    BY <1>2, <2>1
  <2>2. CASE ~Has(0) /\ Has(2)
    BY <1>2, <2>2
  <2>3. CASE ~Has(0) /\ ~Has(2) /\ Has(3)
    BY <1>2, <2>3
  <2>4. CASE ~Has(0) /\ ~Has(2) /\ ~Has(3) /\ Has(4)
    BY <1>2, <2>4
  <2>5. CASE ~Has(0) /\ ~Has(2) /\ ~Has(3) /\ ~Has(4)
    BY <1>2, <2>5
  <2> QED
    BY <2>1, <2>2, <2>3, <2>4, <2>5
<1> QED
  BY <1>1, <1>3 DEF Turn

LEMMA MadeIsFinite == FinitelyMade /\ [Next]_vars => FinitelyMade'
<1> SUFFICES ASSUME IsFiniteSet(made), [Next]_vars
             PROVE  IsFiniteSet(made')
  BY DEF FinitelyMade
<1>1. ASSUME NEW r \in Owned, Create(r)
      PROVE  IsFiniteSet(made')
  <2>1. made' = made \cup {r}
    BY <1>1 DEF Create
  <2>2. IsFiniteSet(made \cup {r})
    BY FS_AddElement
  <2> QED
    BY <2>1, <2>2
<1>2. CASE UNCHANGED made
  BY <1>2
<1>3. UNCHANGED made \/ \E r \in Owned : Create(r)
  BY DEF Next, CommandStep, Handle, vars, world, Exit, Deleting, TagBucket, RunDeletes, InstanceGone,
         RunDies, GrowOld, Begin, Kill, Scan, ScanFails, EndScan, ScanError, Finish, NextRun, DryRun,
         Fails, Terminate, Delete, DeleteRole, AwaitInstances, DeleteGroup, RetryGroup
<1> QED
  BY <1>1, <1>2, <1>3

\* The parts of DeletionLeft: what is left to do of the current run.
RestOfRun ==
  IF Of(current, Work) = {} THEN MaxRetries + 2
  ELSE (MaxRetries - tries) + (IF unawaited = {} THEN 0 ELSE 1)

LEMMA RestType == TypeOK => RestOfRun \in 0 .. MaxRetries + 2
BY OrphanCleanupAssumption DEF TypeOK, RestOfRun

LEMMA RestTypeNext == TypeOK' => RestOfRun' \in 0 .. MaxRetries + 2
<1>1. TypeOK' => tries' \in 0 .. MaxRetries
  BY DEF TypeOK
<1>2. \/ RestOfRun' = MaxRetries + 2
      \/ RestOfRun' = (MaxRetries - tries') + (IF unawaited' = {} THEN 0 ELSE 1)
  BY DEF RestOfRun
<1> QED
  BY <1>1, <1>2, OrphanCleanupAssumption

LEMMA WorkIsFinite ==
  ASSUME TypeOK, IsFiniteSet(made)
  PROVE  IsFiniteSet(Work) /\ Cardinality(Work) \in Nat
<1>1. Work \subseteq made
  BY DEF TypeOK, Work
<1>2. IsFiniteSet(Work)
  BY <1>1, FS_Subset
<1> QED
  BY <1>2, FS_CardinalityType

\* One thing less to handle outweighs whatever its run has left.
LEMMA OneLess ==
  ASSUME NEW n \in Nat, NEW a \in 0 .. MaxRetries + 2, NEW b \in 0 .. MaxRetries + 2
  PROVE  (MaxRetries + 3) * n + b < (MaxRetries + 3) * (n + 1) + a
<1>1. (MaxRetries + 3) * (n + 1) = (MaxRetries + 3) * n + (MaxRetries + 3)
  BY OrphanCleanupAssumption
<1>2. (MaxRetries + 3) * n \in Nat
  BY OrphanCleanupAssumption
<1> QED
  BY <1>1, <1>2, OrphanCleanupAssumption

LEMMA HandledIsLess ==
  ASSUME IInv, TypeOK', IsFiniteSet(made), NEW r \in Owned, Handle(r)
  PROVE  DeletionLeft' < DeletionLeft
<1> USE OrphanCleanupAssumption
<1>1. /\ r \in Of(current, Work) /\ r \in Work /\ UNCHANGED <<current, found>>
  BY DEF Handle, DryRun, Fails, Terminate, Delete, DeleteRole, AwaitInstances, DeleteGroup,
         RetryGroup, Turn, Deleting, scan, Of
<1>2. Cardinality(Work) \in Nat /\ IsFiniteSet(Work)
  BY WorkIsFinite DEF IInv
<1>3. RestOfRun \in 0 .. MaxRetries + 2 /\ RestOfRun' \in 0 .. MaxRetries + 2
  BY RestType, RestTypeNext DEF IInv
<1>4. /\ DeletionLeft = (MaxRetries + 3) * Cardinality(Work) + RestOfRun
      /\ DeletionLeft' = (MaxRetries + 3) * Cardinality(Work)' + RestOfRun'
  BY DEF DeletionLeft, RestOfRun
<1>5. CASE DryRun(r) \/ Fails(r) \/ Terminate(r) \/ Delete(r) \/ DeleteRole(r) \/ DeleteGroup(r)
  <2>1. deleted' \cup failed' \cup skipped' = deleted \cup failed \cup skipped \cup {r}
    BY <1>5 DEF DryRun, Fails, Terminate, Delete, DeleteRole, DeleteGroup
  <2>2. Work' = Work \ {r}
    BY <1>1, <2>1 DEF Work
  <2>3. Cardinality(Work \ {r}) = Cardinality(Work) - 1 /\ IsFiniteSet(Work \ {r})
    BY <1>1, <1>2, FS_RemoveElement
  <2>4. Cardinality(Work)' = Cardinality(Work) - 1 /\ Cardinality(Work)' \in Nat
    <3>1. Cardinality(Work \ {r}) \in Nat
      BY <2>3, FS_CardinalityType
    <3> QED
      BY <2>2, <2>3, <3>1
  <2> DEFINE n == Cardinality(Work)'
  <2>5. n \in Nat /\ Cardinality(Work) = n + 1
    BY <1>2, <2>4
  <2> HIDE DEF n
  <2>6. (MaxRetries + 3) * n + RestOfRun' < (MaxRetries + 3) * (n + 1) + RestOfRun
    BY <1>3, <2>5, OneLess
  <2> QED
    BY <1>4, <2>5, <2>6 DEF n
<1>6. CASE AwaitInstances(r) \/ RetryGroup(r)
  <2>1. UNCHANGED <<current, found, deleted, failed, skipped>>
    BY <1>1, <1>6 DEF AwaitInstances, RetryGroup, report
  <2>2. Work' = Work /\ Of(current, Work)' = Of(current, Work) /\ Of(current, Work) # {}
    BY <1>1, <2>1 DEF Work, Of
  <2>3. RestOfRun' < RestOfRun
    <3>1. /\ RestOfRun = (MaxRetries - tries) + (IF unawaited = {} THEN 0 ELSE 1)
          /\ RestOfRun' = (MaxRetries - tries') + (IF unawaited' = {} THEN 0 ELSE 1)
      BY <2>2 DEF RestOfRun
    <3>2. tries \in 0 .. MaxRetries
      BY DEF IInv, TypeOK
    <3>3. CASE AwaitInstances(r)
      BY <3>1, <3>2, <3>3 DEF AwaitInstances
    <3>4. CASE RetryGroup(r)
      BY <3>1, <3>2, <3>4 DEF RetryGroup
    <3> QED
      BY <1>6, <3>3, <3>4
  <2>4. Cardinality(Work)' = Cardinality(Work)
    BY <2>2
  <2>5. (MaxRetries + 3) * Cardinality(Work) \in Nat
    BY <1>2
  <2> QED
    BY <1>3, <1>4, <2>3, <2>4, <2>5
<1> QED
  BY <1>5, <1>6 DEF Handle

LEMMA NextRunIsLess ==
  ASSUME IInv, IsFiniteSet(made), NEW run \in Runs, NextRun(run)
  PROVE  DeletionLeft' < DeletionLeft
<1> USE OrphanCleanupAssumption
<1>1. /\ Of(current, Work) = {} /\ Of(run, Work) # {}
      /\ current' = run /\ unawaited' = {} /\ tries' = 0
      /\ UNCHANGED <<found, deleted, failed, skipped>>
  BY DEF NextRun, scan, report
<1>2. Work' = Work
  BY <1>1 DEF Work
<1>3. Of(current, Work)' = Of(run, Work)
  BY <1>1, <1>2 DEF Of
<1>4. RestOfRun = MaxRetries + 2 /\ RestOfRun' = MaxRetries
  BY <1>1, <1>3 DEF RestOfRun
<1>5. /\ DeletionLeft = (MaxRetries + 3) * Cardinality(Work) + RestOfRun
      /\ DeletionLeft' = (MaxRetries + 3) * Cardinality(Work) + RestOfRun'
  BY <1>2 DEF DeletionLeft, RestOfRun
<1>6. (MaxRetries + 3) * Cardinality(Work) \in Nat
  BY WorkIsFinite DEF IInv
<1> QED
  BY <1>4, <1>5, <1>6

LEMMA QueryIsLess ==
  ASSUME IInv, NEW service \in Services, Scan(service) \/ ScanFails(service)
  PROVE  Cardinality(Services \ scanned') < Cardinality(Services \ scanned)
<1>1. IsFiniteSet(Services)
  <2>1. Services = {"instance"} \cup ({"group"} \cup ({"bucket"} \cup ({"role"} \cup {"profile"})))
    BY DEF Services
  <2>2. \A x : IsFiniteSet({x})
    BY FS_Singleton
  <2> QED
    BY <2>1, <2>2, FS_Union
<1> DEFINE S == Services \ scanned
<1>2. IsFiniteSet(S) /\ Cardinality(S) \in Nat
  <2>1. IsFiniteSet(S)
    BY <1>1, FS_Subset
  <2> QED
    BY <2>1, FS_CardinalityType
<1>3. service \in S /\ Services \ scanned' = S \ {service}
  BY DEF Scan, ScanFails
<1>4. Cardinality(S \ {service}) = Cardinality(S) - 1
  BY <1>2, <1>3, FS_RemoveElement
<1>5. Cardinality(Services \ scanned') = Cardinality(S) - 1
  BY <1>3, <1>4
<1>6. Cardinality(S) - 1 < Cardinality(S)
  BY <1>2
<1> QED
  BY <1>5, <1>6

\* An execution of cleanup-orphans comes to its report: its queries, calls, waits
\* and retries are bounded when the scan is over, whatever the runs do beside it,
\* and as long as a run has something left one of its resources is next.
THEOREM ExecutionIsBounded ==
  Spec => []SomethingIsNext /\ [](DeletionLeft \in Nat) /\ [][ReportComesNearer]_vars
<1> USE OrphanCleanupAssumption
<1>1. Spec => []FinitelyMade
  <2>1. Init => FinitelyMade
    BY FS_EmptySet DEF Init, FinitelyMade
  <2> QED
    BY <2>1, MadeIsFinite, PTL DEF Spec
<1>2. IInv /\ FinitelyMade => SomethingIsNext
  BY SomeTurn DEF SomethingIsNext
<1>3. IInv /\ FinitelyMade => DeletionLeft \in Nat
  <2> SUFFICES ASSUME IInv, IsFiniteSet(made)
               PROVE  DeletionLeft \in Nat
    BY DEF FinitelyMade
  <2>1. RestOfRun \in Nat /\ (MaxRetries + 3) * Cardinality(Work) \in Nat
    BY RestType, WorkIsFinite DEF IInv
  <2>2. DeletionLeft = (MaxRetries + 3) * Cardinality(Work) + RestOfRun
    BY DEF DeletionLeft, RestOfRun
  <2> QED
    BY <2>1, <2>2
<1>4. IInv /\ IInv' /\ FinitelyMade /\ DeletionLeft \in Nat /\ (DeletionLeft \in Nat)' /\ [Next]_vars
        => [ReportComesNearer]_vars
  <2> SUFFICES ASSUME IInv, IInv', IsFiniteSet(made), DeletionLeft \in Nat, DeletionLeft' \in Nat, Next
               PROVE  ReportComesNearer
    BY DEF FinitelyMade
  <2>1. ASSUME NEW service \in Services, Scan(service) \/ ScanFails(service)
        PROVE  Cardinality(Services \ scanned') < Cardinality(Services \ scanned)
    BY <2>1, QueryIsLess
  <2>2. ASSUME pc = "deleting", pc' = "deleting"
        PROVE  /\ DeletionLeft' <= DeletionLeft
               /\ CommandStep => DeletionLeft' < DeletionLeft
    <3>1. CommandStep => DeletionLeft' < DeletionLeft
      <4> SUFFICES ASSUME CommandStep
                   PROVE  DeletionLeft' < DeletionLeft
        OBVIOUS
      <4>1. (\E run \in Runs : NextRun(run)) \/ (\E r \in Owned : Handle(r))
        BY <2>2 DEF CommandStep, Scan, ScanFails, EndScan, ScanError, Finish
      <4> QED
        BY <4>1, NextRunIsLess, HandledIsLess DEF IInv
    <3>2. CommandStep \/ UNCHANGED Command
      BY <2>2 DEF Next, Create, TagBucket, RunDeletes, InstanceGone, RunDies, GrowOld, Begin, Kill
    <3>3. UNCHANGED Command => DeletionLeft' = DeletionLeft
      BY DEF Command, scan, report, DeletionLeft, Work, Of
    <3> QED
      BY <3>1, <3>2, <3>3
  <2> QED
    BY <2>1, <2>2 DEF ReportComesNearer
<1> QED
  BY <1>1, <1>2, <1>3, <1>4, InductiveInvariant, PTL DEF Spec
=============================================================================
