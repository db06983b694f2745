---------------------------- MODULE OrphanCleanup ----------------------------
(***************************************************************************)
(* "nix-bench cleanup-orphans": scan AWS for resources that a run left     *)
(* behind, then delete them run by run.  It knows nothing but what AWS     *)
(* lists and the tags say, and it races with runs that are still going on, *)
(* which create, tag and delete resources between its scan and its calls.  *)
(*                                                                         *)
(* A run creates its bucket, tags it, then role, profile, group and        *)
(* instances, all of them tagged from the start, with the status           *)
(* "creating", which nothing in the code ever changes.  Initialization is  *)
(* taken to last less than --min-age-hours.  That a run is old means that  *)
(* all it created is older than that.                                      *)
(***************************************************************************)
EXTENDS Naturals, FiniteSets

CONSTANTS
  Runs,            \* benchmark runs, each with a run id of its own
  Instances,       \* names of instances
  Owned,           \* the resources that the runs create
  Options,         \* the command lines to consider
  MaxRetries       \* retries of the deletion of a group, 5 in the code

Services == {"instance", "group", "bucket", "role", "profile"}
Resource == [run : Runs, name : (Services \ {"instance"}) \cup Instances]

\* --force, --execute and --run-id of the command line.
Option == [force : BOOLEAN, execute : BOOLEAN, runId : Runs \cup {"any"}]
NoOptions == [force |-> FALSE, execute |-> FALSE, runId |-> "any"]

ASSUME OrphanCleanupAssumption ==
  /\ IsFiniteSet(Runs) /\ "any" \notin Runs /\ "none" \notin Runs
  /\ Instances \cap Services = {}
  /\ Owned \subseteq Resource /\ Options \subseteq Option
  /\ MaxRetries \in Nat

VARIABLES
  made,        \* history: what the runs created
  exists,      \* what AWS still has
  dying,       \* instances that AWS was told to terminate
  tagged,      \* resources that carry the tags of their run
  alive,       \* runs whose coordinator works
  old,         \* runs older than --min-age-hours
  pc,          \* where the command is
  options,     \* its command line
  scanned,     \* services that answered or failed
  broken,      \* did a scan fail?
  found,       \* what the scans returned
  blind,       \* old resources whose tags could not be read
  current,     \* the run whose resources are being deleted
  unawaited,   \* its instances that were terminated and not waited for
  tries,       \* failed attempts on its group
  deleted, failed, skipped,  \* the report
  settled      \* history: runs dead and old when the command began

world == <<made, exists, dying, tagged, alive, old>>
scan == <<scanned, broken, found, blind>>
report == <<deleted, failed, skipped>>
vars == <<world, pc, options, scan, current, unawaited, tries, report, settled>>

Service(r) == IF r.name \in Instances THEN "instance" ELSE r.name
Of(run, S) == {r \in S : r.run = run}
InstancesIn(S) == {r \in S : r.name \in Instances}
RoleOf(r) == [r EXCEPT !.name = "role"]
ProfileOf(r) == [r EXCEPT !.name = "profile"]

\* The order in which initialization creates.
Step(r) ==
  [bucket |-> 1, role |-> 2, profile |-> 3, group |-> 4, instance |-> 5][Service(r)]

GroupsFirst(r) ==   \* mutant
  [instance |-> 1, bucket |-> 2, role |-> 3, profile |-> 4, group |-> 0][Service(r)]

\* The order within a run: by cleanup_priority(), which is stable; the scan
\* lists roles before profiles, which have the same priority.
CleanupOrder(r) ==
  [instance |-> 0, bucket |-> 2, role |-> 3, profile |-> 4, group |-> 5][Service(r)]

\* What has been found and is still to be handled.
Work == found \ (deleted \cup failed \cup skipped)

\* Beyond the types: the report is about what was found, each thing once; what
\* it calls deleted, other than a role, is gone or dying.
TypeOK ==
  /\ made \subseteq Owned /\ exists \subseteq made /\ tagged \subseteq made
  /\ dying \subseteq InstancesIn(exists)
  /\ alive \subseteq Runs /\ old \subseteq Runs /\ settled \subseteq old \ alive
  /\ pc \in {"idle", "scanning", "deleting", "done", "error"}
  /\ options \in Option
  /\ scanned \subseteq Services /\ broken \in BOOLEAN
  /\ found \subseteq made /\ blind \subseteq made
  /\ current \in Runs \cup {"none"}
  /\ unawaited \subseteq InstancesIn(Of(current, deleted))
  /\ tries \in 0 .. MaxRetries
  /\ deleted \cup failed \cup skipped \subseteq found
  /\ {r \in deleted : r.name # "role"} \cap exists \subseteq dying
  /\ deleted \cap failed = {} /\ skipped \cap (deleted \cup failed) = {}

Init ==
  /\ made = {} /\ exists = {} /\ dying = {} /\ tagged = {}
  /\ alive = Runs /\ old = {}
  /\ pc = "idle"
  /\ options = NoOptions
  /\ scanned = {} /\ broken = FALSE /\ found = {} /\ blind = {}
  /\ current = "none" /\ unawaited = {} /\ tries = 0
  /\ deleted = {} /\ failed = {} /\ skipped = {}
  /\ settled = {}

-----------------------------------------------------------------------------
\* Runs, and AWS.

Command == <<pc, options, scan, current, unawaited, tries, report, settled>>

Create(r) ==
  /\ r.run \in alive \ old /\ r \notin made
  /\ \A s \in Of(r.run, Owned) : Step(s) < Step(r) => s \in made
  /\ Of(r.run, made) \subseteq tagged \cap (exists \ dying)
  /\ made' = made \cup {r}
  /\ exists' = exists \cup {r}
  /\ tagged' = IF r.name = "bucket" THEN tagged ELSE tagged \cup {r}
  /\ UNCHANGED <<dying, alive, old, Command>>

TagBucket(r) ==
  /\ r.name = "bucket" /\ r.run \in alive \ old /\ r \in exists \ tagged
  /\ tagged' = tagged \cup {r}
  /\ UNCHANGED <<made, exists, dying, alive, old, Command>>

\* A run that works deletes what it created, in the order of full_cleanup().
RunDeletes(r) ==
  /\ r.run \in alive /\ r \in exists \ dying
  /\ \A s \in Of(r.run, exists \ dying) : CleanupOrder(r) <= CleanupOrder(s)
  /\ IF r.name \in Instances
       THEN dying' = dying \cup {r} /\ UNCHANGED exists
       ELSE /\ r.name = "group" => InstancesIn(Of(r.run, exists)) = {}
            /\ exists' = exists \ {r} /\ UNCHANGED dying
  /\ UNCHANGED <<made, tagged, alive, old, Command>>

\* The coordinator is killed, or ends without having deleted everything.
RunDies(run) ==
  /\ run \in alive
  /\ alive' = alive \ {run}
  /\ UNCHANGED <<made, exists, dying, tagged, old, Command>>

GrowOld(run) ==
  /\ run \notin old
  /\ run \in alive => Of(run, Owned) \subseteq tagged
  /\ old' = old \cup {run}
  /\ UNCHANGED <<made, exists, dying, tagged, alive, Command>>

InstanceGone(r) ==
  /\ r \in dying
  /\ exists' = exists \ {r} /\ dying' = dying \ {r}
  /\ UNCHANGED <<made, tagged, alive, old, Command>>

-----------------------------------------------------------------------------
\* The scan: five queries at the same time, each of which sees AWS when it does.

\* A process starts, or ends, without the data of another one.
Forget ==
  /\ scanned' = {} /\ broken' = FALSE /\ found' = {} /\ blind' = {}
  /\ current' = "none" /\ unawaited' = {} /\ tries' = 0
  /\ deleted' = {} /\ failed' = {} /\ skipped' = {}

Exit == Forget /\ settled' = {} /\ options' = NoOptions /\ UNCHANGED world

\* cleanup() with the options of a new command line.  "nix-bench scan" does the
\* same without --force, and prints what it found instead.
Begin ==
  /\ pc \in {"idle", "done", "error"}
  /\ options' \in Options
  /\ pc' = "scanning"
  /\ Forget /\ settled' = old \ alive
  /\ UNCHANGED world

\* What a query lists: EC2 is asked for the tag and for instances that are not
\* shutting down, IAM and S3 for everything with the prefix.
Listed(service) ==
  {r \in exists \ dying : Service(r) = service /\ (service \in {"instance", "group"} => r \in tagged)}

MatchesYoung(r, unread) ==   \* mutant: a resource without tags is taken at any age
  /\ unread \/ (r \in tagged /\ r.run \in old)
  /\ unread \/ options.force
  /\ options.runId = "any" \/ (~unread /\ options.runId = r.run)

MatchesTagged(r, unread) ==   \* mutant: only what has tags is taken
  /\ ~unread /\ r.run \in old /\ options.force
  /\ options.runId \in {"any", r.run}

\* build_discovered_resource(): is r, whose tags could be read or not, taken?
\* One whose tags could not be read has the status "orphaned" and no run id.
Matches(r, unread) ==
  /\ unread \/ r \in tagged
  /\ r.run \in old
  /\ unread \/ options.force
  /\ options.runId = "any" \/ (~unread /\ options.runId = r.run)

\* What can remain unread: S3 and IAM are asked for the tags of each resource by
\* itself.  A bucket without tags is an error to S3; any other error looks the
\* same.
UnreadSets(service) ==
  IF service \in {"instance", "group"} THEN {{}}
  ELSE {S \in SUBSET Listed(service) : Listed(service) \ tagged \subseteq S}

Scan(service) ==
  /\ pc = "scanning" /\ service \notin scanned
  /\ \E unread \in UnreadSets(service) :
       /\ found' = IF broken THEN {} ELSE found \cup {r \in Listed(service) : Matches(r, r \in unread)}
       /\ blind' = IF broken THEN {} ELSE blind \cup {r \in unread : r.run \in old}
  /\ scanned' = scanned \cup {service}
  /\ UNCHANGED <<world, pc, options, broken, current, unawaited, tries, report, settled>>

ScanFails(service) ==
  /\ pc = "scanning" /\ service \notin scanned
  /\ broken' = TRUE /\ found' = {} /\ blind' = {}
  /\ scanned' = scanned \cup {service}
  /\ UNCHANGED <<world, pc, options, current, unawaited, tries, report, settled>>

\* join! waits for all five; an error of one discards what the others found, and
\* ends the command.
EndScan ==
  /\ pc = "scanning" /\ scanned = Services /\ ~broken
  /\ pc' = "deleting"
  /\ UNCHANGED <<world, options, scan, current, unawaited, tries, report, settled>>

ScanError ==
  /\ pc = "scanning" /\ scanned = Services /\ broken
  /\ pc' = "error"
  /\ Exit

-----------------------------------------------------------------------------
\* The deletions, one run after the other in any order (a HashMap), within a
\* run in CleanupOrder.

Turn(r) ==
  /\ pc = "deleting" /\ r \in Of(current, Work)
  /\ \A s \in Of(current, Work) : CleanupOrder(r) <= CleanupOrder(s)

Deleting == UNCHANGED <<made, tagged, alive, old, pc, options, scan, current, settled>>

NextRun(run) ==
  /\ pc = "deleting" /\ Of(current, Work) = {} /\ Of(run, Work) # {}
  /\ current' = run /\ unawaited' = {} /\ tries' = 0
  /\ UNCHANGED <<world, pc, options, scan, report, settled>>

DryRun(r) ==
  /\ Turn(r) /\ ~options.execute
  /\ skipped' = skipped \cup {r}
  /\ UNCHANGED <<exists, dying, unawaited, tries, deleted, failed>> /\ Deleting

\* A deletion that AWS refused, or whose answer was an error.
Fails(r) ==
  /\ Turn(r) /\ options.execute /\ r.name \notin {"role"}
  /\ r.name = "group" => unawaited = {}
  /\ failed' = failed \cup {r}
  /\ tries' = 0
  /\ UNCHANGED <<exists, dying, unawaited, deleted, skipped>> /\ Deleting

\* terminate_instance(): AWS accepts it for one that is gone already, as long as
\* it remembers it.
Terminate(r) ==
  /\ Turn(r) /\ options.execute /\ r.name \in Instances
  /\ dying' = dying \cup ({r} \cap exists)
  /\ deleted' = deleted \cup {r}
  /\ unawaited' = unawaited \cup {r}
  /\ UNCHANGED <<exists, tries, failed, skipped>> /\ Deleting

DeleteIgnoring(r) ==   \* mutant: swallows errors, as DeleteRole does
  /\ Turn(r) /\ options.execute /\ r.name \in {"bucket", "profile"}
  /\ \E gone \in SUBSET ({r} \cap exists) : exists' = exists \ gone
  /\ deleted' = deleted \cup {r}
  /\ UNCHANGED <<dying, unawaited, tries, failed, skipped>> /\ Deleting

\* delete_bucket() and delete_instance_profile(): what is gone counts as deleted.
Delete(r) ==
  /\ Turn(r) /\ options.execute /\ r.name \in {"bucket", "profile"}
  /\ exists' = exists \ {r}
  /\ deleted' = deleted \cup {r}
  /\ UNCHANGED <<dying, unawaited, tries, failed, skipped>> /\ Deleting

\* delete_benchmark_role(): five calls whose errors are only logged; it takes the
\* instance profile of the same name along.
DeleteRole(r) ==
  /\ Turn(r) /\ options.execute /\ r.name = "role"
  /\ \E gone \in SUBSET ({r, ProfileOf(r)} \cap exists) : exists' = exists \ gone
  /\ deleted' = deleted \cup {r}
  /\ UNCHANGED <<dying, unawaited, tries, failed, skipped>> /\ Deleting

\* wait_for_terminated() for each, whose errors are ignored and which gives up
\* after three looks: the instances may still be there.
AwaitInstances(r) ==
  /\ Turn(r) /\ options.execute /\ r.name = "group" /\ unawaited # {}
  /\ unawaited' = {}
  /\ UNCHANGED <<exists, dying, tries, report>> /\ Deleting

InUse(r) == InstancesIn(Of(r.run, exists)) # {}

DeleteGroup(r) ==
  /\ Turn(r) /\ options.execute /\ r.name = "group" /\ unawaited = {}
  /\ ~InUse(r)
  /\ exists' = exists \ {r}
  /\ deleted' = deleted \cup {r}
  /\ tries' = 0
  /\ UNCHANGED <<dying, unawaited, failed, skipped>> /\ Deleting

\* A dependency violation, or throttling.
RetryGroup(r) ==
  /\ Turn(r) /\ options.execute /\ r.name = "group" /\ unawaited = {}
  /\ tries < MaxRetries
  /\ tries' = tries + 1
  /\ UNCHANGED <<exists, dying, unawaited, report>> /\ Deleting

Reported == pc = "deleting" /\ Work = {}

\* handle_cleanup_orphans() prints the report, and the process ends.
Finish ==
  /\ Reported
  /\ pc' = "done"
  /\ Exit

\* Ctrl-C: the command has no handler for it.
Kill ==
  /\ pc \in {"scanning", "deleting"}
  /\ pc' = "idle"
  /\ Exit

Handle(r) ==
  \/ DryRun(r) \/ Fails(r) \/ Terminate(r) \/ Delete(r) \/ DeleteRole(r)
  \/ AwaitInstances(r) \/ DeleteGroup(r) \/ RetryGroup(r)

CommandStep ==
  \/ \E service \in Services : Scan(service) \/ ScanFails(service)
  \/ EndScan \/ ScanError \/ Finish
  \/ \E run \in Runs : NextRun(run)
  \/ \E r \in Owned : Handle(r)

Next ==
  \/ \E r \in Owned : Create(r) \/ TagBucket(r) \/ RunDeletes(r) \/ InstanceGone(r)
  \/ \E run \in Runs : RunDies(run) \/ GrowOld(run)
  \/ Begin \/ Kill \/ CommandStep

Spec == Init /\ [][Next]_vars

\* r may be taken away: it is of an old run, and either forced as the command
\* line says, or its tags could not be read in an unfiltered command, or it is the
\* profile that goes with such a role.
MayBeDeleted(r) ==
  /\ options.execute /\ r.run \in old
  /\ \/ options.force /\ options.runId \in {"any", r.run}
     \/ options.runId = "any" /\ r \in blind
     \/ options.runId = "any" /\ r.name = "profile" /\ RoleOf(r) \in blind

DeletesOnlyMatched ==
  deleted' # deleted /\ pc' = "deleting" =>
    \A r \in (exists \ dying) \ (exists' \ dying') : MayBeDeleted(r)

\* What the command takes away was asked for by --execute and matched by the rest
\* of its line: it spares a young run whatever the tags say, and what is tagged
\* unless forced.
OnlyMatchedAreDeleted == [][DeletesOnlyMatched]_vars

\* A forced command that reports no failure has collected every run in its scope
\* that was dead and old when it began: what is left of it is dying, or a role,
\* whose errors are not reported, or its tags could not be read and --run-id
\* therefore passed it over.
CleanReportIsClean ==
  Reported /\ options.execute /\ options.force /\ failed = {} =>
    \A r \in exists \ dying :
      \/ r.run \notin settled \/ options.runId \notin {"any", r.run}
      \/ r.name = "role"
      \/ r \in blind /\ options.runId # "any"

GroupComesLast ==
  \A r \in Owned :
    r.name = "group" /\ r.run = current /\ pc = "deleting"
      /\ (tries' > tries \/ r \in (deleted' \cup failed') \ (deleted \cup failed))
    => InstancesIn(Of(r.run, Work)) = {} /\ unawaited = {}

\* When a call for the group of a run is sent, each instance of the run that was
\* found has been asked to terminate, and each that accepted was waited for.
GroupGoesLast == [][GroupComesLast]_vars
=============================================================================
