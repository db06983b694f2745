------------------------- MODULE ResourceOwnership -------------------------
(***************************************************************************)
(* Who is responsible for the resources that a run has created: what       *)
(* ResourceGuard, the CleanupExecutor and the RunEngine promise together,  *)
(* without their channel, timer, shutdown and the order of creation.       *)
(*                                                                         *)
(* Initialization holds all of them; then either all are dropped, which    *)
(* leaves them to the executor, or all are committed, which leaves them to *)
(* the engine: never some to each, and never one to both.  A security      *)
(* group is deleted after the instances that its owner has.  Provisioning  *)
(* implements it.                                                          *)
(***************************************************************************)
CONSTANTS
  Resources,   \* what a run may create, its group being called "group"
  Instances    \* those of them that are instances

VARIABLES
  held,        \* resources with a guard
  dropped,     \* resources left to the executor that it has not tried to delete
  owned,       \* resources left to the engine
  tried        \* resources whose deletion was asked of AWS

ownership == <<held, dropped, owned, tried>>

OwnershipInit == held = {} /\ dropped = {} /\ owned = {} /\ tried = {}

Initializing == dropped = {} /\ owned = {} /\ tried = {}

Acquire(r) ==
  /\ Initializing
  /\ held' = held \cup {r}
  /\ UNCHANGED <<dropped, owned, tried>>

CommitAll ==
  /\ Initializing
  /\ owned' = held /\ held' = {}
  /\ UNCHANGED <<dropped, tried>>

DropAll ==
  /\ Initializing
  /\ dropped' = held /\ held' = {}
  /\ UNCHANGED <<owned, tried>>

\* The user quits while the engine is on its way to the loop.
Abandon ==
  /\ tried = {}
  /\ owned' = {}
  /\ UNCHANGED <<held, dropped, tried>>

ExecutorDeletes(r) ==
  /\ r \in dropped
  /\ r = "group" => dropped \cap Instances = {}
  /\ dropped' = dropped \ {r} /\ tried' = tried \cup {r}
  /\ UNCHANGED <<held, owned>>

\* The engine keeps what it has asked to delete: it may ask again.
EngineDeletes(S) ==
  /\ S \subseteq owned
  /\ "group" \in S => owned \cap Instances \subseteq tried
  /\ tried' = tried \cup S
  /\ UNCHANGED <<held, dropped, owned>>

OwnershipNext ==
  \/ \E r \in Resources : Acquire(r) \/ ExecutorDeletes(r)
  \/ CommitAll \/ DropAll \/ Abandon
  \/ \E S \in SUBSET owned : EngineDeletes(S)

OwnershipSpec == OwnershipInit /\ [][OwnershipNext]_ownership

-----------------------------------------------------------------------------
\* Only one of guards, executor and engine has anything, and what the executor
\* has tried to delete it does not try again: no bucket is deleted under an
\* engine that uses it, and nothing is deleted by two.
OneOwner ==
  /\ held # {} => Initializing
  /\ dropped = {} \/ owned = {}
  /\ dropped \cap tried = {}

\* When somebody has asked to delete the group no owner has an instance left
\* that it has not asked to terminate.
GroupIsLast ==
  "group" \in tried => (held \cup dropped \cup owned) \cap Instances \subseteq tried
=============================================================================
