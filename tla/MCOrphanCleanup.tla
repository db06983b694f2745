--------------------------- MODULE MCOrphanCleanup ---------------------------
(***************************************************************************)
(* OrphanCleanup for TLC: a run with a group that its instance uses, and   *)
(* one with what has no such dependency; the command lines that differ in  *)
(* what they match.                                                        *)
(***************************************************************************)
EXTENDS OrphanCleanup

CONSTANTS r1, r2, i1

MCRuns == {r1, r2}
MCInstances == {i1}
MCOwned ==
  {[run |-> r1, name |-> n] : n \in {"group", i1}}
    \cup {[run |-> r2, name |-> n] : n \in {"bucket", "role", "profile"}}
MCOptions ==
  {[force |-> FALSE, execute |-> TRUE, runId |-> "any"],
   [force |-> TRUE, execute |-> TRUE, runId |-> "any"],
   [force |-> TRUE, execute |-> TRUE, runId |-> r2],
   [force |-> TRUE, execute |-> FALSE, runId |-> "any"]}
=============================================================================
