---------------------------- MODULE AgentStatus -----------------------------
(***************************************************************************)
(* The status that an agent serves (AgentStatus in grpc.rs), as a record,  *)
(* and how one step of an agent that nobody cancels may change it: a       *)
(* terminal status is final, Complete is never seen before the last        *)
(* result, and a server that has started answers until the run is over.    *)
(***************************************************************************)
EXTENDS Naturals

CONSTANT Runs    \* successful runs the configuration asks for (config.runs)

ASSUME RunsAssumption == Runs \in Nat \ {0}

\* StatusCode without PENDING: main() creates the status as Bootstrap.
AgentCode == {"Bootstrap", "Warmup", "Running", "Complete", "Failed"}

TerminalCode == {"Complete", "Failed"}

\* progress is run_progress and results the number of run_results; server is
\* "off" until it listens and "down" once it no longer does.
AgentRecord == [status : AgentCode, progress : 0 .. Runs, results : 0 .. Runs,
                server : {"off", "up", "down"}]

FreshAgent == [status |-> "Bootstrap", progress |-> 0, results |-> 0, server |-> "off"]

-----------------------------------------------------------------------------
When(condition, b) == IF condition THEN {b} ELSE {}

\* run_agent and the benchmark loop move the status and its two counters.
StatusSteps(a) ==
  When(a.status = "Bootstrap", [a EXCEPT !.status = "Warmup"])
    \cup When(a.status = "Warmup", [a EXCEPT !.status = "Running"])
    \cup When(a.status = "Running" /\ a.results = Runs, [a EXCEPT !.status = "Complete"])
    \cup When(a.status \notin TerminalCode, [a EXCEPT !.status = "Failed"])

RunSteps(a) ==
  When(a.status = "Running" /\ a.progress = a.results /\ a.results < Runs,
       [a EXCEPT !.progress = a.results + 1])
    \cup When(a.status = "Running" /\ a.progress = a.results + 1 /\ a.results < Runs,
              [a EXCEPT !.results = a.progress])

\* The server may come up at any point or never; it stops only after the end.
ServerSteps(a) ==
  When(a.server = "off", [a EXCEPT !.server = "up"])
    \cup When(a.server = "off", [a EXCEPT !.server = "down"])
    \cup When(a.server = "up" /\ a.status \in TerminalCode, [a EXCEPT !.server = "down"])

AgentSteps(a) == StatusSteps(a) \cup RunSteps(a) \cup ServerSteps(a)
=============================================================================
