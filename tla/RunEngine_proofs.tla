--------------------------- MODULE RunEngine_proofs ---------------------------
(***************************************************************************)
(* Theorems about RunEngine, for both loops, any number of instances and   *)
(* runs, and any number of polls in flight: what the engine believes,      *)
(* acknowledges and terminates is right however its polls overtake each    *)
(* other.  The inductive invariant compares a report on its way with the   *)
(* agent that has moved on since.  A measure bounds a run that is overdue, *)
(* and the agents that are polled are those of AgentLifecycle.             *)
(***************************************************************************)
EXTENDS RunEngine, FiniteSetTheorems, TLAPS

\* The polls, with what they have collected.
Poll == [open : BOOLEAN, waiting : SUBSET pollable,
         got : UNION {[S -> Report] : S \in SUBSET pollable}]

PollsTyped == polls \in [Polls -> Poll]

\* An agent counts its runs up and is only Complete with all of them.
AgentsCount ==
  \A i \in Instances :
    /\ agent[i].results <= agent[i].progress
    /\ agent[i].status = "Complete" => agent[i].results = Runs

\* A report may be old, but what it says of the end is true, and complete.
ReportsAreTrue ==
  \A p \in Polls : \A i \in DOMAIN polls[p].got :
    LET report == polls[p].got[i] IN
    /\ report.status \in TerminalCode => agent[i].status \in TerminalCode
    /\ report.status = "Complete" => report.results = Runs /\ report.progress = Runs

\* In the TUI only a poll ends an instance that can be polled.
TuiEndsAreAcked ==
  mode = "tui" => \A i \in pollable : IsTerminal(st[i]) => i \in acked

IInv ==
  /\ TypeOK /\ PollsTyped
  /\ AgentsCount /\ ReportsAreTrue /\ TuiEndsAreAcked
  /\ CompleteHasResults /\ OnlyFinishedAreTerminated
  /\ AckedOnce /\ AckedAreTerminated /\ CliWaitsForAll

-----------------------------------------------------------------------------
\* What becomes of an agent: it keeps its type and its counts, and its end.
LEMMA AgentStep ==
  ASSUME NEW a \in AgentRecord, a.results <= a.progress, a.status = "Complete" => a.results = Runs,
         NEW b \in StatusSteps(a) \cup RunSteps(a)
  PROVE  /\ b \in AgentRecord /\ b.results <= b.progress
         /\ b.status = "Complete" => b.results = Runs
         /\ a.status \in TerminalCode => b.status \in TerminalCode
<1> USE RunsAssumption DEF AgentRecord, AgentCode, TerminalCode, When
<1>1. CASE b \in StatusSteps(a)
  BY <1>1 DEF StatusSteps
<1>2. CASE b \in RunSteps(a)
  BY <1>2 DEF RunSteps
<1> QED
  BY <1>1, <1>2

LEMMA NoPollType == NoPoll \in Poll /\ DOMAIN NoPoll.got = {}
<1>1. NoPoll.got \in [{} -> Report]
  BY DEF NoPoll
<1> QED
  BY <1>1 DEF NoPoll, Poll

LEMMA InitInv == Init => IInv
<1> SUFFICES ASSUME Init
             PROVE  IInv
  OBVIOUS
<1> USE RunsAssumption, EngineAssumption DEF Init
<1>1. FreshAgent \in AgentRecord
  BY DEF FreshAgent, AgentRecord, AgentCode
<1>2. PollsTyped
  BY NoPollType DEF PollsTyped
<1>3. TypeOK
  <2>1. agent \in [Instances -> AgentRecord] /\ known \in [Instances -> Known]
    BY <1>1 DEF Known
  <2>2. \A p \in Polls :
          /\ polls[p].open \in BOOLEAN /\ polls[p].waiting \subseteq pollable
          /\ \A i \in DOMAIN polls[p].got : i \in pollable /\ polls[p].got[i] \in Report
    <3>1. \A p \in Polls : polls[p] = NoPoll
      OBVIOUS
    <3>2. NoPoll.open = FALSE /\ NoPoll.waiting = {}
      BY DEF NoPoll
    <3> QED
      BY <3>1, <3>2, NoPollType
  <2>3. pc \in (IF mode = "cli" THEN CliSteps ELSE TuiSteps) \cup {"cleanup", "ended"}
    BY DEF CliSteps, TuiSteps
  <2>4. written \in [Instances -> 0 .. Runs] /\ acksSent \in [Instances -> Nat]
    OBVIOUS
  <2> QED
    BY <2>1, <2>2, <2>3, <2>4 DEF TypeOK, InstanceStatus
<1>4. AgentsCount /\ ReportsAreTrue /\ TuiEndsAreAcked
  BY DEF AgentsCount, ReportsAreTrue, TuiEndsAreAcked, FreshAgent, NoPoll, IsTerminal
<1>5. CompleteHasResults /\ OnlyFinishedAreTerminated /\ AckedOnce /\ AckedAreTerminated
  BY DEF CompleteHasResults, OnlyFinishedAreTerminated, AckedOnce, AckedAreTerminated
<1>6. CliWaitsForAll
  BY DEF CliWaitsForAll
<1> QED
  BY <1>2, <1>3, <1>4, <1>5, <1>6 DEF IInv

\* The world moves; no report on its way becomes untrue.
LEMMA WorldInv == IInv /\ World => IInv'
<1> SUFFICES ASSUME IInv, World
             PROVE  IInv'
  OBVIOUS
<1> USE DEF IInv, Coordinator, engine
<1>1. UNCHANGED <<mode, pollable, st, known, acked, terminated, acksSent, pc, polls, written>>
  BY DEF World, AgentMoves, ConsoleMatches, TimePasses
<1> DEFINE EndsRemain ==
      \A i \in Instances : agent[i].status \in TerminalCode => agent'[i].status \in TerminalCode
<1>2. agent' \in [Instances -> AgentRecord] /\ AgentsCount' /\ EndsRemain
  <2>1. ASSUME NEW i \in Instances, AgentMoves(i)
        PROVE  agent' \in [Instances -> AgentRecord] /\ AgentsCount' /\ EndsRemain
    <3>1. PICK b \in StatusSteps(agent[i]) \cup RunSteps(agent[i]) : agent' = [agent EXCEPT ![i] = b]
      BY <2>1 DEF AgentMoves
    <3>2. /\ b \in AgentRecord /\ b.results <= b.progress
          /\ b.status = "Complete" => b.results = Runs
          /\ agent[i].status \in TerminalCode => b.status \in TerminalCode
      BY AgentStep DEF TypeOK, AgentsCount
    <3> QED
      BY <3>1, <3>2 DEF TypeOK, AgentsCount
  <2>2. CASE UNCHANGED agent
    BY <2>2 DEF TypeOK, AgentsCount
  <2> QED
    BY <2>1, <2>2 DEF World, ConsoleMatches, TimePasses
<1>3. console' \subseteq Instances /\ overdue' \in BOOLEAN
  BY DEF World, AgentMoves, ConsoleMatches, TimePasses, TypeOK
<1>4. TypeOK'
  BY <1>1, <1>2, <1>3 DEF TypeOK
<1>5. PollsTyped' /\ TuiEndsAreAcked'
  BY <1>1 DEF PollsTyped, Poll, TuiEndsAreAcked
<1>6. ReportsAreTrue'
  <2>1. \A p \in Polls : \A i \in DOMAIN polls[p].got : i \in Instances
    BY DEF TypeOK
  <2> QED
    BY <1>1, <1>2, <2>1 DEF ReportsAreTrue
<1>7. (CompleteHasResults /\ AckedOnce /\ AckedAreTerminated /\ CliWaitsForAll)'
  BY <1>1 DEF CompleteHasResults, AckedOnce, AckedAreTerminated, CliWaitsForAll, IsAllComplete
<1>8. OnlyFinishedAreTerminated'
  BY <1>1, <1>2 DEF OnlyFinishedAreTerminated, TypeOK
<1> QED
  BY <1>1, <1>2, <1>4, <1>5, <1>6, <1>7, <1>8

\* Collecting reports changes the polls only.
LEMMA CollectInv ==
  ASSUME IInv, NEW p \in Polls, NEW i \in Instances,
         StartPoll(p) \/ Answer(p, i) \/ NoAnswer(p, i)
  PROVE  IInv'
<1> USE DEF IInv, Others, world, engine
<1>1. /\ UNCHANGED <<agent, console, overdue, mode, pollable, st, known, acked, terminated,
                     acksSent, written>>
      /\ pc' = pc \/ (pc = "poll" /\ pc' = "polling")
  BY DEF StartPoll, Answer, NoAnswer
<1> DEFINE Now(j) == [status |-> agent[j].status, progress |-> agent[j].progress,
                      results |-> agent[j].results]
<1>2. PICK q \in Poll :
        /\ polls' = [polls EXCEPT ![p] = q]
        /\ \A j \in DOMAIN q.got :
             \/ j \in DOMAIN polls[p].got /\ q.got[j] = polls[p].got[j]
             \/ j \in Instances /\ q.got[j] = Now(j)
  <2>1. CASE StartPoll(p)
    <3> DEFINE q == [open |-> TRUE, waiting |-> pollable, got |-> <<>>]
    <3>1. q \in Poll /\ DOMAIN q.got = {}
      <4>1. q.got \in [{} -> Report]
        OBVIOUS
      <4> QED
        BY <4>1 DEF Poll
    <3> QED
      BY <2>1, <3>1 DEF StartPoll
  <2>2. CASE Answer(p, i)
    <3> DEFINE q == [polls[p] EXCEPT !.waiting = @ \ {i}, !.got = Extended(@, i, Now(i))]
    <3>1. polls' = [polls EXCEPT ![p] = q] /\ i \in polls[p].waiting
      BY <2>2 DEF Answer, PollsTyped
    <3>2. Now(i) \in Report
      BY DEF TypeOK, AgentRecord, Report
    <3>3. PICK S \in SUBSET pollable : polls[p].got \in [S -> Report]
      BY DEF PollsTyped, Poll
    <3>4. /\ q.got \in [S \cup {i} -> Report] /\ S \cup {i} \subseteq pollable
          /\ q.got = Extended(polls[p].got, i, Now(i))
      BY <3>1, <3>2, <3>3 DEF Extended, PollsTyped, Poll
    <3>5. q \in Poll
      BY <3>4 DEF PollsTyped, Poll
    <3>6. ASSUME NEW j \in DOMAIN q.got
          PROVE  \/ j \in DOMAIN polls[p].got /\ q.got[j] = polls[p].got[j]
                 \/ j = i /\ q.got[j] = Now(j)
      BY <3>4 DEF Extended
    <3> QED
      BY <3>1, <3>5, <3>6
  <2>3. CASE NoAnswer(p, i)
    <3> DEFINE q == [polls[p] EXCEPT !.waiting = @ \ {i}]
    <3>1. q \in Poll /\ q.got = polls[p].got
      BY DEF PollsTyped, Poll
    <3>2. polls' = [polls EXCEPT ![p] = q]
      BY <2>3 DEF NoAnswer, PollsTyped
    <3> QED
      BY <3>1, <3>2
  <2> QED
    BY <2>1, <2>2, <2>3
<1>3. PollsTyped'
  BY <1>1, <1>2 DEF PollsTyped, Poll
<1>4. TypeOK'
  <2>1. pc' \in (IF mode = "cli" THEN CliSteps ELSE TuiSteps) \cup {"cleanup", "ended"}
    BY <1>1 DEF TypeOK, CliSteps, TuiSteps
  <2>2. \A r \in Polls :
          /\ polls'[r].open \in BOOLEAN /\ polls'[r].waiting \subseteq pollable'
          /\ \A j \in DOMAIN polls'[r].got : j \in pollable' /\ polls'[r].got[j] \in Report
    BY <1>3 DEF PollsTyped, Poll
  <2> QED
    BY <1>1, <2>1, <2>2 DEF TypeOK
<1>5. ReportsAreTrue'
  <2>1. \A j \in Instances : agent[j].status = "Complete" => agent[j].results = Runs /\ agent[j].progress = Runs
    BY RunsAssumption DEF AgentsCount, TypeOK, AgentRecord
  <2> SUFFICES ASSUME NEW r \in Polls, NEW j \in DOMAIN polls'[r].got
               PROVE  /\ polls'[r].got[j].status \in TerminalCode => agent[j].status \in TerminalCode
                      /\ polls'[r].got[j].status = "Complete"
                           => polls'[r].got[j].results = Runs /\ polls'[r].got[j].progress = Runs
    BY <1>1 DEF ReportsAreTrue
  <2>2. CASE r = p
    <3>1. polls'[r] = q
      BY <1>2, <2>2 DEF PollsTyped
    <3>2. CASE j \in DOMAIN polls[p].got /\ q.got[j] = polls[p].got[j]
      BY <3>1, <3>2 DEF ReportsAreTrue
    <3>3. CASE j \in Instances /\ q.got[j] = Now(j)
      BY <2>1, <3>1, <3>3
    <3> QED
      BY <1>2, <3>1, <3>2, <3>3
  <2>3. CASE r # p
    BY <1>2, <2>3 DEF ReportsAreTrue, PollsTyped
  <2> QED
    BY <2>2, <2>3
<1>6. (AgentsCount /\ TuiEndsAreAcked /\ CompleteHasResults /\ OnlyFinishedAreTerminated)'
  BY <1>1 DEF AgentsCount, TuiEndsAreAcked, CompleteHasResults, OnlyFinishedAreTerminated
<1>7. (AckedOnce /\ AckedAreTerminated /\ CliWaitsForAll)'
  BY <1>1 DEF AckedOnce, AckedAreTerminated, CliWaitsForAll, IsAllComplete
<1> QED
  BY <1>3, <1>4, <1>5, <1>6, <1>7

\* apply_poll_results(): what it acts upon is in the reports of one poll.
LEMMA ApplyInv ==
  ASSUME IInv, NEW p \in Polls, Apply(p)
  PROVE  IInv'
<1> DEFINE got == polls[p].got
<1> USE DEF IInv, world
<1>1. /\ UNCHANGED <<agent, console, overdue, mode, pollable, written>>
      /\ polls' = [polls EXCEPT ![p] = NoPoll]
      /\ \/ pc = "polling" /\ pc' = "bootstrap"
         \/ pc \in TuiSteps /\ pc' = pc
  BY DEF Apply
<1>2. /\ st' = [i \in Instances |->
                 IF i \in Updated(got) THEN FromStatusCode(got[i].status) ELSE st[i]]
      /\ known' = UpdatedCounts(got)
      /\ acked' = acked \cup ToAck(got) /\ terminated' = terminated \cup ToTerminate(got)
      /\ acksSent' = [i \in Instances |-> acksSent[i] + (IF i \in ToAck(got) THEN 1 ELSE 0)]
  BY DEF Apply
<1>3. \A i \in DOMAIN got : i \in pollable /\ i \in Instances /\ got[i] \in Report
  BY DEF TypeOK
<1>4. /\ Updated(got) \subseteq DOMAIN got /\ Ended(got) \subseteq Updated(got)
      /\ ToAck(got) = Ended(got) \ acked /\ ToTerminate(got) \subseteq Ended(got) \ terminated
  BY DEF Updated, Ended, ToAck, ToTerminate
<1>5. \A i \in Ended(got) : got[i].status \in TerminalCode /\ agent[i].status \in TerminalCode
  <2>1. \A i \in Ended(got) : got[i].status \in TerminalCode
    BY DEF Ended, FromStatusCode, IsTerminal
  <2> QED
    BY <1>4, <2>1 DEF ReportsAreTrue
<1>6. PollsTyped'
  BY <1>1, NoPollType DEF PollsTyped, Poll
<1>7. TypeOK'
  <2>1. st' \in [Instances -> InstanceStatus]
    BY <1>2 DEF TypeOK, FromStatusCode, InstanceStatus, TerminalCode
  <2>2. known' \in [Instances -> Known]
    BY <1>2, <1>3, <1>4 DEF TypeOK, UpdatedCounts, Known, Report
  <2>3. acked' \subseteq pollable' /\ terminated' \subseteq acked'
    BY <1>1, <1>2, <1>3, <1>4 DEF TypeOK
  <2>4. acksSent' \in [Instances -> Nat]
    BY <1>2 DEF TypeOK
  <2>5. pc' \in (IF mode = "cli" THEN CliSteps ELSE TuiSteps) \cup {"cleanup", "ended"}
    BY <1>1 DEF TypeOK, CliSteps, TuiSteps
  <2>6. \A r \in Polls :
          /\ polls'[r].open \in BOOLEAN /\ polls'[r].waiting \subseteq pollable'
          /\ \A j \in DOMAIN polls'[r].got : j \in pollable' /\ polls'[r].got[j] \in Report
    BY <1>6 DEF PollsTyped, Poll
  <2> QED
    BY <1>1, <2>1, <2>2, <2>3, <2>4, <2>5, <2>6 DEF TypeOK
<1>8. ReportsAreTrue'
  BY <1>1 DEF ReportsAreTrue, PollsTyped, NoPoll
<1>9. CompleteHasResults'
  <2>1. \A i \in Updated(got) : FromStatusCode(got[i].status) = "Complete"
                                 => got[i].results = Runs /\ got[i].progress = Runs
    BY <1>4 DEF ReportsAreTrue, FromStatusCode
  <2> QED
    BY <1>2, <2>1 DEF CompleteHasResults, UpdatedCounts
<1>10. OnlyFinishedAreTerminated'
  BY <1>1, <1>2, <1>4, <1>5 DEF OnlyFinishedAreTerminated
<1>11. AckedOnce'
  BY <1>2, <1>4 DEF AckedOnce, TypeOK
<1>12. TuiEndsAreAcked'
  <2> SUFFICES ASSUME mode = "tui", NEW i \in pollable, IsTerminal(st'[i])
               PROVE  i \in acked'
    BY <1>1 DEF TuiEndsAreAcked
  <2>1. CASE i \in Updated(got)
    <3>1. i \in Ended(got)
      BY <1>2, <2>1 DEF Ended, TypeOK
    <3> QED
      BY <1>2, <1>4, <3>1
  <2>2. CASE i \notin Updated(got)
    BY <1>2, <2>2 DEF TuiEndsAreAcked, TypeOK
  <2> QED
    BY <2>1, <2>2
<1>13. AckedAreTerminated'
  <2> SUFFICES ASSUME mode = "tui", ~Keep
               PROVE  ToAck(got) = ToTerminate(got)
    BY <1>1, <1>2 DEF AckedAreTerminated
  <2>1. \A i \in Ended(got) \ acked : ~IsTerminal(st[i])
    BY <1>3, <1>4 DEF TuiEndsAreAcked
  <2> QED
    BY <2>1 DEF AckedAreTerminated, ToAck, ToTerminate
<1>14. (AgentsCount /\ CliWaitsForAll)'
  BY <1>1 DEF AgentsCount, CliWaitsForAll, TuiSteps
<1> QED
  BY <1>6, <1>7, <1>8, <1>9, <1>10, <1>11, <1>12, <1>13, <1>14

\* The steps of the loops besides their polls.
LEMMA LoopInv == IInv /\ (CliLoop \/ Tick \/ AutoQuit \/ UserQuits) => IInv'
<1> SUFFICES ASSUME IInv, CliLoop \/ Tick \/ AutoQuit \/ UserQuits
             PROVE  IInv'
  OBVIOUS
<1> USE DEF IInv, LoopOnly, Goto, world, engine, CliSteps, TuiSteps
<1>1. /\ UNCHANGED <<agent, console, overdue, mode, pollable, known, acked, terminated, acksSent, polls>>
      /\ written' \in [Instances -> 0 .. Runs]
  <2>1. CASE Cleanup
    BY <2>1, RunsAssumption DEF Cleanup, TypeOK, Known
  <2>2. CASE CheckTimeout \/ CheckBootstrap \/ Decide \/ Tick \/ AutoQuit \/ UserQuits
    BY <2>2 DEF CheckTimeout, CheckBootstrap, Decide, Tick, AutoQuit, UserQuits, TypeOK
  <2> QED
    BY <2>1, <2>2 DEF CliLoop
<1>2. /\ pc' \in (IF mode = "cli" THEN CliSteps ELSE TuiSteps) \cup {"cleanup", "ended"}
      /\ st' = st \/ mode = "cli"
  BY DEF CliLoop, CheckTimeout, CheckBootstrap, Decide, Cleanup, Tick, AutoQuit, UserQuits, TypeOK
<1>3. /\ st' \in [Instances -> InstanceStatus]
      /\ \A i \in Instances : st'[i] = st[i] \/ st'[i] = "Failed"
  BY DEF CliLoop, CheckTimeout, CheckBootstrap, Decide, Cleanup, Tick, AutoQuit, UserQuits, TypeOK,
         InstanceStatus
<1>4. TypeOK'
  BY <1>1, <1>2, <1>3 DEF TypeOK
<1>5. (PollsTyped /\ AgentsCount /\ ReportsAreTrue)'
  BY <1>1 DEF PollsTyped, Poll, AgentsCount, ReportsAreTrue
<1>6. (TuiEndsAreAcked /\ CompleteHasResults /\ OnlyFinishedAreTerminated)'
  BY <1>1, <1>2, <1>3 DEF TuiEndsAreAcked, CompleteHasResults, OnlyFinishedAreTerminated
<1>7. (AckedOnce /\ AckedAreTerminated)'
  BY <1>1 DEF AckedOnce, AckedAreTerminated
<1>8. CliWaitsForAll'
  <2> SUFFICES ASSUME mode = "cli", pc' \in {"cleanup", "ended"}
               PROVE  \A i \in Instances : IsTerminal(st'[i])
    BY <1>1 DEF CliWaitsForAll, IsAllComplete
  <2>1. CASE CheckTimeout
    BY <2>1 DEF CheckTimeout, IsTerminal
  <2>2. CASE CheckBootstrap
    BY <2>2 DEF CheckBootstrap
  <2>3. CASE Decide
    BY <2>3 DEF Decide, IsAllComplete
  <2>4. CASE Cleanup
    BY <2>4 DEF Cleanup, CliWaitsForAll, IsAllComplete
  <2>5. CASE Tick \/ AutoQuit \/ UserQuits
    BY <2>5 DEF Tick, AutoQuit, UserQuits, TypeOK
  <2> QED
    BY <2>1, <2>2, <2>3, <2>4, <2>5 DEF CliLoop
<1> QED
  BY <1>4, <1>5, <1>6, <1>7, <1>8

LEMMA NextInv == IInv /\ [Next]_vars => IInv'
<1> SUFFICES ASSUME IInv, [Next]_vars
             PROVE  IInv'
  OBVIOUS
<1>1. CASE UNCHANGED vars
  BY <1>1
  DEF vars, IInv, TypeOK, PollsTyped, Poll, AgentsCount, ReportsAreTrue, TuiEndsAreAcked,
      CompleteHasResults, OnlyFinishedAreTerminated, AckedOnce, AckedAreTerminated,
      CliWaitsForAll, IsAllComplete
<1>2. CASE CliLoop \/ Tick \/ AutoQuit \/ UserQuits
  BY <1>2, LoopInv
<1>3. CASE World
  BY <1>3, WorldInv
<1>4. CASE Polling
  <2>1. Instances # {}
    BY EngineAssumption
  <2> QED
    BY <1>4, <2>1, CollectInv, ApplyInv DEF Polling
<1> QED
  BY <1>1, <1>2, <1>3, <1>4 DEF Next, Over

-----------------------------------------------------------------------------
\* The inductive invariant holds in every behaviour, fair or not.
THEOREM InductiveInvariant == Spec => []IInv
<1>1. Init => IInv
  BY InitInv
<1>2. IInv /\ [Next]_vars => IInv'
  BY NextInv
<1> QED
  BY <1>1, <1>2, PTL DEF Spec

\* Every variable keeps its type; what is terminated was acknowledged, and only
\* what can be polled is.
THEOREM TypeCorrect == Spec => []TypeOK
<1>1. IInv => TypeOK
  BY DEF IInv
<1> QED
  BY <1>1, InductiveInvariant, PTL

\* apply_poll_results() never shows Complete without the results, whichever polls
\* it was given before.
THEOREM CompleteComesWithResults == Spec => []CompleteHasResults
<1>1. IInv => CompleteHasResults
  BY DEF IInv
<1> QED
  BY <1>1, InductiveInvariant, PTL

\* spawn_terminate() is called for machines whose agent is through, only.
THEOREM WorkIsNotTerminated == Spec => []OnlyFinishedAreTerminated
<1>1. IInv => OnlyFinishedAreTerminated
  BY DEF IInv
<1> QED
  BY <1>1, InductiveInvariant, PTL

\* An end that several polls report is acknowledged once.
THEOREM EndsAreAckedOnce == Spec => []AckedOnce
<1>1. IInv => AckedOnce
  BY DEF IInv
<1> QED
  BY <1>1, InductiveInvariant, PTL

\* In the TUI acknowledgment and termination go together, unless the instances
\* were to be kept; that they are terminated then too is a finding of the runs.
THEOREM EndedAreTerminated == Spec => []AckedAreTerminated
<1>1. IInv => AckedAreTerminated
  BY DEF IInv
<1> QED
  BY <1>1, InductiveInvariant, PTL

\* The loop of the CLI leaves nobody behind.
THEOREM CleanupComesLast == Spec => []CliWaitsForAll
<1>1. IInv => CliWaitsForAll
  BY DEF IInv
<1> QED
  BY <1>1, InductiveInvariant, PTL

\* No step, late polls included, changes what is known of an acknowledged end.
THEOREM AckedStaysFinal == Spec => AckedIsFinal
<1>1. IInv /\ [Next]_vars => KeepsAcked
  <2> SUFFICES ASSUME IInv, [Next]_vars, NEW i \in acked, IsTerminal(st[i])
               PROVE  st'[i] = st[i] /\ known'[i] = known[i]
    BY DEF KeepsAcked
  <2> USE DEF IInv, TypeOK
  <2>1. i \in Instances
    OBVIOUS
  <2>2. CASE \E p \in Polls : Apply(p)
    <3>1. PICK p \in Polls : Apply(p)
      BY <2>2
    <3>2. i \notin Updated(polls[p].got)
      BY DEF Updated, Settled
    <3> QED
      BY <2>1, <3>1, <3>2 DEF Apply, UpdatedCounts
  <2>3. CASE CliLoop
    BY <2>1, <2>3
    DEF CliLoop, CheckTimeout, CheckBootstrap, Decide, Cleanup, LoopOnly, engine
  <2>4. CASE Tick \/ AutoQuit \/ UserQuits
    BY <2>4 DEF Tick, AutoQuit, UserQuits, engine
  <2>5. CASE World
    BY <2>5 DEF World, AgentMoves, ConsoleMatches, TimePasses, Coordinator, engine
  <2>6. ASSUME NEW p \in Polls, NEW j \in Instances, StartPoll(p) \/ Answer(p, j) \/ NoAnswer(p, j)
        PROVE  UNCHANGED <<st, known>>
    BY <2>6 DEF StartPoll, Answer, NoAnswer, Others, engine
  <2>7. CASE UNCHANGED vars
    BY <2>7 DEF vars
  <2>8. Instances # {}
    BY EngineAssumption
  <2> QED
    BY <2>2, <2>3, <2>4, <2>5, <2>6, <2>7, <2>8 DEF Next, Polling, Over
<1> QED
  BY <1>1, InductiveInvariant, PTL DEF Spec, AckedIsFinal
-----------------------------------------------------------------------------
\* The agents of RunEngine and the agent of AgentLifecycle, which AgentRun
\* implements: RunEngine leaves the server out.
Watched(a) == [a EXCEPT !.server = "off"]

LEMMA FreshWatched == Watched(FreshAgent) = FreshAgent
BY DEF Watched, FreshAgent

LEMMA WatchedStep ==
  ASSUME NEW a \in AgentRecord, NEW b \in AgentSteps(a)
  PROVE  Watched(b) = Watched(a) \/ Watched(b) \in StatusSteps(Watched(a)) \cup RunSteps(Watched(a))
<1> USE DEF AgentRecord, AgentCode, TerminalCode, When, Watched
<1>1. CASE b \in StatusSteps(a)
  BY <1>1 DEF StatusSteps
<1>2. CASE b \in RunSteps(a)
  BY RunsAssumption, <1>2 DEF RunSteps
<1>3. CASE b \in ServerSteps(a)
  BY <1>3 DEF ServerSteps
<1> QED
  BY <1>1, <1>2, <1>3 DEF AgentSteps

\* Whatever an agent may do, its server included, is a step of the engine's
\* environment, or nothing that the engine could see: the results about the
\* engine hold with the agents of AgentRun in place of agent[i].
THEOREM EveryAgentIsAllowed ==
  ASSUME NEW i \in pollable, pollable \subseteq Instances, Lasting,
         NEW a \in AgentRecord, agent[i] = Watched(a), agent \in [Instances -> AgentRecord],
         NEW b \in AgentSteps(a), agent' = [agent EXCEPT ![i] = Watched(b)],
         UNCHANGED <<console, overdue, mode, pollable, engine, pc, polls, written>>
  PROVE  [AgentMoves(i)]_vars
<1>1. CASE Watched(b) = Watched(a)
  <2>1. UNCHANGED agent
    BY <1>1
  <2> QED
    BY <2>1 DEF vars, engine
<1>2. CASE Watched(b) \in StatusSteps(agent[i]) \cup RunSteps(agent[i])
  BY <1>2 DEF AgentMoves, Coordinator
<1> QED
  BY <1>1, <1>2, WatchedStep

\* And it allows no more: each agent of a run moves as AgentLifecycle says.
FollowsLifecycle(i) ==
  agent[i] = FreshAgent /\ [][agent'[i] \in AgentSteps(agent[i])]_(agent[i])

THEOREM AgentsFollowLifecycle == Spec => \A i \in Instances : FollowsLifecycle(i)
<1> SUFFICES ASSUME NEW i \in Instances
             PROVE  Spec => FollowsLifecycle(i)
  OBVIOUS
<1>1. Init => agent[i] = FreshAgent
  BY DEF Init
<1>2. IInv /\ [Next]_vars => [agent'[i] \in AgentSteps(agent[i])]_(agent[i])
  <2> SUFFICES ASSUME IInv, [Next]_vars, agent'[i] # agent[i]
               PROVE  agent'[i] \in AgentSteps(agent[i])
    OBVIOUS
  <2>1. PICK j \in Instances : AgentMoves(j)
    BY DEF Next, World, CliLoop, CheckTimeout, CheckBootstrap, Decide, Cleanup, Tick, AutoQuit,
           UserQuits, Polling, StartPoll, Apply, Answer, NoAnswer, ConsoleMatches, TimePasses, Over,
           Others, LoopOnly, world, vars
  <2>2. PICK b \in StatusSteps(agent[j]) \cup RunSteps(agent[j]) : agent' = [agent EXCEPT ![j] = b]
    BY <2>1 DEF AgentMoves
  <2>3. agent'[i] = b /\ i = j
    BY <2>2 DEF IInv, TypeOK
  <2> QED
    BY <2>2, <2>3 DEF AgentSteps
<1> QED
  BY <1>1, <1>2, InductiveInvariant, PTL DEF Spec, FollowsLifecycle
-----------------------------------------------------------------------------
(* What keeps TimeoutEndsRun and TuiMovesOn from hanging, as far as it can  *)
(* be said without fairness.                                                *)

\* The CLI awaits its only poll, and while it does there is one.
CliAwaitsItsPoll ==
  mode = "cli" =>
    /\ \A p \in Polls : polls[p].open \/ polls[p].waiting # {} => p = OnlyPoll /\ pc = "polling"
    /\ pc = "polling" => polls[OnlyPoll].open

\* How many steps of the CLI are left at most when the timeout is over: a last
\* round, if all instances seem to have ended, which may find one running again.
StepsToEnd ==
  CASE pc = "ended" -> 0
    [] pc = "cleanup" -> 1
    [] pc = "timeout" /\ ~IsAllComplete -> 2
    [] pc = "decide" -> 3
    [] pc = "bootstrap" -> 4
    [] pc = "polling" -> 5 + Cardinality(polls[OnlyPoll].waiting)
    [] pc = "poll" -> 6 + Cardinality(pollable)
    [] OTHER -> 7 + Cardinality(pollable)

EndComesNearer ==
  mode = "cli" /\ overdue =>
    /\ CliLoop \/ Polling => StepsToEnd' < StepsToEnd
    /\ World => StepsToEnd' = StepsToEnd

LEMMA OnlyPollIsPoll == OnlyPoll \in Polls
BY EngineAssumption DEF OnlyPoll

LEMMA PollableIsFinite == ASSUME TypeOK PROVE IsFiniteSet(pollable)
BY EngineAssumption, FS_Subset DEF TypeOK

LEMMA CliAwaitsInit == Init => CliAwaitsItsPoll
BY DEF Init, CliAwaitsItsPoll, NoPoll

LEMMA CliAwaitsNext == IInv /\ CliAwaitsItsPoll /\ [Next]_vars => CliAwaitsItsPoll'
<1> SUFFICES ASSUME IInv, CliAwaitsItsPoll, [Next]_vars, mode' = "cli"
             PROVE  /\ \A p \in Polls : polls'[p].open \/ polls'[p].waiting # {}
                                        => p = OnlyPoll /\ pc' = "polling"
                    /\ pc' = "polling" => polls'[OnlyPoll].open
  BY DEF CliAwaitsItsPoll
<1> USE OnlyPollIsPoll DEF IInv, PollsTyped, Poll
<1>1. CASE UNCHANGED <<mode, polls, pc>>
  BY <1>1 DEF CliAwaitsItsPoll
<1>2. CASE CliLoop \/ Tick \/ AutoQuit \/ UserQuits
  <2>1. UNCHANGED <<mode, polls>> /\ pc # "polling" /\ pc' # "polling"
    BY <1>2 DEF CliLoop, CheckTimeout, CheckBootstrap, Decide, Cleanup, Tick, AutoQuit, UserQuits,
                Goto, LoopOnly, TuiSteps
  <2> QED
    BY <2>1 DEF CliAwaitsItsPoll
<1>3. ASSUME NEW p \in Polls, StartPoll(p)
      PROVE  /\ \A q \in Polls : polls'[q].open \/ polls'[q].waiting # {}
                                 => q = OnlyPoll /\ pc' = "polling"
             /\ pc' = "polling" => polls'[OnlyPoll].open
  <2>1. mode = "cli" /\ pc = "poll" /\ p = OnlyPoll /\ pc' = "polling"
    BY <1>3 DEF StartPoll, Others, TypeOK, CliSteps
  <2>2. polls' = [polls EXCEPT ![p] = [open |-> TRUE, waiting |-> pollable, got |-> <<>>]]
    BY <1>3 DEF StartPoll
  <2> QED
    BY <2>1, <2>2 DEF CliAwaitsItsPoll
<1>4. ASSUME NEW p \in Polls, Apply(p)
      PROVE  /\ \A q \in Polls : polls'[q].open \/ polls'[q].waiting # {}
                                 => q = OnlyPoll /\ pc' = "polling"
             /\ pc' = "polling" => polls'[OnlyPoll].open
  <2>1. mode = "cli" /\ polls[p].open /\ polls' = [polls EXCEPT ![p] = NoPoll]
    BY <1>4 DEF Apply
  <2>2. p = OnlyPoll /\ pc = "polling"
    BY <2>1 DEF CliAwaitsItsPoll
  <2>3. pc' = "bootstrap"
    BY <1>4, <2>2 DEF Apply, TuiSteps
  <2>4. \A q \in Polls : ~polls'[q].open /\ polls'[q].waiting = {}
    BY <2>1, <2>2 DEF CliAwaitsItsPoll, NoPoll
  <2> QED
    BY <2>3, <2>4
<1>5. ASSUME NEW p \in Polls, NEW i \in Instances, Answer(p, i) \/ NoAnswer(p, i)
      PROVE  /\ \A q \in Polls : polls'[q].open \/ polls'[q].waiting # {}
                                 => q = OnlyPoll /\ pc' = "polling"
             /\ pc' = "polling" => polls'[OnlyPoll].open
  <2>1. mode = "cli" /\ pc' = pc /\ i \in polls[p].waiting
    BY <1>5 DEF Answer, NoAnswer, Others
  <2>2. p = OnlyPoll /\ pc = "polling" /\ polls[p].open
    BY <2>1 DEF CliAwaitsItsPoll
  <2>3. \A q \in Polls : q # p => polls'[q] = polls[q]
    BY <1>5 DEF Answer, NoAnswer
  <2>4. polls'[p].open = polls[p].open
    BY <1>5 DEF Answer, NoAnswer
  <2> QED
    BY <2>1, <2>2, <2>3, <2>4 DEF CliAwaitsItsPoll
<1>6. CASE World \/ Over \/ UNCHANGED vars
  BY <1>1, <1>6 DEF World, AgentMoves, ConsoleMatches, TimePasses, Coordinator, Over, vars
<1> QED
  BY <1>2, <1>3, <1>4, <1>5, <1>6 DEF Next, Polling

LEMMA StepsToEndType ==
  ASSUME IInv
  PROVE  Cardinality(pollable) \in Nat /\ StepsToEnd \in Nat
<1>1. Cardinality(pollable) \in Nat
  BY PollableIsFinite, FS_CardinalityType DEF IInv
<1>2. IsFiniteSet(polls[OnlyPoll].waiting)
  BY OnlyPollIsPoll, PollableIsFinite, FS_Subset DEF IInv, TypeOK
<1>3. Cardinality(polls[OnlyPoll].waiting) \in Nat
  BY <1>2, FS_CardinalityType
<1> QED
  BY <1>1, <1>3 DEF StepsToEnd

LEMMA LoopComesNearer ==
  ASSUME IInv, overdue, mode = "cli", CliLoop
  PROVE  StepsToEnd' < StepsToEnd
<1> USE DEF Goto, LoopOnly, StepsToEnd
<1>1. Cardinality(pollable) \in Nat
  BY StepsToEndType
<1>2. CASE CheckTimeout
  <2>1. pc = "timeout" /\ pollable' = pollable
    BY <1>2 DEF CheckTimeout
  <2>2. CASE IsAllComplete
    <3>1. pc' = "poll"
      BY <1>2, <2>2 DEF CheckTimeout
    <3>2. StepsToEnd' = 6 + Cardinality(pollable)
      BY <2>1, <3>1
    <3>3. StepsToEnd = 7 + Cardinality(pollable)
      BY <2>1, <2>2
    <3> QED
      BY <1>1, <3>2, <3>3
  <2>3. CASE ~IsAllComplete
    <3>1. pc' = "cleanup"
      BY <1>2, <2>3 DEF CheckTimeout
    <3> QED
      BY <2>1, <2>3, <3>1
  <2> QED
    BY <2>2, <2>3
<1>3. CASE CheckBootstrap
  BY <1>3 DEF CheckBootstrap
<1>4. CASE Decide
  <2>1. pc = "decide" /\ UNCHANGED st
    BY <1>4 DEF Decide, engine
  <2>2. pc' = "cleanup" \/ (pc' = "timeout" /\ ~IsAllComplete')
    <3>1. IsAllComplete' <=> IsAllComplete
      BY <2>1 DEF IsAllComplete
    <3> QED
      BY <1>4, <3>1 DEF Decide
  <2>3. StepsToEnd' \in {1, 2}
    BY <2>2
  <2>4. StepsToEnd = 3
    BY <2>1
  <2> QED
    BY <2>3, <2>4
<1>5. CASE Cleanup
  BY <1>5 DEF Cleanup
<1> QED
  BY <1>2, <1>3, <1>4, <1>5 DEF CliLoop

LEMMA PollComesNearer ==
  ASSUME IInv, CliAwaitsItsPoll, mode = "cli", Polling
  PROVE  StepsToEnd' < StepsToEnd
<1> USE OnlyPollIsPoll
<1>1. Cardinality(pollable) \in Nat
  BY StepsToEndType
<1>2. ASSUME NEW p \in Polls, StartPoll(p)
      PROVE  StepsToEnd' < StepsToEnd
  <2>1. pc = "poll" /\ p = OnlyPoll /\ pc' = "polling"
    BY <1>2 DEF StartPoll, IInv, TypeOK, CliSteps
  <2>2. polls'[OnlyPoll].waiting = pollable
    BY <1>2, <2>1 DEF StartPoll, IInv, PollsTyped
  <2>3. StepsToEnd = 6 + Cardinality(pollable)
    BY <2>1 DEF StepsToEnd
  <2>4. StepsToEnd' = 5 + Cardinality(pollable)
    BY <2>1, <2>2 DEF StepsToEnd
  <2> QED
    BY <1>1, <2>3, <2>4
<1>3. ASSUME NEW p \in Polls, Apply(p)
      PROVE  StepsToEnd' < StepsToEnd
  <2>1. p = OnlyPoll /\ pc = "polling" /\ polls[p].waiting = {}
    BY <1>3 DEF Apply, CliAwaitsItsPoll
  <2>2. pc' = "bootstrap"
    BY <1>3, <2>1 DEF Apply, TuiSteps
  <2>3. StepsToEnd = 5 + Cardinality({})
    BY <2>1 DEF StepsToEnd
  <2>4. StepsToEnd' = 4
    BY <2>2 DEF StepsToEnd
  <2> QED
    BY <2>3, <2>4, FS_EmptySet
<1>4. ASSUME NEW p \in Polls, NEW i \in Instances, Answer(p, i) \/ NoAnswer(p, i)
      PROVE  StepsToEnd' < StepsToEnd
  <2>1. i \in polls[p].waiting /\ pc' = pc
    BY <1>4 DEF Answer, NoAnswer
  <2>2. p = OnlyPoll /\ pc = "polling"
    BY <2>1 DEF CliAwaitsItsPoll
  <2> DEFINE W == polls[OnlyPoll].waiting
  <2>3. polls'[OnlyPoll].waiting = W \ {i}
    BY <1>4, <2>2 DEF Answer, NoAnswer, IInv, PollsTyped, Poll
  <2>4. W \subseteq pollable
    BY DEF IInv, TypeOK
  <2>5. IsFiniteSet(W)
    BY <2>4, PollableIsFinite, FS_Subset DEF IInv
  <2>6. Cardinality(W) \in Nat /\ Cardinality(W \ {i}) = Cardinality(W) - 1
    BY <2>1, <2>2, <2>5, FS_RemoveElement, FS_CardinalityType
  <2>7. StepsToEnd = 5 + Cardinality(W)
    BY <2>2 DEF StepsToEnd
  <2>8. StepsToEnd' = 5 + Cardinality(W \ {i})
    BY <2>1, <2>2, <2>3 DEF StepsToEnd
  <2> QED
    BY <2>6, <2>7, <2>8
<1> QED
  BY <1>2, <1>3, <1>4 DEF Polling

\* Once the timeout is over, the CLI takes at most |pollable| + 7 steps more to
\* the end of the run, whatever agents, consoles and the network do meanwhile;
\* and while it polls there is a poll whose end it can act upon.
THEOREM OverdueRunIsBounded ==
  Spec => /\ [](StepsToEnd \in Nat) /\ []CliAwaitsItsPoll
          /\ [][EndComesNearer]_vars
<1>1. Spec => []CliAwaitsItsPoll
  BY CliAwaitsInit, CliAwaitsNext, InductiveInvariant, PTL DEF Spec
<1>2. IInv => StepsToEnd \in Nat
  BY StepsToEndType
<1>3. IInv /\ CliAwaitsItsPoll /\ [Next]_vars => [EndComesNearer]_vars
  <2>1. World => StepsToEnd' = StepsToEnd
    <3> SUFFICES ASSUME World
                 PROVE  StepsToEnd' = StepsToEnd
      OBVIOUS
    <3>1. UNCHANGED <<pc, polls, pollable, st>>
      BY DEF World, AgentMoves, ConsoleMatches, TimePasses, Coordinator, engine
    <3> QED
      BY <3>1 DEF StepsToEnd, IsAllComplete
  <2> QED
    BY <2>1, LoopComesNearer, PollComesNearer DEF EndComesNearer
<1> QED
  BY <1>1, <1>2, <1>3, InductiveInvariant, PTL DEF Spec

\* The test of Tick that all results are captured never fails when all instances
\* have ended: is_all_complete() alone decides when the TUI goes on, although an
\* acknowledged instance is never updated again.
THEOREM CapturedWhenComplete == Spec => [](IsAllComplete => AllResultsCaptured)
<1>1. IInv => (IsAllComplete => AllResultsCaptured)
  <2> SUFFICES ASSUME IInv, IsAllComplete, NEW i \in Instances, st[i] # "Failed"
               PROVE  st[i] = "Complete" /\ known[i].results >= known[i].progress
    BY DEF AllResultsCaptured
  <2>1. st[i] = "Complete"
    BY DEF IsAllComplete, IsTerminal
  <2>2. known[i].results = Runs /\ known[i].progress = Runs
    BY <2>1 DEF IInv, CompleteHasResults
  <2> QED
    BY <2>1, <2>2, RunsAssumption
<1> QED
  BY <1>1, InductiveInvariant, PTL
=============================================================================
