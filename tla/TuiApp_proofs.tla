---------------------------- MODULE TuiApp_proofs ----------------------------
(***************************************************************************)
(* Theorems about TuiApp, for every number of instances, phases and        *)
(* lines and every size of the channel and the buffers: what becomes of    *)
(* the engine, what the list shows, what the consoles show, and that the   *)
(* way out stays open.  The inductive invariant says who can have the      *)
(* engine, by the progress of the initialization task and by the messages  *)
(* on their way.                                                           *)
(***************************************************************************)
EXTENDS TuiApp, FiniteSetTheorems, TLAPS

\* The types of what the engine's way depends on.
FlowTypes ==
  /\ pc \in {"loop", "aborting", "awaiting", "cleanup", "ended"}
  /\ phase \in Phase /\ init \in 0 .. Aborted
  /\ channel \in Seq(Message)
  /\ engine \in {"none", "task", "channel", "app", "cleanup", "cleaned", "lost"}
  /\ sent \in [Instances -> 0 .. Lines]

\* Initialization makes the engine and sends it.
EngineFollowsInit ==
  /\ init \in 0 .. InitPhases \cup {InitError} => engine = "none"
  /\ init = Sending => engine = "task"
  /\ init = Sent => engine \in {"channel", "app", "cleanup", "cleaned", "lost"}
  /\ init = Aborted => pc = "ended"

\* A phase on its way is one of initialization, or tells its failure.
PhaseExplained(p) == p \in 0 .. InitPhases \/ (p = Failed /\ init = InitError)

\* There is one engine, and only the engine itself is sent as such.
MessagesExplained ==
  /\ \A k \in DOMAIN channel :
       /\ channel[k].kind = "engine" => engine = "channel"
       /\ channel[k].kind = "phase" => PhaseExplained(channel[k].phase)
  /\ \A k, l \in DOMAIN channel :
       channel[k].kind = "engine" /\ channel[l].kind = "engine" => k = l

\* The loop takes the run for running only when it has the engine.
PhaseFollowsEngine ==
  /\ phase = Failed => init = InitError
  /\ engine \in {"task", "channel"} => phase \in 0 .. InitPhases
  /\ pc \in {"loop", "awaiting", "aborting"} /\ phase \in {Running, Completed} => engine = "app"

\* Who leaves the loop, and with what.
LeavingExplained ==
  /\ pc = "aborting" => cancelled
  /\ pc = "awaiting" => broken \/ engine = "app"
  /\ pc = "cleanup" <=> engine = "cleanup"
  /\ engine \in {"cleaned", "lost"} => pc = "ended"
  /\ pc = "ended" => engine \in {"none", "cleaned", "lost"}
  /\ engine = "lost" => broken \/ (cancelled /\ phase < Running)

IInv ==
  /\ FlowTypes
  /\ EngineFollowsInit /\ MessagesExplained /\ PhaseFollowsEngine /\ LeavingExplained
-----------------------------------------------------------------------------
\* What can be sent, and its kind.
LEMMA MessageKinds ==
  /\ \A p \in Phase : PhaseMsg(p) \in Message /\ PhaseMsg(p).kind = "phase" /\ PhaseMsg(p).phase = p
  /\ \A i \in Instances : UpdateMsg(i) \in Message /\ UpdateMsg(i).kind = "update"
  /\ \A i \in Instances : NoteMsg(i) \in Message /\ NoteMsg(i).kind = "note"
  /\ \A i \in Instances, n \in 1 .. Lines : LineMsg(i, n) \in Message /\ LineMsg(i, n).kind = "line"
  /\ EngineMsg \in Message /\ EngineMsg.kind = "engine"
<1>1. \A p \in Phase : PhaseMsg(p) \in Message /\ PhaseMsg(p).kind = "phase" /\ PhaseMsg(p).phase = p
  BY DEF Message, PhaseMsg
<1>2. \A i \in Instances : UpdateMsg(i) \in Message /\ UpdateMsg(i).kind = "update"
  BY DEF Message, UpdateMsg
<1>3. \A i \in Instances : NoteMsg(i) \in Message /\ NoteMsg(i).kind = "note"
  BY DEF Message, NoteMsg
<1>4. \A i \in Instances, n \in 1 .. Lines : LineMsg(i, n) \in Message /\ LineMsg(i, n).kind = "line"
  BY DEF Message, LineMsg
<1>5. EngineMsg \in Message /\ EngineMsg.kind = "engine"
  BY DEF Message, EngineMsg
<1> QED
  BY <1>1, <1>2, <1>3, <1>4, <1>5

\* A message is appended that the invariant explains.
LEMMA AppendExplained ==
  ASSUME MessagesExplained, channel \in Seq(Message), NEW m \in Message,
         channel' = Append(channel, m), init = InitError => init' = InitError,
         m.kind # "engine" => UNCHANGED engine,
         m.kind = "engine" => engine # "channel" /\ engine' = "channel",
         m.kind = "phase" => PhaseExplained(m.phase)'
  PROVE  channel' \in Seq(Message) /\ MessagesExplained'
<1>1. /\ channel' \in Seq(Message) /\ DOMAIN channel' = 1 .. Len(channel) + 1
      /\ channel'[Len(channel) + 1] = m
      /\ \A k \in DOMAIN channel : channel'[k] = channel[k]
      /\ DOMAIN channel = 1 .. Len(channel) /\ Len(channel) \in Nat
  OBVIOUS
<1>2. \A k \in DOMAIN channel' : k \in DOMAIN channel \/ k = Len(channel) + 1
  BY <1>1
<1> QED
  BY <1>1, <1>2 DEF MessagesExplained, PhaseExplained

\* A report is appended, or lost because the channel is full.
LEMMA ReportExplained ==
  ASSUME IInv, NEW m \in Message, Report(m), m.kind # "engine", UNCHANGED engine,
         init = InitError => init' = InitError,
         m.kind = "phase" => PhaseExplained(m.phase)'
  PROVE  channel' \in Seq(Message) /\ MessagesExplained'
<1> USE DEF IInv, FlowTypes
<1>1. CASE channel' = channel
  BY <1>1 DEF MessagesExplained, PhaseExplained
<1>2. CASE channel' = Append(channel, m)
  BY <1>2, AppendExplained
<1> QED
  BY <1>1, <1>2 DEF Report

\* What is taken from the channel was explained, and the rest still is.
LEMMA TailExplained ==
  ASSUME IInv, channel # <<>>, channel' = Tail(channel), UNCHANGED init,
         engine' = engine \/ Head(channel).kind = "engine"
  PROVE  /\ channel' \in Seq(Message) /\ MessagesExplained'
         /\ Head(channel) \in Message
         /\ Head(channel).kind = "engine" => engine = "channel"
         /\ Head(channel).kind = "phase" => PhaseExplained(Head(channel).phase)
<1> USE DEF IInv, FlowTypes
<1>1. /\ Head(channel) = channel[1] /\ 1 \in DOMAIN channel /\ Head(channel) \in Message
      /\ channel' \in Seq(Message)
      /\ \A k \in DOMAIN channel' : k + 1 \in DOMAIN channel /\ channel'[k] = channel[k + 1] /\ k + 1 # 1
  OBVIOUS
<1>2. MessagesExplained'
  BY <1>1 DEF MessagesExplained, PhaseExplained
<1> QED
  BY <1>1, <1>2 DEF MessagesExplained

LEMMA InitInv == Init => IInv
BY TuiAssumption
DEF Init, IInv, FlowTypes, EngineFollowsInit, MessagesExplained, PhaseFollowsEngine, LeavingExplained,
    Phase, Failed, Aborted, InitError, Sending, Sent, Running, Completed

LEMMA NextInv == IInv /\ [Next]_vars => IInv'
<1> SUFFICES ASSUME IInv, [Next]_vars
             PROVE  IInv'
  OBVIOUS
<1> USE TuiAssumption
<1> USE DEF IInv, FlowTypes, EngineFollowsInit, PhaseFollowsEngine, LeavingExplained, Phase, Failed,
            Aborted, InitError, Sending, Sent, Running, Completed, InLoop, Loop, InitStep, Initializing
<1>0. InitPhases \in Nat \ {0}
  OBVIOUS
<1>1. CASE NextPhase
  <2>1. init + 1 \in Phase /\ init + 1 \in 0 .. InitPhases /\ init # InitError
    BY <1>1, <1>0 DEF NextPhase
  <2>2. channel' \in Seq(Message) /\ MessagesExplained'
    <3>1. Report(PhaseMsg(init + 1)) /\ UNCHANGED engine
      BY <1>1 DEF NextPhase
    <3> QED
      BY <2>1, <3>1, MessageKinds, ReportExplained DEF PhaseExplained
  <2> QED
    BY <1>1, <2>1, <2>2 DEF NextPhase
<1>2. ASSUME NEW i \in Instances, ReportInstance(i)
      PROVE  IInv'
  <2>1. channel' \in Seq(Message) /\ MessagesExplained'
    BY <1>2, MessageKinds, ReportExplained DEF ReportInstance
  <2> QED
    BY <1>2, <2>1 DEF ReportInstance
<1>3. CASE InitFails
  <2>1. Failed \in Phase /\ PhaseExplained(Failed)'
    BY <1>3 DEF InitFails, PhaseExplained
  <2>2. channel' \in Seq(Message) /\ MessagesExplained'
    <3>1. CASE UNCHANGED channel
      BY <1>3, <3>1 DEF InitFails, MessagesExplained, PhaseExplained
    <3>2. CASE Report(PhaseMsg(Failed))
      BY <1>3, <3>2, <2>1, MessageKinds, ReportExplained DEF InitFails
    <3> QED
      BY <1>3, <3>1, <3>2 DEF InitFails
  <2> QED
    BY <1>3, <2>2 DEF InitFails
<1>4. CASE InitSucceeds
  <2>1. MessagesExplained'
    BY <1>4 DEF InitSucceeds, MessagesExplained, PhaseExplained
  <2>2. /\ pc # "ended" /\ init = InitPhases /\ init' = Sending /\ engine' = "task" /\ engine = "none"
        /\ UNCHANGED <<pc, phase, cancelled, broken, channel, sent>>
    BY <1>4 DEF InitSucceeds
  <2>3. pc \notin {"cleanup", "ended"} /\ (pc = "awaiting" => broken)
    BY <2>2
  <2>4. phase \in 0 .. InitPhases \/ phase = Failed
    BY <2>2, <2>3
  <2> QED
    BY <2>1, <2>2, <2>3, <2>4
<1>5. CASE SendEngine
  <2>1. channel' \in Seq(Message) /\ MessagesExplained'
    BY <1>5, MessageKinds, AppendExplained DEF SendEngine
  <2> QED
    BY <1>5, <2>1 DEF SendEngine
<1>6. ASSUME NEW i \in Instances, SendLine(i)
      PROVE  IInv'
  <2>1. sent[i] + 1 \in 1 .. Lines
    BY <1>6, SMTT(30) DEF SendLine
  <2>2. channel' \in Seq(Message) /\ MessagesExplained'
    BY <1>6, <2>1, MessageKinds, AppendExplained DEF SendLine
  <2> QED
    BY <1>6, <2>2, SMTT(30) DEF SendLine
<1>7. CASE Receive
  <2>1. /\ channel' \in Seq(Message) /\ MessagesExplained'
        /\ Head(channel).kind = "engine" => engine = "channel"
        /\ Head(channel).kind = "phase" => PhaseExplained(Head(channel).phase)
    BY <1>7, TailExplained DEF Receive
  <2>2. CASE Head(channel).kind = "engine"
    <3>1. engine = "channel" /\ engine' = "app" /\ phase' = Running
      BY <1>7, <2>1, <2>2 DEF Receive
    <3> QED
      BY <1>7, <2>1, <3>1, SMTT(30) DEF Receive
  <2>3. CASE Head(channel).kind = "phase"
    <3>1. engine' = engine /\ phase' = Head(channel).phase /\ PhaseExplained(phase')
      BY <1>7, <2>1, <2>3 DEF Receive
    <3> QED
      BY <1>7, <2>1, <3>1, SMTT(30) DEF Receive, PhaseExplained
  <2>4. CASE Head(channel).kind \notin {"engine", "phase"}
    <3>1. engine' = engine /\ phase' = phase
      BY <1>7, <2>4 DEF Receive
    <3> QED
      BY <1>7, <2>1, <3>1 DEF Receive
  <2> QED
    BY <2>2, <2>3, <2>4
<1>8. ASSUME NEW i \in Instances, PollAnswer(i)
      PROVE  IInv'
  BY <1>8 DEF PollAnswer, MessagesExplained, PhaseExplained
<1>9. CASE Completes
  BY <1>9 DEF Completes, MessagesExplained, PhaseExplained
<1>10. ASSUME NEW key \in Keys, Key(key)
       PROVE  IInv'
  BY <1>10 DEF Key, MessagesExplained, PhaseExplained
<1>11. CASE Click
  BY <1>11 DEF Click, MessagesExplained, PhaseExplained
<1>12. CASE Signal
  BY <1>12 DEF Signal, MessagesExplained, PhaseExplained
<1>13. CASE Quit
  BY <1>13 DEF Quit, ShouldQuit, MessagesExplained, PhaseExplained
<1>14. CASE DrawFails
  <2>1. broken' /\ UNCHANGED <<phase, cancelled, init, sent>>
    BY <1>14 DEF DrawFails
  <2>2. CASE pc = "loop"
    <3>1. (pc' = IF cancelled THEN "aborting" ELSE "awaiting") /\ UNCHANGED <<engine, channel>>
      BY <1>14, <2>2 DEF DrawFails
    <3>2. MessagesExplained'
      BY <2>1, <3>1 DEF MessagesExplained, PhaseExplained
    <3> QED
      BY <2>1, <2>2, <3>1, <3>2
  <2>3. CASE pc = "cleanup"
    <3>1. pc' = "ended" /\ engine' = "lost" /\ channel' = <<>>
      BY <1>14, <2>3 DEF DrawFails
    <3>2. MessagesExplained'
      BY <3>1 DEF MessagesExplained
    <3> QED
      BY <2>1, <2>3, <3>1, <3>2
  <2> QED
    BY <1>14, <2>2, <2>3 DEF DrawFails
<1>15. CASE AbortInit
  <2>1. /\ pc = "aborting" /\ cancelled
        /\ init' = IF init \in {Sent, InitError} THEN init ELSE Aborted
        /\ UNCHANGED <<phase, cancelled, broken, sent>>
    BY <1>15 DEF AbortInit, TakeEngine
  <2>2. CASE engine = "app"
    <3>1. pc' = "cleanup" /\ engine' = "cleanup" /\ UNCHANGED channel /\ init = Sent
      BY <1>15, <2>2, SMTT(30) DEF AbortInit, TakeEngine, HoldsEngine
    <3>2. MessagesExplained'
      BY <2>1, <2>2, <3>1 DEF MessagesExplained, PhaseExplained
    <3> QED
      BY <2>1, <2>2, <3>1, <3>2
  <2>3. CASE engine # "app"
    <3>1. /\ pc' = "ended" /\ channel' = <<>>
          /\ engine' = IF engine \in {"task", "channel"} THEN "lost" ELSE engine
      BY <1>15, <2>3 DEF AbortInit, TakeEngine, HoldsEngine
    <3>2. MessagesExplained'
      BY <3>1 DEF MessagesExplained
    <3>3. engine' \in {"none", "lost"}
      BY <2>1, <2>3, <3>1
    <3>4. engine' = "lost" => phase < Running
      BY <2>1, <2>3, <3>1
    <3> QED
      BY <2>1, <2>3, <3>1, <3>2, <3>3, <3>4
  <2> QED
    BY <2>2, <2>3
<1>16. CASE AwaitInit
  BY <1>16 DEF AwaitInit, TakeEngine, HoldsEngine, MessagesExplained, PhaseExplained
<1>17. ASSUME NEW key \in Keys, CleanupKey(key)
       PROVE  IInv'
  BY <1>17 DEF CleanupKey, MessagesExplained, PhaseExplained
<1>18. CASE CleanupReceive
  <2>1. /\ channel' \in Seq(Message) /\ MessagesExplained'
        /\ Head(channel).kind = "phase" => PhaseExplained(Head(channel).phase)
    BY <1>18, TailExplained DEF CleanupReceive
  <2>2. phase' \in Phase /\ (phase' = Failed => init = InitError)
    BY <1>18, <2>1 DEF CleanupReceive, PhaseExplained
  <2> QED
    BY <1>18, <2>1, <2>2 DEF CleanupReceive
<1>19. CASE CleanupEnds
  BY <1>19 DEF CleanupEnds, MessagesExplained, PhaseExplained
<1>20. CASE UNCHANGED vars
  BY <1>20 DEF vars, MessagesExplained, PhaseExplained
<1> QED
  BY <1>1, <1>2, <1>3, <1>4, <1>5, <1>6, <1>7, <1>8, <1>9, <1>10, <1>11, <1>12, <1>13, <1>14,
     <1>15, <1>16, <1>17, <1>18, <1>19, <1>20
  DEF Next

-----------------------------------------------------------------------------
\* The inductive invariant holds in every behaviour, fair or not.
THEOREM InductiveInvariant == Spec => []IInv
<1>1. Init => IInv
  BY InitInv
<1>2. IInv /\ [Next]_vars => IInv'
  BY NextInv
<1> QED
  BY <1>1, <1>2, PTL DEF Spec

\* run_benchmarks_with_tui() ends with the engine cleaned up, or without there
\* having been one to take, unless the terminal failed or the user had quit
\* before the loop received it.
THEOREM EngineIsAccountedFor == Spec => []NoEngineIsForgotten
<1>1. IInv => NoEngineIsForgotten
  BY DEF IInv, LeavingExplained, NoEngineIsForgotten
<1> QED
  BY <1>1, InductiveInvariant, PTL

-----------------------------------------------------------------------------
\* The list of instances.

\* An order shows every instance somewhere.
LEMMA PositionShown ==
  ASSUME NEW s, IsOrder(s), NEW i \in Instances
  PROVE  Position(s, i) \in Instances /\ s[Position(s, i)] = i
BY DEF IsOrder, Position

\* The comparison of Sorted(): by the averages, then by the order so far.
Beats(j, i, s, a) ==
  \/ Precedes(j, i, a)
  \/ ~Precedes(i, j, a) /\ Position(s, j) < Position(s, i)

\* It is a strict total order, whatever the averages and the order so far.
LEMMA BeatsIsTotal ==
  ASSUME NEW s, IsOrder(s), NEW a \in [Instances -> Nat]
  PROVE  /\ \A i \in Instances : ~Beats(i, i, s, a)
         /\ \A i, j \in Instances : i # j => Beats(i, j, s, a) \/ Beats(j, i, s, a)
         /\ \A i, j, k \in Instances :
              Beats(i, j, s, a) /\ Beats(j, k, s, a) => Beats(i, k, s, a)
<1>1. PICK p : p = [i \in Instances |-> Position(s, i)]
  OBVIOUS
<1>2. \A i \in Instances : p[i] \in Nat /\ i \in Nat /\ a[i] \in Nat
  BY <1>1, PositionShown, ViewAssumption DEF Instances
<1>3. \A i, j \in Instances : p[i] = p[j] => i = j
  BY <1>1, PositionShown
<1>4. \A i, j \in Instances : Beats(i, j, s, a) <=> \/ Precedes(i, j, a)
                                                    \/ ~Precedes(j, i, a) /\ p[i] < p[j]
  BY <1>1 DEF Beats
<1>5. ASSUME NEW i \in Instances PROVE ~Beats(i, i, s, a)
  BY <1>2, <1>4 DEF Precedes, None
<1>6. ASSUME NEW i \in Instances, NEW j \in Instances, i # j
      PROVE  Beats(i, j, s, a) \/ Beats(j, i, s, a)
  <2>1. p[i] < p[j] \/ p[j] < p[i]
    BY <1>2, <1>3, <1>6
  <2> QED
    BY <1>2, <1>4, <2>1
<1>7. ASSUME NEW i \in Instances, NEW j \in Instances, NEW k \in Instances,
             Beats(i, j, s, a), Beats(j, k, s, a)
      PROVE  Beats(i, k, s, a)
  BY <1>2, <1>3, <1>4, <1>7 DEF Precedes, None
<1> QED
  BY <1>5, <1>6, <1>7

\* Sorting shows every instance once again, each before those it beats.
LEMMA SortedIsOrder ==
  ASSUME NEW s, IsOrder(s), NEW a \in [Instances -> Nat]
  PROVE  /\ IsOrder(Sorted(s, a))
         /\ \A k, l \in Instances : k < l => Beats(Sorted(s, a)[k], Sorted(s, a)[l], s, a)
<1>1. IsFiniteSet(Instances) /\ Cardinality(Instances) = N /\ N \in Nat /\ Instances = 1 .. N
  BY FS_Interval, ViewAssumption DEF Instances
<1>2. PICK before : before = [i \in Instances |-> {j \in Instances : Beats(j, i, s, a)}]
  OBVIOUS
<1>3. PICK rank : rank = [i \in Instances |-> Cardinality(before[i]) + 1]
  OBVIOUS
<1>4. ASSUME NEW i \in Instances
      PROVE  /\ IsFiniteSet(before[i]) /\ Cardinality(before[i]) \in Nat
             /\ Cardinality(before[i]) < N
             /\ rank[i] = Cardinality(before[i]) + 1 /\ rank[i] \in Instances /\ rank[i] \in Nat
  <2>1. before[i] \in SUBSET Instances /\ i \notin before[i]
    BY <1>2, BeatsIsTotal
  <2>2. /\ IsFiniteSet(before[i]) /\ Cardinality(before[i]) <= N
        /\ N = Cardinality(before[i]) => Instances = before[i]
    BY <1>1, <2>1, FS_Subset
  <2>3. Cardinality(before[i]) \in Nat
    BY <2>2, FS_CardinalityType
  <2>4. Cardinality(before[i]) < N
    BY <1>1, <2>1, <2>2, <2>3
  <2> QED
    BY <1>1, <1>3, <2>2, <2>3, <2>4
<1>5. ASSUME NEW i \in Instances, NEW j \in Instances, Beats(j, i, s, a)
      PROVE  rank[j] < rank[i]
  <2>1. before[j] \in SUBSET before[i] /\ j \in before[i] /\ j \notin before[j]
    BY <1>2, <1>5, BeatsIsTotal
  <2>2. /\ Cardinality(before[j]) <= Cardinality(before[i])
        /\ Cardinality(before[j]) # Cardinality(before[i])
    BY <1>4, <2>1, FS_Subset
  <2> QED
    BY <1>4, <2>2
<1>6. ASSUME NEW i \in Instances, NEW j \in Instances, rank[i] = rank[j]
      PROVE  i = j
  <2>1. rank[i] \in Nat /\ rank[j] \in Nat
    BY <1>4
  <2>2. ~Beats(i, j, s, a) /\ ~Beats(j, i, s, a)
    BY <1>5, <1>6, <2>1
  <2> QED
    BY <2>2, BeatsIsTotal
<1>7. rank \in Injection(Instances, Instances)
  BY <1>3, <1>4, <1>6 DEF Injection, IsInjective
<1>8. rank \in Surjection(Instances, Instances)
  BY <1>1, <1>7, FS_Injection
<1>9. \A k \in Instances : \E i \in Instances : rank[i] = k
  BY <1>8 DEF Surjection
<1>10. Sorted(s, a) = [k \in Instances |-> CHOOSE i \in Instances : Cardinality(before[i]) = k - 1]
  <2>1. ASSUME NEW k \in Instances
        PROVE  (CHOOSE i \in Instances : Cardinality(before[i]) = k - 1)
                = CHOOSE i \in Instances :
                    Cardinality({j \in Instances : Beats(j, i, s, a)}) = k - 1
    BY <1>2
  <2> QED
    BY <2>1 DEF Sorted, Beats
<1>11. ASSUME NEW k \in Instances
       PROVE  Sorted(s, a)[k] \in Instances /\ rank[Sorted(s, a)[k]] = k
  <2>1. PICK i \in Instances : rank[i] = k
    BY <1>9
  <2>2. Cardinality(before[i]) = k - 1
    BY <1>4, <2>1
  <2>3. /\ Sorted(s, a)[k] \in Instances
        /\ Cardinality(before[Sorted(s, a)[k]]) = k - 1
    BY <1>10, <2>2
  <2>4. rank[Sorted(s, a)[k]] = Cardinality(before[Sorted(s, a)[k]]) + 1
    BY <1>4, <2>3
  <2>5. k \in Nat
    BY <1>1
  <2> QED
    BY <2>3, <2>4, <2>5
<1>12. \A i \in Instances : Sorted(s, a)[rank[i]] = i
  BY <1>4, <1>6, <1>11
<1>13. ASSUME NEW k \in Instances, NEW l \in Instances, k < l
       PROVE  Beats(Sorted(s, a)[k], Sorted(s, a)[l], s, a)
  <2> DEFINE x == Sorted(s, a)[k]
             y == Sorted(s, a)[l]
  <2>1. x \in Instances /\ y \in Instances /\ rank[x] = k /\ rank[y] = l
    BY <1>11
  <2>2. k \in Nat /\ l \in Nat
    BY <1>1
  <2> HIDE DEF x, y
  <2>3. x # y /\ ~Beats(y, x, s, a)
    BY <1>5, <1>13, <2>1, <2>2
  <2>4. Beats(x, y, s, a)
    BY <2>1, <2>3, BeatsIsTotal
  <2> QED
    BY <2>4 DEF x, y
<1>14. IsOrder(Sorted(s, a))
  BY <1>4, <1>10, <1>11, <1>12 DEF IsOrder
<1> QED
  BY <1>13, <1>14

\* sort_instances_by_duration() puts the instances with an average first, the
\* faster ones before the slower, and the others last by their names; two of
\* the same average stay as they were.
THEOREM SortIsStable ==
  ASSUME NEW s, IsOrder(s), NEW a \in [Instances -> Nat],
         NEW k \in Instances, NEW l \in Instances, k < l
  PROVE  LET i == Sorted(s, a)[k]
             j == Sorted(s, a)[l]
         IN  /\ ~Precedes(j, i, a)
             /\ ~Precedes(i, j, a) => Position(s, i) < Position(s, j)
<1> DEFINE i == Sorted(s, a)[k]
           j == Sorted(s, a)[l]
<1>1. Beats(i, j, s, a) /\ i \in Instances /\ j \in Instances
  BY SortedIsOrder DEF IsOrder
<1> HIDE DEF i, j
<1>2. ~Beats(j, i, s, a)
  BY <1>1, BeatsIsTotal
<1>3. ~Precedes(j, i, a) /\ (~Precedes(i, j, a) => Position(s, i) < Position(s, j))
  BY <1>1, <1>2 DEF Beats
<1> QED
  BY <1>3 DEF i, j

-----------------------------------------------------------------------------
\* The parts of a message.
LEMMA MessageParts ==
  ASSUME NEW m \in Message
  PROVE  /\ m.kind \in {"phase", "update", "note", "line", "engine"}
         /\ m.kind = "phase" => m.phase \in Phase
         /\ m.kind \in {"update", "note", "line"} => m.instance \in Instances
         /\ m.kind = "line" => m.number \in 1 .. Lines
BY DEF Message, PhaseMsg, UpdateMsg, NoteMsg, EngineMsg, LineMsg

\* Sorting leaves a good view, and the selection on the instance it was on.
LEMMA SortedView ==
  ASSUME ViewTypeOK, NEW a \in [Instances -> Averages \cup {None}], Sort(a)
  PROVE  ViewTypeOK' /\ order'[selected'] = order[selected]
<1>1. a \in [Instances -> Nat]
  <2>1. Averages \cup {None} \subseteq Nat
    BY TuiAssumption DEF None
  <2> QED
    BY <2>1
<1>2. IsOrder(order')
  BY <1>1, SortedIsOrder DEF Sort, ViewTypeOK
<1>3. order[selected] \in Instances
  BY DEF ViewTypeOK, IsOrder
<1>4. selected' \in Instances /\ order'[selected'] = order[selected]
  BY <1>2, <1>3, PositionShown DEF Sort
<1> QED
  BY <1>2, <1>4 DEF ViewTypeOK, Sort

\* The list is never left by its ends.
LEMMA NextSelectedShown ==
  ASSUME selected \in Instances, NEW key
  PROVE  NextSelected(key) \in Instances
<1>1. CASE Listing /\ key = "up" /\ selected > 1
  BY <1>1, ViewAssumption DEF NextSelected, Instances
<1>2. CASE Listing /\ key = "down" /\ selected < N
  BY <1>2, ViewAssumption DEF NextSelected, Instances
<1>3. CASE Listing /\ key = "home"
  BY <1>3, ViewAssumption DEF NextSelected, Instances
<1>4. CASE Listing /\ key = "end"
  BY <1>4, ViewAssumption DEF NextSelected, Instances
<1> QED
  BY <1>1, <1>2, <1>3, <1>4 DEF NextSelected

\* The types of what the user sees and of what is bounded.
ShownTypes ==
  /\ cancelled \in BOOLEAN /\ broken \in BOOLEAN /\ streaming \in BOOLEAN
  /\ Len(channel) <= Capacity
  /\ console \in [Instances -> Seq(0 .. Lines)]
  /\ \A i \in Instances : Len(console[i]) <= MaxLines
  /\ average \in [Instances -> Averages \cup {None}]
  /\ done \subseteq Instances

\* push() keeps the bound.
LEMMA PushedTypes ==
  ASSUME NEW lines \in Seq(0 .. Lines), Len(lines) <= MaxLines, NEW n \in 0 .. Lines
  PROVE  PushLine(lines, n) \in Seq(0 .. Lines) /\ Len(PushLine(lines, n)) <= MaxLines
<1> USE TuiAssumption
<1>1. CASE Len(lines) >= MaxLines
  <2>1. Tail(lines) \in Seq(0 .. Lines) /\ Len(Tail(lines)) = Len(lines) - 1
    BY <1>1
  <2> QED
    BY <1>1, <2>1 DEF PushLine
<1>2. CASE ~(Len(lines) >= MaxLines)
  BY <1>2 DEF PushLine
<1> QED
  BY <1>1, <1>2

\* So do the channel's send() and try_send().
LEMMA RoomInChannel ==
  ASSUME channel \in Seq(Message), Len(channel) <= Capacity, NEW m,
         Report(m) \/ (HasRoom /\ channel' = Append(channel, m))
  PROVE  Len(channel') <= Capacity
<1>1. CASE channel' = channel
  BY <1>1
<1>2. CASE HasRoom /\ channel' = Append(channel, m)
  BY <1>2, TuiAssumption DEF HasRoom
<1> QED
  BY <1>1, <1>2 DEF Report

LEMMA InitTypes == Init => ViewTypeOK /\ ShownTypes
<1> SUFFICES ASSUME Init
             PROVE  ViewTypeOK /\ ShownTypes
  OBVIOUS
<1>1. ViewTypeOK
  <2>1. order \in [Instances -> Instances] /\ \A i \in Instances : order[i] = i
    BY DEF Init, ViewInit
  <2>2. IsOrder(order)
    BY <2>1 DEF IsOrder
  <2>3. 1 \in Instances
    BY ViewAssumption DEF Instances
  <2> QED
    BY <2>2, <2>3 DEF Init, ViewInit, ViewTypeOK
<1>2. <<>> \in Seq(Message) /\ <<>> \in Seq(0 .. Lines) /\ Len(<<>>) = 0
  OBVIOUS
<1>3. Capacity \in Nat /\ MaxLines \in Nat
  BY TuiAssumption
<1>4. /\ console \in [Instances -> Seq(0 .. Lines)]
      /\ \A i \in Instances : Len(console[i]) <= MaxLines
  BY <1>2, <1>3 DEF Init
<1>5. Len(channel) <= Capacity
  BY <1>2, <1>3 DEF Init
<1> QED
  BY <1>1, <1>4, <1>5 DEF Init, ShownTypes

LEMMA NextTypes ==
  FlowTypes /\ ViewTypeOK /\ ShownTypes /\ [Next]_vars => ViewTypeOK' /\ ShownTypes'
<1> SUFFICES ASSUME FlowTypes, ViewTypeOK, ShownTypes, [Next]_vars
             PROVE  ViewTypeOK' /\ ShownTypes'
  OBVIOUS
<1>1. /\ channel \in Seq(Message) /\ Len(channel) <= Capacity
      /\ Len(<<>>) = 0 /\ Capacity \in Nat
      /\ channel # <<>> => Head(channel) \in Message /\ Len(Tail(channel)) <= Capacity
  BY TuiAssumption DEF FlowTypes, ShownTypes
<1>2. Len(channel') <= Capacity
  <2>1. CASE UNCHANGED channel \/ channel' = <<>>
    BY <1>1, <2>1
  <2>2. ASSUME NEW m, Report(m) \/ (HasRoom /\ channel' = Append(channel, m))
        PROVE  Len(channel') <= Capacity
    BY <1>1, <2>2, RoomInChannel
  <2>3. CASE channel # <<>> /\ channel' = Tail(channel)
    BY <1>1, <2>3
  <2>4. ASSUME NEW i \in Instances, ReportInstance(i)
        PROVE  Len(channel') <= Capacity
    BY <2>2, <2>4 DEF ReportInstance
  <2>5. CASE NextPhase
    BY <2>2, <2>5 DEF NextPhase
  <2>6. CASE InitFails
    BY <2>1, <2>2, <2>6 DEF InitFails
  <2>7. CASE SendEngine
    BY <2>2, <2>7 DEF SendEngine
  <2>8. ASSUME NEW i \in Instances, SendLine(i)
        PROVE  Len(channel') <= Capacity
    BY <2>2, <2>8 DEF SendLine
  <2>9. CASE Receive \/ CleanupReceive
    BY <2>3, <2>9 DEF Receive, CleanupReceive
  <2>10. CASE AbortInit \/ AwaitInit \/ CleanupEnds \/ DrawFails
    BY <2>1, <2>10 DEF AbortInit, AwaitInit, TakeEngine, CleanupEnds, DrawFails
  <2> QED
    BY <2>1, <2>4, <2>5, <2>6, <2>7, <2>8, <2>9, <2>10
    DEF Next, vars, InitSucceeds, PollAnswer, Completes, Quit, Key, CleanupKey, Click, Signal
<1>3. CASE Receive
  <2> DEFINE m == Head(channel)
  <2>1. m \in Message
    BY <1>1, <1>3 DEF Receive
  <2> HIDE DEF m
  <2>2. /\ m.kind = "note" => m.instance \in Instances
        /\ m.kind = "line" => m.instance \in Instances /\ m.number \in 0 .. Lines
    BY <2>1, MessageParts
  <2>3. ViewTypeOK'
    <3>1. CASE Sort(average)
      BY <3>1, SortedView DEF ShownTypes
    <3>2. CASE UNCHANGED view
      BY <3>2 DEF view, ViewTypeOK
    <3> QED
      BY <1>3, <3>1, <3>2 DEF Receive
  <2>4. /\ console' \in [Instances -> Seq(0 .. Lines)]
        /\ \A i \in Instances : Len(console'[i]) <= MaxLines
    <3>1. console' = CASE m.kind = "note" -> [console EXCEPT ![m.instance] = <<Note>>]
                       [] m.kind = "line" ->
                            [console EXCEPT ![m.instance] = PushLine(@, m.number)]
                       [] m.kind = "engine" -> [i \in Instances |-> <<>>]
                       [] OTHER -> console
      BY <1>3 DEF Receive, m
    <3>2. /\ <<Note>> \in Seq(0 .. Lines) /\ Len(<<Note>>) <= MaxLines
          /\ <<>> \in Seq(0 .. Lines) /\ Len(<<>>) <= MaxLines
      BY TuiAssumption DEF Note
    <3>3. ASSUME m.kind = "line"
          PROVE  /\ PushLine(console[m.instance], m.number) \in Seq(0 .. Lines)
                 /\ Len(PushLine(console[m.instance], m.number)) <= MaxLines
      BY <2>2, <3>3, PushedTypes DEF ShownTypes
    <3> QED
      BY <2>2, <3>1, <3>2, <3>3 DEF ShownTypes
  <2> QED
    BY <1>2, <1>3, <2>3, <2>4 DEF Receive, Loop, ShownTypes
<1>4. ASSUME NEW i \in Instances, PollAnswer(i)
      PROVE  ViewTypeOK' /\ ShownTypes'
  <2>1. average' \in [Instances -> Averages \cup {None}] /\ done' \subseteq Instances
    BY <1>4 DEF PollAnswer, ShownTypes
  <2>2. ViewTypeOK'
    BY <1>4, <2>1, SortedView DEF PollAnswer
  <2>3. /\ PushLine(console[i], Note) \in Seq(0 .. Lines)
        /\ Len(PushLine(console[i], Note)) <= MaxLines
    BY TuiAssumption, PushedTypes DEF ShownTypes, Note
  <2>4. console' = console \/ console' = [console EXCEPT ![i] = PushLine(@, Note)]
    BY <1>4 DEF PollAnswer
  <2>5. /\ console' \in [Instances -> Seq(0 .. Lines)]
        /\ \A j \in Instances : Len(console'[j]) <= MaxLines
    BY <2>3, <2>4 DEF ShownTypes
  <2> QED
    BY <1>2, <1>4, <2>1, <2>2, <2>5 DEF PollAnswer, Loop, ShownTypes
<1>5. ASSUME NEW key \in Keys, Key(key) \/ CleanupKey(key)
      PROVE  ViewTypeOK' /\ ShownTypes'
  <2>1. selected' \in Instances
    BY <1>5, NextSelectedShown DEF Key, Press, CleanupKey, ViewTypeOK
  <2>2. ViewTypeOK'
    BY <1>5, <2>1 DEF Key, Press, CleanupKey, ViewTypeOK, NextConfirm
  <2>3. cancelled' \in BOOLEAN
    BY <1>5 DEF Key, Confirms, CleanupKey, ShownTypes, ViewTypeOK
  <2> QED
    BY <1>2, <1>5, <2>2, <2>3 DEF Key, CleanupKey, Loop, ShownTypes
<1>6. CASE Click
  BY <1>2, <1>6 DEF Click, Mouse, Loop, ViewTypeOK, ShownTypes
<1> USE DEF view, ViewTypeOK, ShownTypes, InitStep, Loop
<1>7. CASE NextPhase \/ InitFails \/ InitSucceeds \/ SendEngine
  BY <1>2, <1>7 DEF NextPhase, InitFails, InitSucceeds, SendEngine
<1>8. ASSUME NEW i \in Instances, ReportInstance(i) \/ SendLine(i)
      PROVE  ViewTypeOK' /\ ShownTypes'
  BY <1>2, <1>8 DEF ReportInstance, SendLine
<1>9. CASE Completes \/ Quit \/ DrawFails \/ Signal
  BY <1>2, <1>9 DEF Completes, Quit, DrawFails, Signal
<1>10. CASE AbortInit \/ AwaitInit \/ CleanupReceive \/ CleanupEnds
  BY <1>2, <1>10 DEF AbortInit, AwaitInit, TakeEngine, CleanupReceive, CleanupEnds
<1>11. CASE UNCHANGED vars
  BY <1>2, <1>11 DEF vars
<1> QED
  BY <1>3, <1>4, <1>5, <1>6, <1>7, <1>8, <1>9, <1>10, <1>11 DEF Next

\* The TUI never leaves its types: the list shows every instance once however
\* often it is sorted, the selection is a row of it, the channel and the
\* consoles keep their bounds.
THEOREM TypeCorrect == Spec => []TypeOK
<1>1. Init => ViewTypeOK /\ ShownTypes
  BY InitTypes
<1>2. IInv /\ ViewTypeOK /\ ShownTypes /\ [Next]_vars => ViewTypeOK' /\ ShownTypes'
  BY NextTypes DEF IInv
<1>3. IInv /\ ViewTypeOK /\ ShownTypes => TypeOK
  BY DEF IInv, FlowTypes, ShownTypes, TypeOK
<1> QED
  BY <1>1, <1>2, <1>3, InductiveInvariant, PTL DEF Spec

\* Sorting the list, whether a report or a poll asks for it, never moves the
\* selection to another instance: what the user presses next is about the
\* instance that was selected.
THEOREM SelectionStays ==
  Spec => [][order' # order => order'[selected'] = order[selected]]_vars
<1>1. TypeOK /\ [Next]_vars => (order' # order => order'[selected'] = order[selected])
  <2> SUFFICES ASSUME TypeOK, [Next]_vars, order' # order
               PROVE  order'[selected'] = order[selected]
    OBVIOUS
  <2>1. ASSUME NEW a \in [Instances -> Averages \cup {None}], Sort(a)
        PROVE  order'[selected'] = order[selected]
    BY <2>1, SortedView DEF TypeOK
  <2>2. CASE Receive
    BY <2>1, <2>2 DEF Receive, TypeOK, view
  <2>3. ASSUME NEW i \in Instances, PollAnswer(i)
        PROVE  order'[selected'] = order[selected]
    <3>1. average' \in [Instances -> Averages \cup {None}]
      BY <2>3 DEF PollAnswer, TypeOK
    <3> QED
      BY <2>1, <2>3, <3>1 DEF PollAnswer
  <2> QED
    BY <2>2, <2>3
    DEF Next, vars, view, InitStep, NextPhase, InitFails, InitSucceeds, SendEngine, ReportInstance,
        SendLine, Completes, Quit, DrawFails, Key, Press, CleanupKey, Click, Mouse, Signal,
        AbortInit, AwaitInit, TakeEngine, CleanupReceive, CleanupEnds
<1> QED
  BY <1>1, TypeCorrect, PTL DEF Spec

-----------------------------------------------------------------------------
\* A buffer that holds a run of lines, in order, between notes.
Holds(lines, p, q) ==
  lines \in Seq(0 .. Lines) /\ Ascending(lines) /\ Numbers(lines) = p + 1 .. q

\* What the eviction of the first line leaves.
LEMMA EvictedTail ==
  ASSUME NEW p \in Nat, NEW q \in Nat, p <= q, NEW lines, Holds(lines, p, q), lines # <<>>
  PROVE  Holds(Tail(lines), p, q) \/ (p < q /\ Holds(Tail(lines), p + 1, q))
<1> USE TuiAssumption DEF Note, Holds
<1>1. /\ lines \in Seq(0 .. Lines) /\ Len(lines) \in Nat \ {0} /\ DOMAIN lines = 1 .. Len(lines)
      /\ Tail(lines) \in Seq(0 .. Lines) /\ DOMAIN Tail(lines) = 1 .. Len(lines) - 1
      /\ \A k \in 1 .. Len(lines) - 1 : Tail(lines)[k] = lines[k + 1]
      /\ \A k \in DOMAIN lines : lines[k] \in 0 .. Lines
  OBVIOUS
<1>2. /\ \A k \in DOMAIN Tail(lines) : k \in Nat /\ k + 1 \in DOMAIN lines /\ k + 1 > 1
      /\ \A k \in DOMAIN lines : k = 1 \/ \E l \in DOMAIN Tail(lines) : l + 1 = k
      /\ 1 \in DOMAIN lines
  <2>1. ASSUME NEW k \in DOMAIN lines, k # 1
        PROVE  \E l \in DOMAIN Tail(lines) : l + 1 = k
    <3>1. k - 1 \in DOMAIN Tail(lines) /\ (k - 1) + 1 = k
      BY <1>1, <2>1
    <3> QED
      BY <3>1
  <2> QED
    BY <1>1, <2>1
<1>3. Ascending(Tail(lines))
  <2> SUFFICES ASSUME NEW k \in DOMAIN Tail(lines), NEW l \in DOMAIN Tail(lines), k < l,
                      Note \notin {Tail(lines)[k], Tail(lines)[l]}
               PROVE  Tail(lines)[k] < Tail(lines)[l]
    BY DEF Ascending
  <2>1. k + 1 < l + 1 /\ Note \notin {lines[k + 1], lines[l + 1]}
    BY <1>1, <1>2
  <2> QED
    BY <1>1, <1>2, <2>1 DEF Ascending
<1>4. Numbers(lines) = Numbers(Tail(lines)) \cup ({lines[1]} \ {Note})
  <2>1. Numbers(lines) \subseteq Numbers(Tail(lines)) \cup ({lines[1]} \ {Note})
    <3> SUFFICES ASSUME NEW k \in DOMAIN lines, k # 1, lines[k] # Note
                 PROVE  lines[k] \in Numbers(Tail(lines))
      BY DEF Numbers
    <3>1. PICK l \in DOMAIN Tail(lines) : l + 1 = k
      BY <1>2
    <3> QED
      BY <1>1, <3>1 DEF Numbers
  <2>2. Numbers(Tail(lines)) \subseteq Numbers(lines)
    BY <1>1, <1>2 DEF Numbers
  <2>3. {lines[1]} \ {Note} \subseteq Numbers(lines)
    BY <1>2 DEF Numbers
  <2> QED
    BY <2>1, <2>2, <2>3
<1>5. CASE lines[1] = Note
  BY <1>1, <1>3, <1>4, <1>5
<1>6. CASE lines[1] # Note
  <2>1. ASSUME NEW n \in Numbers(Tail(lines))
        PROVE  n \in Nat /\ lines[1] < n
    <3>1. PICK k \in DOMAIN Tail(lines) : n = Tail(lines)[k] /\ n # Note
      BY DEF Numbers
    <3>2. k + 1 \in DOMAIN lines /\ 1 < k + 1 /\ n = lines[k + 1]
      BY <1>1, <1>2, <3>1
    <3>3. lines[1] < lines[k + 1]
      BY <1>2, <1>6, <3>1, <3>2 DEF Ascending
    <3> QED
      BY <1>1, <3>1, <3>2, <3>3
  <2>2. lines[1] \in p + 1 .. q
    BY <1>4, <1>6
  <2>3. lines[1] = p + 1
    <3>1. p + 1 \in Numbers(Tail(lines)) \cup {lines[1]}
      BY <1>4, <2>2
    <3> QED
      BY <2>1, <2>2, <3>1
  <2>4. Numbers(Tail(lines)) = (p + 1 .. q) \ {p + 1}
    BY <1>4, <1>6, <2>1, <2>3
  <2>5. (p + 1 .. q) \ {p + 1} = (p + 1) + 1 .. q
    OBVIOUS
  <2>6. p < q
    BY <2>2, <2>3
  <2> QED
    BY <1>1, <1>3, <2>4, <2>5, <2>6
<1> QED
  BY <1>5, <1>6

\* What a new line, or a note, adds at the end.
LEMMA AppendedLine ==
  ASSUME NEW p \in Nat, NEW q \in Nat, p <= q, NEW lines, Holds(lines, p, q),
         NEW n \in 0 .. Lines, n \in {Note, q + 1}
  PROVE  Holds(Append(lines, n), p, IF n = Note THEN q ELSE q + 1)
<1> USE TuiAssumption DEF Note, Holds
<1>1. /\ lines \in Seq(0 .. Lines) /\ Len(lines) \in Nat /\ DOMAIN lines = 1 .. Len(lines)
      /\ Append(lines, n) \in Seq(0 .. Lines) /\ DOMAIN Append(lines, n) = 1 .. Len(lines) + 1
      /\ \A k \in DOMAIN lines : Append(lines, n)[k] = lines[k] /\ lines[k] \in 0 .. Lines
      /\ Append(lines, n)[Len(lines) + 1] = n
  OBVIOUS
<1>2. \A k \in DOMAIN Append(lines, n) : k \in DOMAIN lines \/ k = Len(lines) + 1
  BY <1>1
<1>3. Numbers(Append(lines, n)) = Numbers(lines) \cup ({n} \ {Note})
  BY <1>1, <1>2 DEF Numbers
<1>4. \A k \in DOMAIN lines : lines[k] = Note \/ lines[k] <= q
  BY <1>1 DEF Numbers
<1>5. Ascending(Append(lines, n))
  BY <1>1, <1>2, <1>4 DEF Ascending
<1> QED
  BY <1>1, <1>3, <1>5

\* push() on a full buffer drops the oldest line and no other.
LEMMA PushedLine ==
  ASSUME NEW p \in Nat, NEW q \in Nat, p <= q, NEW lines, Holds(lines, p, q),
         NEW n \in 0 .. Lines, n \in {Note, q + 1}
  PROVE  \E r \in Nat : r <= q /\ Holds(PushLine(lines, n), r, IF n = Note THEN q ELSE q + 1)
<1>1. CASE Len(lines) >= MaxLines
  <2>1. lines # <<>>
    BY <1>1, TuiAssumption
  <2>2. PICK r \in Nat : r <= q /\ Holds(Tail(lines), r, q)
    BY <2>1, EvictedTail
  <2> QED
    BY <1>1, <2>2, AppendedLine DEF PushLine
<1>2. CASE ~(Len(lines) >= MaxLines)
  BY <1>2, AppendedLine DEF PushLine
<1> QED
  BY <1>1, <1>2

-----------------------------------------------------------------------------
\* What is on its way to the console of i, from the line q + 1 on.
OnTheirWay(i, q) == QueuedInOrder(i) /\ Queued(i) = q + 1 .. sent[i]

\* A message that is appended is not of i, or it is the line that i sent.
LEMMA AppendedToChannel ==
  ASSUME NEW i \in Instances, NEW q \in Nat, sent[i] \in Nat, q <= sent[i], OnTheirWay(i, q),
         channel \in Seq(Message), NEW m \in Message, channel' = Append(channel, m),
         IF m.kind = "line" /\ m.instance = i THEN m.number = sent[i] + 1 /\ sent'[i] = sent[i] + 1
                                              ELSE sent'[i] = sent[i]
  PROVE  OnTheirWay(i, q)'
<1>1. /\ DOMAIN channel = 1 .. Len(channel) /\ Len(channel) \in Nat
      /\ DOMAIN channel' = 1 .. Len(channel) + 1 /\ channel'[Len(channel) + 1] = m
      /\ \A k \in DOMAIN channel : channel'[k] = channel[k] /\ channel[k] \in Message
  OBVIOUS
<1>2. /\ Len(channel) + 1 \in DOMAIN channel'
      /\ \A k \in DOMAIN channel' : k \in Nat /\ (k \in DOMAIN channel \/ k = Len(channel) + 1)
      /\ \A k \in DOMAIN channel : k \in DOMAIN channel' /\ k < Len(channel) + 1
  BY <1>1
<1>3. ASSUME NEW k \in Mine(i)
      PROVE  channel[k].number \in Nat /\ channel[k].number <= sent[i]
  <2>1. channel[k].number \in q + 1 .. sent[i]
    BY DEF OnTheirWay, Queued
  <2> QED
    BY <2>1
<1>4. CASE m.kind = "line" /\ m.instance = i
  <2>1. Mine(i)' = Mine(i) \cup {Len(channel) + 1}
    BY <1>1, <1>2, <1>4 DEF Mine
  <2>2. Mine(i) \subseteq DOMAIN channel
    BY DEF Mine
  <2>3. QueuedInOrder(i)'
    <3> SUFFICES ASSUME NEW k \in Mine(i)', NEW l \in Mine(i)', k < l
                 PROVE  channel'[k].number < channel'[l].number
      BY DEF QueuedInOrder
    <3>1. k \in Mine(i)
      BY <1>1, <1>2, <2>1, <2>2
    <3>2. CASE l \in Mine(i)
      BY <1>1, <2>2, <3>1, <3>2 DEF OnTheirWay, QueuedInOrder
    <3>3. CASE l = Len(channel) + 1
      BY <1>1, <1>3, <1>4, <2>2, <3>1, <3>3
    <3> QED
      BY <2>1, <3>2, <3>3
  <2>4. Queued(i)' = Queued(i) \cup {sent[i] + 1}
    BY <1>1, <1>4, <2>1, <2>2 DEF Queued
  <2> QED
    BY <1>4, <2>3, <2>4 DEF OnTheirWay
<1>5. CASE ~(m.kind = "line" /\ m.instance = i)
  <2>1. Mine(i)' = Mine(i) /\ Mine(i) \subseteq DOMAIN channel
    BY <1>1, <1>2, <1>5 DEF Mine
  <2>2. \A k \in Mine(i) : channel'[k].number = channel[k].number
    BY <1>1, <2>1
  <2> QED
    BY <1>5, <2>1, <2>2 DEF OnTheirWay, QueuedInOrder, Queued
<1> QED
  BY <1>4, <1>5

\* A message that is taken is not of i, or it is the line after those shown.
LEMMA TakenFromChannel ==
  ASSUME NEW i \in Instances, NEW q \in Nat, sent[i] \in Nat, q <= sent[i], OnTheirWay(i, q),
         channel \in Seq(Message), channel # <<>>, channel' = Tail(channel), UNCHANGED sent
  PROVE  LET m == Head(channel) IN
         IF m.kind = "line" /\ m.instance = i
           THEN m.number = q + 1 /\ q + 1 <= sent[i] /\ OnTheirWay(i, q + 1)'
           ELSE OnTheirWay(i, q)'
<1> DEFINE m == Head(channel)
<1>1. /\ DOMAIN channel = 1 .. Len(channel) /\ Len(channel) \in Nat \ {0}
      /\ DOMAIN channel' = 1 .. Len(channel) - 1 /\ m = channel[1]
      /\ \A k \in DOMAIN channel' : channel'[k] = channel[k + 1]
  OBVIOUS
<1> HIDE DEF m
<1>2. /\ \A k \in DOMAIN channel' : k \in Nat /\ k + 1 \in DOMAIN channel /\ 1 < k + 1
      /\ \A k \in DOMAIN channel : k # 1 => k - 1 \in DOMAIN channel' /\ (k - 1) + 1 = k
      /\ 1 \in DOMAIN channel
  BY <1>1
<1>3. \A k \in Mine(i)' : k \in DOMAIN channel' /\ k + 1 \in Mine(i) /\ channel'[k].number = channel[k + 1].number
  BY <1>1, <1>2 DEF Mine
<1>4. \A k \in Mine(i) : k = 1 \/ k - 1 \in Mine(i)'
  BY <1>1, <1>2 DEF Mine
<1>5. 1 \in Mine(i) <=> m.kind = "line" /\ m.instance = i
  BY <1>1, <1>2 DEF Mine
<1>6. QueuedInOrder(i)'
  <2> SUFFICES ASSUME NEW k \in Mine(i)', NEW l \in Mine(i)', k < l
               PROVE  channel'[k].number < channel'[l].number
    BY DEF QueuedInOrder
  <2>1. k + 1 < l + 1
    BY <1>2, <1>3
  <2> QED
    BY <1>3, <2>1 DEF OnTheirWay, QueuedInOrder
<1>7. Queued(i) = Queued(i)' \cup {channel[k].number : k \in Mine(i) \cap {1}}
  <2>1. ASSUME NEW k \in Mine(i), k # 1
        PROVE  channel[k].number \in Queued(i)'
    <3>1. k - 1 \in Mine(i)' /\ (k - 1) + 1 = k
      BY <1>2, <1>4, <2>1 DEF Mine
    <3> QED
      BY <1>3, <3>1 DEF Queued
  <2>2. \A k \in Mine(i)' : channel'[k].number \in Queued(i)
    BY <1>3 DEF Queued
  <2> QED
    BY <2>1, <2>2 DEF Queued
<1>8. CASE 1 \in Mine(i)
  <2>1. Queued(i) = Queued(i)' \cup {m.number}
    BY <1>1, <1>7, <1>8
  <2>2. ASSUME NEW n \in Queued(i)'
        PROVE  m.number < n
    <3>1. PICK k \in Mine(i)' : n = channel'[k].number
      BY DEF Queued
    <3>2. k + 1 \in Mine(i) /\ n = channel[k + 1].number /\ 1 < k + 1
      BY <1>2, <1>3, <3>1
    <3> QED
      BY <1>1, <1>8, <3>2 DEF OnTheirWay, QueuedInOrder
  <2>3. m.number \in q + 1 .. sent[i]
    BY <2>1 DEF OnTheirWay
  <2>4. m.number = q + 1
    <3>1. q + 1 \in Queued(i)' \cup {m.number}
      BY <2>1, <2>3 DEF OnTheirWay
    <3> QED
      BY <2>2, <2>3, <3>1
  <2>5. Queued(i)' = (q + 1 .. sent[i]) \ {q + 1}
    BY <2>1, <2>2, <2>3, <2>4 DEF OnTheirWay
  <2>6. (q + 1 .. sent[i]) \ {q + 1} = (q + 1) + 1 .. sent[i]
    OBVIOUS
  <2> QED
    BY <1>5, <1>6, <1>8, <2>3, <2>4, <2>5, <2>6 DEF OnTheirWay, m
<1>9. CASE 1 \notin Mine(i)
  <2>1. Queued(i)' = Queued(i)
    BY <1>7, <1>9
  <2> QED
    BY <1>5, <1>6, <1>9, <2>1 DEF OnTheirWay, m
<1> QED
  BY <1>8, <1>9

\* TailIsShown of one instance, with the bounds of what is shown.
TailOf(i) ==
  \E p, q \in Nat : p <= q /\ q <= sent[i] /\ OnTheirWay(i, q) /\ Holds(console[i], p, q)

EachTail == pc = "loop" => \A i \in Instances : TailOf(i)

LEMMA TailOfEach == FlowTypes /\ ShownTypes => (TailIsShown <=> EachTail)
<1> SUFFICES ASSUME FlowTypes, ShownTypes
             PROVE  TailIsShown <=> EachTail
  OBVIOUS
<1>1. ASSUME NEW i \in Instances
      PROVE  TailOf(i) <=> /\ Ascending(console[i]) /\ QueuedInOrder(i)
                           /\ \E q \in 0 .. sent[i] :
                                /\ \E p \in 0 .. q : Numbers(console[i]) = p + 1 .. q
                                /\ Queued(i) = q + 1 .. sent[i]
  <2>1. sent[i] \in Nat /\ console[i] \in Seq(0 .. Lines)
    BY TuiAssumption DEF FlowTypes, ShownTypes
  <2>2. \A q \in Nat : q <= sent[i] <=> q \in 0 .. sent[i]
    BY <2>1
  <2>3. \A q \in 0 .. sent[i] : q \in Nat
    BY <2>1
  <2>4. \A q \in Nat : \A p \in 0 .. q : p \in Nat /\ p <= q
    OBVIOUS
  <2>5. \A q \in Nat, p \in Nat : p <= q => p \in 0 .. q
    OBVIOUS
  <2> QED
    BY <2>1, <2>2, <2>3, <2>4, <2>5 DEF TailOf, OnTheirWay, Holds
<1> QED
  BY <1>1 DEF TailIsShown, EachTail

LEMMA InitTail == Init => TailIsShown
<1> SUFFICES ASSUME Init, NEW i \in Instances
             PROVE  TailOf(i)
  BY InitInv, InitTypes, TailOfEach DEF IInv, EachTail
<1>1. /\ console[i] = <<>> /\ sent[i] = 0 /\ channel = <<>>
      /\ <<>> \in Seq(0 .. Lines) /\ DOMAIN <<>> = {}
  BY DEF Init
<1>2. Holds(console[i], 0, 0)
  <2>1. Numbers(console[i]) = {}
    BY <1>1 DEF Numbers
  <2>2. Ascending(console[i])
    BY <1>1 DEF Ascending
  <2> QED
    BY <1>1, <2>1, <2>2 DEF Holds
<1>3. OnTheirWay(i, 0)
  <2>1. Mine(i) = {}
    BY <1>1 DEF Mine
  <2> QED
    BY <1>1, <2>1 DEF OnTheirWay, Queued, QueuedInOrder
<1> QED
  BY <1>1, <1>2, <1>3 DEF TailOf

LEMMA NextTail ==
  FlowTypes /\ ShownTypes /\ TailIsShown /\ [Next]_vars /\ FlowTypes' /\ ShownTypes' => TailIsShown'
<1> SUFFICES ASSUME FlowTypes, ShownTypes, TailIsShown, [Next]_vars, FlowTypes', ShownTypes',
                    pc' = "loop", NEW i \in Instances
             PROVE  TailOf(i)'
  <2>1. (FlowTypes /\ ShownTypes => (TailIsShown <=> EachTail))'
    BY TailOfEach, PTL
  <2> QED
    BY <2>1 DEF EachTail
<1>1. pc = "loop"
  BY DEF Next, vars, NextPhase, InitFails, InitSucceeds, SendEngine, ReportInstance, SendLine, PollAnswer,
         Receive, Completes, Quit, DrawFails, Key, CleanupKey, Click, Signal, AbortInit, AwaitInit,
         TakeEngine, CleanupReceive, CleanupEnds, InLoop, InitStep
<1>2. PICK p \in Nat, q \in Nat :
        p <= q /\ q <= sent[i] /\ OnTheirWay(i, q) /\ Holds(console[i], p, q)
  BY <1>1, TailOfEach DEF EachTail, TailOf
<1>3. /\ sent[i] \in Nat /\ channel \in Seq(Message)
      /\ console \in [Instances -> Seq(0 .. Lines)] /\ sent \in [Instances -> 0 .. Lines]
      /\ channel # <<>> => Head(channel) \in Message
  BY TuiAssumption DEF FlowTypes, ShownTypes
<1>4. CASE UNCHANGED <<channel, console, sent>>
  BY <1>2, <1>4 DEF TailOf, OnTheirWay, Queued, QueuedInOrder, Mine
<1>5. ASSUME NEW m \in Message, channel' = Append(channel, m), m.kind # "line",
             UNCHANGED <<console, sent>>
      PROVE  TailOf(i)'
  <2>1. OnTheirWay(i, q)'
    BY <1>2, <1>3, <1>5, AppendedToChannel
  <2> QED
    BY <1>2, <1>5, <2>1 DEF TailOf
<1>6. ASSUME NEW m \in Message, Report(m), m.kind # "line", UNCHANGED <<console, sent>>
      PROVE  TailOf(i)'
  BY <1>4, <1>5, <1>6 DEF Report
<1>7. CASE NextPhase
  <2>1. init + 1 \in Phase
    BY <1>7, TuiAssumption DEF NextPhase, Initializing, Phase, Failed
  <2> QED
    BY <1>6, <1>7, <2>1, MessageKinds DEF NextPhase, InitStep
<1>8. ASSUME NEW j \in Instances, ReportInstance(j)
      PROVE  TailOf(i)'
  BY <1>6, <1>8, MessageKinds DEF ReportInstance, InitStep
<1>9. CASE InitFails
  <2>1. Failed \in Phase
    BY TuiAssumption DEF Phase, Failed
  <2> QED
    BY <1>4, <1>6, <1>9, <2>1, MessageKinds DEF InitFails, InitStep
<1>10. CASE SendEngine
  BY <1>5, <1>10, MessageKinds DEF SendEngine, InitStep
<1>11. ASSUME NEW j \in Instances, SendLine(j)
       PROVE  TailOf(i)'
  <2> DEFINE m == LineMsg(j, sent[j] + 1)
  <2>1. sent[j] + 1 \in 1 .. Lines
    <3>1. sent[j] \in 0 .. Lines /\ sent[j] < Lines
      BY <1>3, <1>11 DEF SendLine
    <3> QED
      BY <3>1, TuiAssumption
  <2>2. /\ m \in Message /\ m.kind = "line" /\ m.instance = j /\ m.number = sent[j] + 1
    BY <2>1 DEF Message, LineMsg
  <2>3. channel' = Append(channel, m) /\ UNCHANGED console
    BY <1>11 DEF SendLine
  <2> HIDE DEF m
  <2>4. sent'[i] = IF i = j THEN sent[i] + 1 ELSE sent[i]
    BY <1>3, <1>11 DEF SendLine
  <2>5. OnTheirWay(i, q)'
    BY <1>2, <1>3, <2>2, <2>3, <2>4, AppendedToChannel
  <2>6. q <= sent'[i]
    BY <1>2, <1>3, <2>4
  <2> QED
    BY <1>2, <2>3, <2>5, <2>6 DEF TailOf
<1>12. CASE Receive
  <2> DEFINE m == Head(channel)
  <2>1. channel # <<>> /\ channel' = Tail(channel) /\ UNCHANGED sent /\ m \in Message
    BY <1>3, <1>12 DEF Receive, Loop
  <2>2. IF m.kind = "line" /\ m.instance = i
          THEN m.number = q + 1 /\ q + 1 <= sent[i] /\ OnTheirWay(i, q + 1)'
          ELSE OnTheirWay(i, q)'
    BY <1>2, <1>3, <2>1, TakenFromChannel
  <2>3. console' = CASE m.kind = "note" -> [console EXCEPT ![m.instance] = <<Note>>]
                     [] m.kind = "line" ->
                          [console EXCEPT ![m.instance] = PushLine(@, m.number)]
                     [] m.kind = "engine" -> [j \in Instances |-> <<>>]
                     [] OTHER -> console
    BY <1>12 DEF Receive
  <2> HIDE DEF m
  <2>4. m.kind = "line" => m.instance \in Instances /\ m.number \in 0 .. Lines
    BY <2>1, MessageParts
  <2>5. CASE m.kind = "line" /\ m.instance = i
    <3>1. console'[i] = PushLine(console[i], q + 1) /\ q + 1 \in 0 .. Lines
      BY <1>3, <2>2, <2>3, <2>4, <2>5
    <3>2. q + 1 # Note
      BY DEF Note
    <3>3. PICK r \in Nat : r <= q /\ Holds(PushLine(console[i], q + 1), r, q + 1)
      BY <1>2, <3>1, <3>2, PushedLine
    <3>4. r <= q + 1 /\ q + 1 \in Nat /\ q + 1 <= sent'[i]
      BY <2>1, <2>2, <2>5, <3>3
    <3> QED
      BY <2>2, <2>5, <3>1, <3>3, <3>4 DEF TailOf
  <2>6. CASE (m.kind = "note" /\ m.instance = i) \/ m.kind = "engine"
    <3>1. console'[i] \in {<<Note>>, <<>>}
      BY <1>3, <2>3, <2>6
    <3>2. Holds(console'[i], q, q)
      <4>1. console'[i] \in Seq(0 .. Lines)
        <5>1. Note \in 0 .. Lines
          BY TuiAssumption DEF Note
        <5>2. <<Note>> \in Seq(0 .. Lines) /\ <<>> \in Seq(0 .. Lines)
          BY <5>1
        <5> QED
          BY <3>1, <5>2
      <4>2. \A k \in DOMAIN console'[i] : console'[i][k] = Note
        BY <3>1
      <4>3. Numbers(console'[i]) = {} /\ q + 1 .. q = {}
        BY <4>2 DEF Numbers
      <4>4. Ascending(console'[i])
        BY <4>2 DEF Ascending
      <4> QED
        BY <4>1, <4>3, <4>4 DEF Holds
    <3> QED
      BY <1>2, <2>1, <2>2, <2>6, <3>2 DEF TailOf
  <2>7. CASE ~(m.kind \in {"note", "line"} /\ m.instance = i) /\ m.kind # "engine"
    <3>1. console'[i] = console[i]
      BY <1>3, <2>3, <2>7
    <3> QED
      BY <1>2, <2>1, <2>2, <2>7, <3>1 DEF TailOf
  <2> QED
    BY <2>5, <2>6, <2>7
<1>13. ASSUME NEW j \in Instances, PollAnswer(j)
       PROVE  TailOf(i)'
  <2>1. UNCHANGED <<channel, sent>>
    BY <1>13 DEF PollAnswer, Loop
  <2>2. console'[i] = console[i] \/ console'[i] = PushLine(console[i], Note)
    BY <1>3, <1>13 DEF PollAnswer
  <2>3. \E r \in Nat : r <= q /\ Holds(console'[i], r, q)
    <3>1. Note \in 0 .. Lines
      BY TuiAssumption DEF Note
    <3> QED
      BY <1>2, <2>2, <3>1, PushedLine
  <2>4. OnTheirWay(i, q)'
    BY <1>2, <2>1 DEF OnTheirWay, Queued, QueuedInOrder, Mine
  <2> QED
    BY <1>2, <2>1, <2>3, <2>4 DEF TailOf
<1>14. CASE InitSucceeds \/ Completes \/ Quit \/ Click \/ Signal \/ \E key \in Keys : Key(key)
  BY <1>4, <1>14 DEF InitSucceeds, InitStep, Completes, Quit, Click, Signal, Key, Loop
<1>15. CASE DrawFails
  BY <1>1, <1>4, <1>15 DEF DrawFails, InLoop
<1>16. CASE UNCHANGED vars
  BY <1>4, <1>16 DEF vars
<1> QED
  BY <1>1, <1>7, <1>8, <1>9, <1>10, <1>11, <1>12, <1>13, <1>14, <1>15, <1>16
  DEF Next, AbortInit, AwaitInit, CleanupKey, CleanupReceive, CleanupEnds

\* A console shows the latest lines of its agent, in order and without a gap,
\* whatever was dropped on a full channel, evicted from a full buffer, or
\* replaced when the engine took over the console.
THEOREM ConsolesShowTheTail == Spec => []TailIsShown
<1>1. Init => TailIsShown
  BY InitTail
<1>2. TypeOK => ShownTypes
  BY DEF TypeOK, ShownTypes
<1>3. IInv => FlowTypes
  BY DEF IInv
<1> QED
  BY <1>1, <1>2, <1>3, NextTail, TypeCorrect, InductiveInvariant, PTL DEF Spec
-----------------------------------------------------------------------------
(* What keeps QuitEnds from hanging, as far as it can be said without       *)
(* fairness: the way out is never closed.                                   *)

\* All reports of phases are before the engine in the channel, so that none can
\* take the loop back from Running.
PhasesComeFirst ==
  /\ \A k, l \in DOMAIN channel :
       channel[k].kind = "engine" /\ channel[l].kind = "phase" => l < k
  /\ engine \in {"app", "cleanup"} => \A l \in DOMAIN channel : channel[l].kind # "phase"

\* The loop takes the run for running as soon as it has the engine, and only
\* hears of ends from it.
EngineShows ==
  pc = "loop" =>
    /\ engine = "app" => phase \in {Running, Completed}
    /\ done # {} => engine = "app"

WayInv == PhasesComeFirst /\ EngineShows

\* The tick that completes the run is not kept back by a phase, and the task of
\* initialization is only waited for without end when the terminal broke.
WayIsOpen ==
  /\ pc = "loop" /\ done = Instances => phase \in {Running, Completed}
  /\ pc = "awaiting" => broken \/ init = Sent

\* How many steps to the end of the program are left.
StepsOut ==
  CASE pc = "loop" -> 3 [] pc \in {"aborting", "awaiting"} -> 2 [] pc = "cleanup" -> 1 [] OTHER -> 0

\* What ends the loop is not withdrawn, by whatever message, key or answer, and
\* the program does not turn back.
OnlyOut ==
  /\ pc = "loop" /\ ShouldQuit => ShouldQuit'
  /\ done \subseteq done'
  /\ StepsOut' <= StepsOut
  /\ Quit \/ AbortInit \/ AwaitInit \/ CleanupEnds => StepsOut' < StepsOut

\* What a step may do to the channel without a phase getting behind the engine.
LEMMA NotOvertaken ==
  ASSUME FlowTypes, PhasesComeFirst, channel' \in Seq(Message),
         engine' \in {"app", "cleanup"} => engine \in {"app", "cleanup"},
         \/ channel' = channel \/ channel' = <<>>
         \/ channel # <<>> /\ channel' = Tail(channel)
         \/ \E m \in Message :
              /\ channel' = Append(channel, m)
              /\ m.kind = "phase" => \A k \in DOMAIN channel : channel[k].kind # "engine"
              /\ m.kind = "phase" => engine' \notin {"app", "cleanup"}
  PROVE  PhasesComeFirst'
<1> USE DEF FlowTypes, PhasesComeFirst
<1>1. CASE channel' = channel \/ channel' = <<>>
  BY <1>1
<1>2. CASE channel # <<>> /\ channel' = Tail(channel)
  <2>1. /\ DOMAIN channel = 1 .. Len(channel) /\ Len(channel) \in Nat
        /\ \A k \in DOMAIN channel' : k \in Nat /\ k + 1 \in DOMAIN channel /\ channel'[k] = channel[k + 1]
    BY <1>2
  <2> QED
    BY <2>1
<1>3. CASE \E m \in Message :
             /\ channel' = Append(channel, m)
             /\ m.kind = "phase" => \A k \in DOMAIN channel : channel[k].kind # "engine"
             /\ m.kind = "phase" => engine' \notin {"app", "cleanup"}
  <2>1. PICK m \in Message :
          /\ channel' = Append(channel, m)
          /\ m.kind = "phase" => \A k \in DOMAIN channel : channel[k].kind # "engine"
          /\ m.kind = "phase" => engine' \notin {"app", "cleanup"}
    BY <1>3
  <2>2. /\ DOMAIN channel = 1 .. Len(channel) /\ Len(channel) \in Nat
        /\ channel'[Len(channel) + 1] = m
        /\ \A k \in DOMAIN channel : channel'[k] = channel[k]
        /\ \A k \in DOMAIN channel' : k \in DOMAIN channel \/ k = Len(channel) + 1
    BY <2>1
  <2>3. ASSUME NEW k \in DOMAIN channel', NEW l \in DOMAIN channel',
               channel'[k].kind = "engine", channel'[l].kind = "phase"
        PROVE  l < k
    <3>1. CASE k \in DOMAIN channel /\ l \in DOMAIN channel
      BY <2>2, <2>3, <3>1
    <3>2. CASE k = Len(channel) + 1
      <4>1. l # k
        BY <2>3
      <4> QED
        BY <2>2, <3>2, <4>1
    <3>3. CASE k \in DOMAIN channel /\ l = Len(channel) + 1
      BY <2>1, <2>2, <2>3, <3>3
    <3> QED
      BY <2>2, <3>1, <3>2, <3>3
  <2>4. ASSUME engine' \in {"app", "cleanup"}, NEW l \in DOMAIN channel'
        PROVE  channel'[l].kind # "phase"
    BY <2>1, <2>2, <2>4
  <2> QED
    BY <2>3, <2>4
<1> QED
  BY <1>1, <1>2, <1>3

\* A report of initialization: there is no engine yet.
LEMMA ReportNotOvertaken ==
  ASSUME IInv, PhasesComeFirst, Initializing, NEW m \in Message, UNCHANGED engine,
         channel' = channel \/ Report(m)
  PROVE  PhasesComeFirst'
<1>1. engine = "none"
  BY DEF IInv, EngineFollowsInit, Initializing
<1>2. \A k \in DOMAIN channel : channel[k].kind # "engine"
  BY <1>1 DEF IInv, MessagesExplained
<1>3. channel' = channel \/ channel' = Append(channel, m)
  BY DEF Report
<1>4. FlowTypes /\ channel' \in Seq(Message)
  BY <1>3 DEF IInv, FlowTypes
<1> QED
  BY <1>1, <1>2, <1>3, <1>4, NotOvertaken

LEMMA WayInit == Init => WayInv
BY DEF Init, WayInv, PhasesComeFirst, EngineShows

LEMMA WayNext == IInv /\ WayInv /\ [Next]_vars => WayInv' /\ [OnlyOut]_vars
<1> SUFFICES ASSUME IInv, WayInv, Next
             PROVE  WayInv' /\ OnlyOut
  <2>1. UNCHANGED vars => UNCHANGED <<pc, phase, cancelled, channel, engine, done>>
    BY DEF vars
  <2>2. WayInv /\ UNCHANGED <<pc, phase, cancelled, channel, engine, done>> => WayInv'
    BY DEF WayInv, PhasesComeFirst, EngineShows
  <2> QED
    BY <2>1, <2>2
<1> USE DEF WayInv
<1>1. IInv' /\ FlowTypes /\ FlowTypes'
  BY NextInv DEF IInv
<1>2. channel' \in Seq(Message)
  BY <1>1 DEF FlowTypes
<1> DEFINE Stays == UNCHANGED <<pc, phase, cancelled, done>>
<1>3. ASSUME Stays, engine' = "app" <=> engine = "app"
      PROVE  EngineShows' /\ OnlyOut
  <2>1. ~(Quit \/ AbortInit \/ AwaitInit \/ CleanupEnds)
    BY <1>3 DEF Quit, InLoop, AbortInit, AwaitInit, TakeEngine, CleanupEnds
  <2>2. StepsOut' = StepsOut /\ StepsOut \in Nat
    BY <1>3 DEF StepsOut
  <2>3. EngineShows'
    BY <1>3 DEF EngineShows
  <2> QED
    BY <1>3, <2>1, <2>2, <2>3 DEF OnlyOut, ShouldQuit
<1>4. ASSUME Initializing, UNCHANGED engine, NEW m \in Message, channel' = channel \/ Report(m),
             Stays
      PROVE  WayInv' /\ OnlyOut
  BY <1>3, <1>4, ReportNotOvertaken
<1>5. CASE NextPhase
  <2>1. init + 1 \in Phase
    BY <1>5, TuiAssumption DEF NextPhase, Initializing, Phase, Failed
  <2> QED
    BY <1>4, <1>5, <2>1, MessageKinds DEF NextPhase, InitStep
<1>6. ASSUME NEW i \in Instances, ReportInstance(i)
      PROVE  WayInv' /\ OnlyOut
  BY <1>4, <1>6, MessageKinds DEF ReportInstance, InitStep
<1>7. CASE InitFails
  <2>1. Failed \in Phase
    BY TuiAssumption DEF Phase, Failed
  <2> QED
    BY <1>4, <1>7, <2>1, MessageKinds DEF InitFails, InitStep
<1>8. CASE InitSucceeds
  <2>1. Stays /\ engine = "none" /\ engine' = "task" /\ channel' = channel
    BY <1>8 DEF InitSucceeds, InitStep, Initializing, IInv, EngineFollowsInit
  <2> QED
    BY <1>1, <1>2, <1>3, <2>1, NotOvertaken
<1>9. CASE SendEngine
  <2>1. /\ Stays /\ engine = "task" /\ engine' = "channel"
        /\ channel' = Append(channel, EngineMsg)
    BY <1>9 DEF SendEngine, InitStep, IInv, EngineFollowsInit
  <2> QED
    BY <1>1, <1>2, <1>3, <2>1, NotOvertaken, MessageKinds
<1>10. ASSUME NEW i \in Instances, SendLine(i)
       PROVE  WayInv' /\ OnlyOut
  <2>1. Stays /\ engine' = engine /\ channel' = Append(channel, LineMsg(i, sent[i] + 1))
    BY <1>10 DEF SendLine
  <2>2. sent[i] + 1 \in 1 .. Lines
    BY <1>1, <1>10, TuiAssumption DEF SendLine, FlowTypes
  <2>3. LineMsg(i, sent[i] + 1) \in Message /\ LineMsg(i, sent[i] + 1).kind = "line"
    BY <2>2, MessageKinds
  <2> QED
    BY <1>1, <1>2, <1>3, <2>1, <2>3, NotOvertaken
<1>11. CASE Receive
  <2>1. /\ pc = "loop" /\ UNCHANGED <<pc, cancelled, done>>
        /\ channel # <<>> /\ channel' = Tail(channel)
    BY <1>11 DEF Receive, InLoop
  <2>2. /\ 1 \in DOMAIN channel /\ Head(channel) = channel[1]
    BY <1>1, <2>1 DEF FlowTypes
  <2>3. ~(Quit \/ AbortInit \/ AwaitInit \/ CleanupEnds) /\ StepsOut' = StepsOut /\ StepsOut = 3
    BY <2>1 DEF Quit, InLoop, AbortInit, AwaitInit, TakeEngine, CleanupEnds, StepsOut
  <2>4. CASE Head(channel).kind = "engine"
    <3>1. engine' = "app" /\ phase' = Running /\ engine = "channel"
      BY <1>11, <2>2, <2>4 DEF Receive, IInv, MessagesExplained
    <3>2. \A l \in DOMAIN channel : channel[l].kind # "phase"
      BY <1>1, <2>2, <2>4 DEF PhasesComeFirst, FlowTypes
    <3>3. PhasesComeFirst'
      <4>1. \A k \in DOMAIN channel' : k + 1 \in DOMAIN channel /\ channel'[k] = channel[k + 1]
        BY <1>1, <2>1 DEF FlowTypes
      <4> QED
        BY <3>2, <4>1 DEF PhasesComeFirst
    <3>4. EngineShows'
      BY <3>1 DEF EngineShows
    <3>5. phase # Completed
      BY <3>1, TuiAssumption DEF IInv, PhaseFollowsEngine, Completed
    <3> QED
      BY <2>1, <2>3, <3>3, <3>4, <3>5 DEF OnlyOut, ShouldQuit
  <2>5. CASE Head(channel).kind # "engine"
    <3>1. engine' = engine
      BY <1>11, <2>5 DEF Receive
    <3>2. PhasesComeFirst'
      BY <1>1, <1>2, <2>1, <3>1, NotOvertaken
    <3>3. engine = "app" => Head(channel).kind # "phase" /\ phase' = phase
      BY <1>11, <2>2, <2>5 DEF Receive, PhasesComeFirst
    <3>4. EngineShows'
      BY <2>1, <3>1, <3>3 DEF EngineShows
    <3>5. phase = Completed => engine = "app"
      BY <2>1 DEF IInv, PhaseFollowsEngine
    <3>6. ShouldQuit => ShouldQuit'
      BY <2>1, <3>3, <3>5 DEF ShouldQuit
    <3> QED
      BY <2>1, <2>3, <3>2, <3>4, <3>6 DEF OnlyOut
  <2> QED
    BY <2>4, <2>5
<1>12. ASSUME NEW i \in Instances, PollAnswer(i)
       PROVE  WayInv' /\ OnlyOut
  <2>1. /\ pc = "loop" /\ UNCHANGED <<pc, phase, cancelled, channel, engine>> /\ engine = "app"
        /\ done \subseteq done'
    BY <1>12 DEF PollAnswer, InLoop
  <2>2. PhasesComeFirst' /\ EngineShows'
    BY <2>1 DEF PhasesComeFirst, EngineShows
  <2>3. ~(Quit \/ AbortInit \/ AwaitInit \/ CleanupEnds) /\ StepsOut' = StepsOut /\ StepsOut = 3
    BY <2>1 DEF Quit, InLoop, AbortInit, AwaitInit, TakeEngine, CleanupEnds, StepsOut
  <2> QED
    BY <2>1, <2>2, <2>3 DEF OnlyOut, ShouldQuit
<1>13. CASE Completes \/ (\E key \in Keys : Key(key) \/ CleanupKey(key)) \/ Click \/ Signal
  <2>1. /\ UNCHANGED <<pc, channel, engine, done>>
        /\ phase' = phase \/ phase' = Completed
    BY <1>13 DEF Completes, Key, Click, Signal, CleanupKey
  <2>2. cancelled => cancelled'
    <3>1. ASSUME NEW key \in Keys, Key(key), cancelled
          PROVE  cancelled'
      BY <3>1, Zenon DEF Key
    <3> QED
      BY <1>13, <3>1 DEF Completes, Click, Signal, CleanupKey
  <2>3. PhasesComeFirst' /\ EngineShows'
    BY <2>1 DEF PhasesComeFirst, EngineShows
  <2>4. ~(Quit \/ AbortInit \/ AwaitInit \/ CleanupEnds) /\ StepsOut' = StepsOut /\ StepsOut \in Nat
    BY <2>1 DEF Quit, InLoop, AbortInit, AwaitInit, TakeEngine, CleanupEnds, StepsOut
  <2> QED
    BY <2>1, <2>2, <2>3, <2>4 DEF OnlyOut, ShouldQuit
<1>14. CASE Quit
  <2>1. /\ pc = "loop" /\ pc' \in {"aborting", "awaiting"}
        /\ UNCHANGED <<channel, engine, cancelled, phase, done>>
    BY <1>14 DEF Quit, InLoop
  <2>2. PhasesComeFirst' /\ EngineShows'
    BY <2>1 DEF PhasesComeFirst, EngineShows
  <2> QED
    BY <2>1, <2>2 DEF OnlyOut, ShouldQuit, StepsOut
<1>15. CASE DrawFails
  <2>1. /\ UNCHANGED <<cancelled, phase, done>>
        /\ \/ pc = "loop" /\ pc' \in {"aborting", "awaiting"} /\ UNCHANGED <<channel, engine>>
           \/ pc = "cleanup" /\ pc' = "ended" /\ engine' = "lost" /\ channel' = <<>>
    BY <1>15 DEF DrawFails, InLoop
  <2>2. PhasesComeFirst' /\ EngineShows'
    BY <2>1 DEF PhasesComeFirst, EngineShows
  <2>3. StepsOut' < StepsOut /\ StepsOut' <= StepsOut
    BY <2>1 DEF StepsOut
  <2> QED
    BY <2>1, <2>2, <2>3 DEF OnlyOut, ShouldQuit
<1>16. CASE AbortInit \/ AwaitInit
  <2>1. /\ pc \in {"aborting", "awaiting"} /\ UNCHANGED <<cancelled, phase, done>>
        /\ \/ pc' = "cleanup" /\ engine = "app" /\ engine' = "cleanup" /\ channel' = channel
           \/ pc' = "ended" /\ channel' = <<>>
    BY <1>16 DEF AbortInit, AwaitInit, TakeEngine, HoldsEngine
  <2>2. PhasesComeFirst' /\ EngineShows'
    BY <2>1 DEF PhasesComeFirst, EngineShows
  <2>3. StepsOut' < StepsOut /\ StepsOut' <= StepsOut
    BY <2>1 DEF StepsOut
  <2> QED
    BY <2>1, <2>2, <2>3 DEF OnlyOut
<1>17. CASE CleanupReceive
  <2>1. /\ pc = "cleanup" /\ UNCHANGED <<pc, cancelled, engine, done>>
        /\ channel # <<>> /\ channel' = Tail(channel)
    BY <1>17 DEF CleanupReceive
  <2>2. PhasesComeFirst'
    BY <1>1, <1>2, <2>1, NotOvertaken
  <2>3. ~(Quit \/ AbortInit \/ AwaitInit \/ CleanupEnds) /\ StepsOut' = StepsOut /\ StepsOut = 1
    BY <2>1 DEF Quit, InLoop, AbortInit, AwaitInit, TakeEngine, CleanupEnds, StepsOut
  <2> QED
    BY <2>1, <2>2, <2>3 DEF OnlyOut, EngineShows
<1>18. CASE CleanupEnds
  <2>1. pc = "cleanup" /\ pc' = "ended" /\ channel' = <<>> /\ done' = done
    BY <1>18 DEF CleanupEnds
  <2>2. PhasesComeFirst' /\ EngineShows'
    BY <2>1 DEF PhasesComeFirst, EngineShows
  <2> QED
    BY <2>1, <2>2 DEF OnlyOut, StepsOut
<1> QED
  BY <1>5, <1>6, <1>7, <1>8, <1>9, <1>10, <1>11, <1>12, <1>13, <1>14, <1>15, <1>16, <1>17, <1>18
  DEF Next

\* select! of the event loop and the messages of initialization never close the
\* way out: what asked the loop to end stays, the completion of all instances
\* meets a phase that lets it end the run, main() waits without a limit only for
\* a task that has ended, unless the terminal broke, and no step leads back.
THEOREM WayOutIsOpen == Spec => []WayIsOpen /\ [][OnlyOut]_vars
<1>1. Spec => []WayInv /\ [][OnlyOut]_vars
  BY WayInit, WayNext, InductiveInvariant, PTL DEF Spec
<1>2. IInv /\ WayInv => WayIsOpen
  <2> SUFFICES ASSUME IInv, WayInv
               PROVE  WayIsOpen
    OBVIOUS
  <2>1. ASSUME pc = "loop", done = Instances
        PROVE  phase \in {Running, Completed}
    <3>1. done # {}
      BY <2>1, ViewAssumption DEF Instances
    <3> QED
      BY <2>1, <3>1 DEF WayInv, EngineShows
  <2>2. ASSUME pc = "awaiting", ~broken
        PROVE  init = Sent
    <3>1. engine = "app"
      BY <2>2 DEF IInv, LeavingExplained
    <3> QED
      BY <2>2, <3>1, TuiAssumption
      DEF IInv, EngineFollowsInit, FlowTypes, Sent, Sending, InitError, Aborted
  <2> QED
    BY <2>1, <2>2 DEF WayIsOpen
<1> QED
  BY <1>1, <1>2, InductiveInvariant, PTL
=============================================================================
