------------------------------ MODULE LogStream ------------------------------
(***************************************************************************)
(* The agent's log: LogBroadcaster::broadcast(), called by several tasks   *)
(* at once (the main task and the readers of a command's stdout and        *)
(* stderr), and the StreamLogs handler, which replays a bounded buffer and *)
(* then follows a bounded broadcast channel until the shutdown token.      *)
(*                                                                         *)
(* broadcast() does not wait, but it runs on a multi-threaded runtime, so  *)
(* its three effects (try_lock, push, send) interleave with those of other *)
(* writers and with the handler.  Bound: Lines lines are written.          *)
(***************************************************************************)
EXTENDS Naturals, Sequences, FiniteSets, Functions

CONSTANTS
  Writers,      \* tasks that write log lines
  Clients,      \* StreamLogs calls
  Lines,        \* lines that are written (bound)
  BufferSize,   \* LOG_BUFFER_SIZE
  Capacity      \* capacity of the broadcast channel

ASSUME SizesAssumption ==
  /\ Lines \in Nat
  /\ BufferSize \in Nat \ {0}
  /\ Capacity \in Nat \ {0}
ASSUME FreeAssumption == "free" \notin Writers \cup Clients
ASSUME CallsAssumption == IsFiniteSet(Clients)

VARIABLES
  wpc,         \* where each writer is in broadcast()
  written,     \* lines each writer has begun to write
  lock,        \* who holds the buffer's mutex, or "free"
  buffer,      \* LogBroadcaster.buffer
  sent,        \* every line sent on the channel; it keeps the last Capacity
  skipped,     \* history: lines not buffered because the lock was taken
  cpc,         \* where each StreamLogs call is
  copied,      \* `buffered`, the call's copy of the buffer
  behind,      \* history: Len(sent) when the copy was made
  from,        \* position in `sent` at which the receiver subscribed
  next,        \* position of the receiver
  delivered,   \* lines the client got, in order
  dropped,     \* LogStreamService.dropped_messages, one counter for all calls
  stopped      \* is the shutdown token cancelled?

writerVars == <<wpc, written, skipped>>
streamVars == <<cpc, copied, behind, from, next, delivered, dropped>>
vars == <<wpc, written, lock, buffer, sent, skipped, cpc, copied, behind, from,
          next, delivered, dropped, stopped>>

\* The n-th line of a writer.
Line == Writers \X Nat

TypeOK ==
  /\ wpc \in [Writers -> {"idle", "pushing", "sending"}]
  /\ written \in [Writers -> Nat]
  /\ lock \in Writers \cup Clients \cup {"free"}
  /\ buffer \in Seq(Line) /\ Len(buffer) <= BufferSize
  /\ sent \in Seq(Line)
  /\ skipped \subseteq Line
  /\ cpc \in [Clients -> {"idle", "locking", "copying", "subscribing", "streaming", "closed"}]
  /\ copied \in [Clients -> Seq(Line)]
  /\ behind \in [Clients -> Nat] /\ from \in [Clients -> Nat] /\ next \in [Clients -> Nat]
  /\ delivered \in [Clients -> Seq(Line)]
  /\ dropped \in Nat
  /\ stopped \in BOOLEAN

Init ==
  /\ wpc = [w \in Writers |-> "idle"] /\ written = [w \in Writers |-> 0]
  /\ lock = "free" /\ buffer = <<>> /\ sent = <<>> /\ skipped = {}
  /\ cpc = [c \in Clients |-> "idle"] /\ copied = [c \in Clients |-> <<>>]
  /\ behind = [c \in Clients |-> 0]
  /\ from = [c \in Clients |-> 1] /\ next = [c \in Clients |-> 1]
  /\ delivered = [c \in Clients |-> <<>>]
  /\ dropped = 0 /\ stopped = FALSE

-----------------------------------------------------------------------------
\* broadcast()

Current(w) == <<w, written[w]>>

SumOf(f) == FoldFunction(LAMBDA a, b : a + b, 0, f)

NextLine(w) ==
  /\ wpc[w] = "idle" /\ SumOf(written) < Lines
  /\ written' = [written EXCEPT ![w] = @ + 1]

LockBuffer(w) ==
  /\ NextLine(w)
  /\ lock = "free" /\ lock' = w
  /\ wpc' = [wpc EXCEPT ![w] = "pushing"]
  /\ UNCHANGED <<buffer, sent, skipped, streamVars, stopped>>

\* try_lock() fails: the line is sent but never buffered.
SkipBuffer(w) ==
  /\ NextLine(w)
  /\ lock # "free" /\ UNCHANGED lock
  /\ wpc' = [wpc EXCEPT ![w] = "sending"]
  /\ skipped' = skipped \cup {<<w, written[w] + 1>>}
  /\ UNCHANGED <<buffer, sent, streamVars, stopped>>

PushedLate(b, line) == Append(IF Len(b) > BufferSize THEN Tail(b) ELSE b, line)       \* mutant
PushedEarly(b, line) == Append(IF Len(b) + 1 >= BufferSize /\ b # <<>> THEN Tail(b) ELSE b, line)   \* mutant
Pushed(b, line) == Append(IF Len(b) >= BufferSize THEN Tail(b) ELSE b, line)

PushLine(w) ==
  /\ wpc[w] = "pushing"
  /\ wpc' = [wpc EXCEPT ![w] = "sending"]
  /\ buffer' = Pushed(buffer, Current(w))
  /\ lock' = "free"
  /\ UNCHANGED <<written, sent, skipped, streamVars, stopped>>

SendLine(w) ==
  /\ wpc[w] = "sending"
  /\ wpc' = [wpc EXCEPT ![w] = "idle"]
  /\ sent' = Append(sent, Current(w))
  /\ UNCHANGED <<written, lock, buffer, skipped, streamVars, stopped>>

-----------------------------------------------------------------------------
\* stream_logs()

Move(c, here, there) == cpc[c] = here /\ cpc' = [cpc EXCEPT ![c] = there]

\* A request that names this run and instance type; the others are refused.
Connect(c) ==
  /\ ~stopped
  /\ Move(c, "idle", "locking")
  /\ UNCHANGED <<writerVars, lock, buffer, sent, copied, behind, from, next, delivered, dropped, stopped>>

AwaitLock(c) ==
  /\ Move(c, "locking", "copying")
  /\ lock = "free" /\ lock' = c
  /\ UNCHANGED <<writerVars, buffer, sent, copied, behind, from, next, delivered, dropped, stopped>>

CopyBuffer(c) ==
  /\ Move(c, "copying", "subscribing")
  /\ copied' = [copied EXCEPT ![c] = buffer]
  /\ behind' = [behind EXCEPT ![c] = Len(sent)]
  /\ lock' = "free"
  /\ UNCHANGED <<writerVars, buffer, sent, from, next, delivered, dropped, stopped>>

\* mutant: a receiver made when the broadcaster was, not by resubscribing
SubscribeFromStart(c) ==
  /\ Move(c, "subscribing", "streaming")
  /\ from' = [from EXCEPT ![c] = 1] /\ next' = [next EXCEPT ![c] = 1]
  /\ UNCHANGED <<writerVars, lock, buffer, sent, copied, behind, delivered, dropped, stopped>>

\* A new receiver starts after the last line sent.
Subscribe(c) ==
  /\ Move(c, "subscribing", "streaming")
  /\ from' = [from EXCEPT ![c] = Len(sent) + 1]
  /\ next' = [next EXCEPT ![c] = Len(sent) + 1]
  /\ UNCHANGED <<writerVars, lock, buffer, sent, copied, behind, delivered, dropped, stopped>>

ReplayedAny(c) == TRUE   \* mutant
Replayed(c) == Len(delivered[c]) >= Len(copied[c])

\* The oldest line the channel still holds.
Oldest == IF Len(sent) > Capacity THEN Len(sent) - Capacity + 1 ELSE 1

Replay(c) ==
  /\ cpc[c] = "streaming" /\ Len(delivered[c]) < Len(copied[c])
  /\ delivered' = [delivered EXCEPT ![c] = Append(@, copied[c][Len(@) + 1])]
  /\ UNCHANGED <<writerVars, lock, buffer, sent, cpc, copied, behind, from, next, dropped, stopped>>

\* The token is looked at first (biased), then the channel.
Live(c) == cpc[c] = "streaming" /\ Replayed(c) /\ ~stopped

Receive(c) ==
  /\ Live(c)
  /\ next[c] \in Oldest .. Len(sent)
  /\ delivered' = [delivered EXCEPT ![c] = Append(@, sent[next[c]])]
  /\ next' = [next EXCEPT ![c] = @ + 1]
  /\ UNCHANGED <<writerVars, lock, buffer, sent, cpc, copied, behind, from, dropped, stopped>>

LagOnce(c) ==   \* mutant: counts the event, not the lines
  /\ Live(c)
  /\ next[c] < Oldest
  /\ dropped' = dropped + 1
  /\ next' = [next EXCEPT ![c] = Oldest]
  /\ UNCHANGED <<writerVars, lock, buffer, sent, cpc, copied, behind, from, delivered, stopped>>

Lag(c) ==
  /\ Live(c)
  /\ next[c] < Oldest
  /\ dropped' = dropped + (Oldest - next[c])
  /\ next' = [next EXCEPT ![c] = Oldest]
  /\ UNCHANGED <<writerVars, lock, buffer, sent, cpc, copied, behind, from, delivered, stopped>>

\* What the channel still holds for the call is lost with it, and not counted.
Close(c) ==
  /\ stopped /\ Replayed(c)
  /\ Move(c, "streaming", "closed")
  /\ UNCHANGED <<writerVars, lock, buffer, sent, copied, behind, from, next, delivered, dropped, stopped>>

\* The client goes away: the call is dropped where it waits.
Disconnect(c) ==
  /\ cpc[c] \in {"locking", "streaming"}
  /\ cpc' = [cpc EXCEPT ![c] = "closed"]
  /\ UNCHANGED <<writerVars, lock, buffer, sent, copied, behind, from, next, delivered, dropped, stopped>>

\* The run ends or is cancelled; a build in progress goes on writing.
Shutdown ==
  /\ ~stopped /\ stopped' = TRUE
  /\ UNCHANGED <<writerVars, lock, buffer, sent, streamVars>>

-----------------------------------------------------------------------------
Write(w) == LockBuffer(w) \/ SkipBuffer(w) \/ PushLine(w) \/ SendLine(w)

Serve(c) ==
  AwaitLock(c) \/ CopyBuffer(c) \/ Subscribe(c) \/ Replay(c) \/ Receive(c) \/ Lag(c) \/ Close(c)

Next ==
  \/ \E w \in Writers : Write(w)
  \/ \E c \in Clients : Connect(c) \/ Serve(c) \/ Disconnect(c)
  \/ Shutdown

Spec == Init /\ [][Next]_vars

-----------------------------------------------------------------------------
(***************************************************************************)
(* Properties                                                              *)
(***************************************************************************)

Twice(c) == Range(copied[c]) \cap {sent[i] : i \in from[c] .. (next[c] - 1)}

\* A client sees the lines of one writer in the order they were written, also
\* where the replayed buffer ends and the live channel begins, and whatever
\* was skipped, evicted or lagged over in between.
WriterOrder ==
  \A c \in Clients : \A i, j \in DOMAIN delivered[c] :
    i < j /\ delivered[c][i][1] = delivered[c][j][1]
      => delivered[c][i][2] <= delivered[c][j][2]

\* A line can come twice, from the buffer and from the channel, although the
\* handler copies the buffer "BEFORE subscribing to avoid duplicates": but only
\* the one its writer was about to send when the buffer was copied.
OneRepeatPerWriter ==
  \A c \in Clients : \A x, y \in Twice(c) : x[1] = y[1] => x = y

\* While the buffer has not overflowed, every line that was sent before it was
\* copied is replayed, unless try_lock() found the mutex taken: push comes
\* before send, so the copy is never behind the channel.
ReplayCoversThePast ==
  \A c \in Clients :
    cpc[c] \in {"subscribing", "streaming"} /\ Len(copied[c]) < BufferSize
      => \A i \in 1 .. behind[c] : sent[i] \in Range(copied[c]) \cup skipped

\* Every line sent since a call subscribed was given to its client, is in the
\* counter that all calls share, or was not read by the call.  A call still
\* streaming may yet read what it has not read; one that ended, with the run
\* (the token is looked at before the channel) or with its client, has lost it,
\* and that loss is in no count.
LiveLines(c) == IF Replayed(c) THEN Len(delivered[c]) - Len(copied[c]) ELSE 0
SentSince(c) == Len(sent) + 1 - from[c]
Unread(c) == Len(sent) + 1 - next[c]

DroppedIsExact ==
  dropped = SumOf([c \in Clients |-> SentSince(c) - LiveLines(c) - Unread(c)])
=============================================================================
