--------------------------- MODULE LogStream_proofs ---------------------------
(***************************************************************************)
(* Theorems about LogStream, for any writers, clients, buffer and channel: *)
(* what a client sees of one writer is in order, and what is replayed has  *)
(* no hole that try_lock() or the buffer's size does not explain; and the  *)
(* counter of lost lines is a sum over the clients, followed by induction  *)
(* over the set of them.                                                   *)
(***************************************************************************)
EXTENDS LogStream, FiniteSetTheorems, TLAPS

InOrder(s) ==
  \A i, j \in DOMAIN s : i < j /\ s[i][1] = s[j][1] => s[i][2] <= s[j][2]

NotAhead(s) == \A i \in DOMAIN s : s[i][2] <= written[s[i][1]]

\* Each writer pushes and sends its lines one after the other.
WritersInOrder ==
  /\ InOrder(buffer) /\ InOrder(sent) /\ NotAhead(buffer) /\ NotAhead(sent)

\* What is sent was pushed or skipped; and the buffer is full once it has evicted.
NothingEvicted ==
  Len(buffer) < BufferSize =>
    /\ \A i \in DOMAIN sent : sent[i] \in Range(buffer) \cup skipped
    /\ \A w \in Writers : wpc[w] = "sending" => Current(w) \in Range(buffer) \cup skipped

\* A copy is as good as the buffer was.
CopyIsGood(c) ==
  /\ InOrder(copied[c]) /\ NotAhead(copied[c])
  /\ behind[c] <= Len(sent)
  /\ cpc[c] \in {"idle", "locking", "copying"} => copied[c] = <<>>
  /\ cpc[c] \in {"subscribing", "streaming"} /\ Len(copied[c]) < BufferSize
       => \A i \in 1 .. behind[c] : sent[i] \in Range(copied[c]) \cup skipped

\* The channel goes on where the copy ended, or earlier, never later.
ChannelFollows(c) ==
  /\ from[c] \in 1 .. next[c] /\ next[c] <= Len(sent) + 1
  /\ next[c] # from[c] => Replayed(c)
  /\ cpc[c] \in {"idle", "locking", "copying", "subscribing"} => delivered[c] = <<>> /\ next[c] = from[c]
  /\ cpc[c] \in {"streaming", "closed"} =>
       \A k \in from[c] .. Len(sent), l \in DOMAIN copied[c] :
         copied[c][l][1] = sent[k][1] => copied[c][l][2] <= sent[k][2]

\* What was delivered is the copy, then lines of the channel.
DeliveredExplained(c) ==
  /\ InOrder(delivered[c])
  /\ \A i \in DOMAIN delivered[c] :
       IF i <= Len(copied[c]) THEN delivered[c][i] = copied[c][i]
                              ELSE \E k \in from[c] .. next[c] - 1 : delivered[c][i] = sent[k]

Clean(c) == CopyIsGood(c) /\ ChannelFollows(c) /\ DeliveredExplained(c)

IInv == TypeOK /\ WritersInOrder /\ NothingEvicted /\ \A c \in Clients : Clean(c)

-----------------------------------------------------------------------------
\* Sequences.
LEMMA AppendFacts ==
  ASSUME NEW X, NEW s \in Seq(X), NEW e \in X
  PROVE  /\ Append(s, e) \in Seq(X) /\ Len(Append(s, e)) = Len(s) + 1 /\ Len(s) \in Nat
         /\ DOMAIN s = 1 .. Len(s) /\ DOMAIN Append(s, e) = 1 .. Len(s) + 1
         /\ \A i \in 1 .. Len(s) : Append(s, e)[i] = s[i]
         /\ Append(s, e)[Len(s) + 1] = e
         /\ Range(Append(s, e)) = Range(s) \cup {e}
<1>1. /\ Append(s, e) \in Seq(X) /\ Len(Append(s, e)) = Len(s) + 1 /\ Len(s) \in Nat
      /\ DOMAIN s = 1 .. Len(s) /\ DOMAIN Append(s, e) = 1 .. Len(s) + 1
      /\ \A i \in 1 .. Len(s) : Append(s, e)[i] = s[i]
      /\ Append(s, e)[Len(s) + 1] = e
  OBVIOUS
<1>2. Range(Append(s, e)) = Range(s) \cup {e}
  <2>1. 1 .. Len(s) + 1 = (1 .. Len(s)) \cup {Len(s) + 1}
    BY <1>1
  <2> QED
    BY <1>1, <2>1 DEF Range
<1> QED
  BY <1>1, <1>2

LEMMA TailFacts ==
  ASSUME NEW X, NEW s \in Seq(X), s # <<>>
  PROVE  /\ Tail(s) \in Seq(X) /\ Len(Tail(s)) = Len(s) - 1 /\ Len(s) \in Nat \ {0}
         /\ DOMAIN s = 1 .. Len(s) /\ DOMAIN Tail(s) = 1 .. Len(s) - 1
         /\ \A i \in 1 .. Len(s) - 1 : Tail(s)[i] = s[i + 1] /\ i + 1 \in DOMAIN s
OBVIOUS

LEMMA OrderedAppend ==
  ASSUME NEW s \in Seq(Line), NEW e \in Line, InOrder(s),
         \A i \in DOMAIN s : s[i][1] = e[1] => s[i][2] <= e[2]
  PROVE  InOrder(Append(s, e))
<1> SUFFICES ASSUME NEW i \in DOMAIN Append(s, e), NEW j \in DOMAIN Append(s, e), i < j,
                    Append(s, e)[i][1] = Append(s, e)[j][1]
             PROVE  Append(s, e)[i][2] <= Append(s, e)[j][2]
  BY DEF InOrder
<1>1. i \in DOMAIN s /\ Append(s, e)[i] = s[i]
  BY AppendFacts
<1>2. CASE j \in DOMAIN s
  BY <1>1, <1>2, AppendFacts DEF InOrder
<1>3. CASE j = Len(s) + 1
  BY <1>1, <1>3, AppendFacts
<1> QED
  BY <1>2, <1>3, AppendFacts

\* One line more in the buffer, and perhaps one less.
LEMMA PushedFacts ==
  ASSUME NEW b \in Seq(Line), NEW e \in Line, Len(b) <= BufferSize, InOrder(b), NotAhead(b),
         e[2] = written[e[1]]
  PROVE  /\ Pushed(b, e) \in Seq(Line) /\ Len(Pushed(b, e)) <= BufferSize
         /\ InOrder(Pushed(b, e)) /\ NotAhead(Pushed(b, e))
         /\ Len(Pushed(b, e)) < BufferSize =>
              Len(b) < BufferSize /\ Range(Pushed(b, e)) = Range(b) \cup {e}
<1> DEFINE r == IF Len(b) >= BufferSize THEN Tail(b) ELSE b
<1>1. Len(b) \in Nat /\ BufferSize \in Nat \ {0}
  BY SizesAssumption
<1>2. CASE Len(b) < BufferSize
  <2>1. Pushed(b, e) = Append(b, e)
    BY <1>1, <1>2 DEF Pushed
  <2>2. \A i \in DOMAIN b : b[i][1] = e[1] => b[i][2] <= e[2]
    BY DEF NotAhead
  <2>3. InOrder(Append(b, e))
    BY <2>2, OrderedAppend
  <2>4. NotAhead(Append(b, e))
    <3> SUFFICES ASSUME NEW i \in DOMAIN Append(b, e)
                 PROVE  Append(b, e)[i][2] <= written[Append(b, e)[i][1]]
      BY DEF NotAhead
    <3>1. e[2] <= e[2]
      BY DEF Line
    <3> QED
      BY <3>1, AppendFacts DEF NotAhead
  <2> QED
    BY <1>1, <1>2, <2>1, <2>3, <2>4, AppendFacts
<1>3. CASE Len(b) = BufferSize
  <2>1. b # <<>> /\ Pushed(b, e) = Append(Tail(b), e)
    BY <1>1, <1>3 DEF Pushed
  <2>2. /\ Tail(b) \in Seq(Line) /\ Len(Tail(b)) = Len(b) - 1
        /\ \A i \in DOMAIN Tail(b) : Tail(b)[i] = b[i + 1] /\ i + 1 \in DOMAIN b /\ i \in Nat
    BY <1>1, <2>1, TailFacts
  <2>3. InOrder(Tail(b))
    BY <2>2 DEF InOrder
  <2>4. \A i \in DOMAIN Tail(b) : Tail(b)[i][1] = e[1] => Tail(b)[i][2] <= e[2]
    BY <2>2 DEF NotAhead
  <2>5. InOrder(Append(Tail(b), e))
    BY <2>2, <2>3, <2>4, OrderedAppend
  <2>6. NotAhead(Append(Tail(b), e))
    <3> SUFFICES ASSUME NEW i \in DOMAIN Append(Tail(b), e)
                 PROVE  Append(Tail(b), e)[i][2] <= written[Append(Tail(b), e)[i][1]]
      BY DEF NotAhead
    <3>1. e[2] <= e[2]
      BY DEF Line
    <3>2. CASE i \in DOMAIN Tail(b)
      BY <2>2, <3>2, AppendFacts DEF NotAhead
    <3>3. CASE i = Len(Tail(b)) + 1
      BY <2>2, <3>1, <3>3, AppendFacts
    <3> QED
      BY <2>2, <3>2, <3>3, AppendFacts
  <2> QED
    BY <1>1, <1>3, <2>1, <2>2, <2>5, <2>6, AppendFacts
<1> QED
  BY <1>1, <1>2, <1>3

-----------------------------------------------------------------------------
LEMMA InitInv == Init => IInv
<1> SUFFICES ASSUME Init
             PROVE  IInv
  OBVIOUS
<1> USE SizesAssumption DEF Init
<1>1. TypeOK
  <2>1. <<>> \in Seq(Line) /\ Len(<<>>) = 0 /\ BufferSize >= 0
    OBVIOUS
  <2> QED
    BY <2>1 DEF TypeOK
<1>2. WritersInOrder /\ NothingEvicted
  BY DEF WritersInOrder, NothingEvicted, InOrder, NotAhead
<1>3. \A c \in Clients : Clean(c)
  BY DEF Clean, CopyIsGood, ChannelFollows, DeliveredExplained, InOrder, NotAhead, Replayed
<1> QED
  BY <1>1, <1>2, <1>3 DEF IInv

LEMMA SentGrown ==
  ASSUME sent \in Seq(Line), written \in [Writers -> Nat],
         sent' = sent \/ \E w \in Writers : sent' = Append(sent, Current(w))
  PROVE  /\ Len(sent') \in Nat /\ Len(sent) <= Len(sent')
         /\ DOMAIN sent = 1 .. Len(sent) /\ DOMAIN sent' = 1 .. Len(sent')
         /\ \A k \in 1 .. Len(sent) : sent'[k] = sent[k]
         /\ \A k \in 1 .. Len(sent') : k > Len(sent) => \E w \in Writers : sent'[k] = Current(w)
<1>1. CASE sent' = sent
  <2>1. Len(sent) \in Nat /\ DOMAIN sent = 1 .. Len(sent)
    OBVIOUS
  <2> QED
    BY <1>1, <2>1
<1>2. CASE \E w \in Writers : sent' = Append(sent, Current(w))
  <2>1. PICK w \in Writers : sent' = Append(sent, Current(w))
    BY <1>2
  <2>2. Current(w) \in Line
    BY DEF Current, Line
  <2>3. /\ Len(sent') = Len(sent) + 1 /\ Len(sent) \in Nat
        /\ DOMAIN sent = 1 .. Len(sent) /\ DOMAIN sent' = 1 .. Len(sent) + 1
        /\ \A k \in 1 .. Len(sent) : sent'[k] = sent[k]
        /\ sent'[Len(sent) + 1] = Current(w)
    BY <2>1, <2>2, AppendFacts
  <2>4. \A k \in 1 .. Len(sent) + 1 : k > Len(sent) => k = Len(sent) + 1
    BY <2>3
  <2> QED
    BY <2>3, <2>4
<1> QED
  BY <1>1, <1>2

\* A client that does not move: others write, or other clients move.
LEMMA CleanKept ==
  ASSUME IInv, NEW c \in Clients,
         cpc'[c] = cpc[c], copied'[c] = copied[c], behind'[c] = behind[c], from'[c] = from[c],
         next'[c] = next[c], delivered'[c] = delivered[c],
         written' \in [Writers -> Nat], \A w \in Writers : written[w] <= written'[w],
         skipped \subseteq skipped',
         /\ Len(sent') \in Nat /\ Len(sent) <= Len(sent')
         /\ DOMAIN sent = 1 .. Len(sent) /\ DOMAIN sent' = 1 .. Len(sent')
         /\ \A k \in 1 .. Len(sent) : sent'[k] = sent[k]
         /\ \A k \in 1 .. Len(sent') : k > Len(sent) => \E w \in Writers : sent'[k] = Current(w)
  PROVE  Clean(c)'
<1>1. /\ sent \in Seq(Line) /\ copied[c] \in Seq(Line) /\ delivered[c] \in Seq(Line)
      /\ behind[c] \in Nat /\ from[c] \in Nat /\ next[c] \in Nat /\ written \in [Writers -> Nat]
      /\ Len(sent) \in Nat /\ Len(copied[c]) \in Nat
  BY DEF IInv, TypeOK
<1>3. Clean(c)
  BY DEF IInv
<1>4. CopyIsGood(c)'
  <2>1. InOrder(copied[c])'
    BY <1>3 DEF Clean, CopyIsGood, InOrder
  <2>2. NotAhead(copied[c])'
    <3> SUFFICES ASSUME NEW l \in DOMAIN copied[c]
                 PROVE  copied[c][l][2] <= written'[copied[c][l][1]]
      BY DEF NotAhead
    <3>1. copied[c][l] \in Line
      BY <1>1
    <3>2. copied[c][l][1] \in Writers /\ copied[c][l][2] \in Nat
      BY <3>1 DEF Line
    <3>3. copied[c][l][2] <= written[copied[c][l][1]]
      BY <1>3 DEF Clean, CopyIsGood, NotAhead
    <3> QED
      BY <1>1, <3>2, <3>3
  <2>3. behind'[c] <= Len(sent')
    BY <1>1, <1>3 DEF Clean, CopyIsGood
  <2>4. \A i \in 1 .. behind[c] : sent'[i] = sent[i]
    BY <1>1, <1>3 DEF Clean, CopyIsGood
  <2>5. behind'[c] = behind[c] /\ copied'[c] = copied[c] /\ cpc'[c] = cpc[c]
    OBVIOUS
  <2>6. cpc[c] \in {"subscribing", "streaming"} /\ Len(copied[c]) < BufferSize
          => \A i \in 1 .. behind[c] : sent'[i] \in Range(copied[c]) \cup skipped'
    BY <1>3, <2>4 DEF Clean, CopyIsGood
  <2>7. cpc[c] \in {"idle", "locking", "copying"} => copied[c] = <<>>
    BY <1>3 DEF Clean, CopyIsGood
  <2> QED
    BY <2>1, <2>2, <2>3, <2>5, <2>6, <2>7 DEF CopyIsGood
<1>5. ChannelFollows(c)'
  <2>1. cpc[c] \in {"streaming", "closed"} =>
          \A k \in from[c] .. Len(sent'), l \in DOMAIN copied[c] :
             copied[c][l][1] = sent'[k][1] => copied[c][l][2] <= sent'[k][2]
    <3> SUFFICES ASSUME cpc[c] \in {"streaming", "closed"},
                        NEW k \in from[c] .. Len(sent'), NEW l \in DOMAIN copied[c],
                        copied[c][l][1] = sent'[k][1]
                 PROVE  copied[c][l][2] <= sent'[k][2]
      OBVIOUS
    <3>1. k \in Nat /\ from[c] >= 1 /\ k >= 1
      BY <1>1, <1>3 DEF Clean, ChannelFollows
    <3>2. CASE k <= Len(sent)
      <4>1. k \in from[c] .. Len(sent) /\ sent'[k] = sent[k]
        BY <1>1, <3>1, <3>2
      <4> QED
        BY <1>3, <4>1 DEF Clean, ChannelFollows
    <3>3. CASE k > Len(sent)
      <4>1. PICK w \in Writers : sent'[k] = Current(w)
        BY <3>1, <3>3
      <4>2. sent'[k][1] = w /\ sent'[k][2] = written[w]
        BY <4>1 DEF Current
      <4> QED
        BY <1>3, <4>2 DEF Clean, CopyIsGood, NotAhead
    <3> QED
      BY <1>1, <3>1, <3>2, <3>3
  <2> QED
    BY <1>1, <1>3, <2>1 DEF Clean, ChannelFollows, Replayed
<1>6. DeliveredExplained(c)'
  <2>1. from[c] \in 1 .. next[c] /\ next[c] <= Len(sent) + 1
    BY <1>3 DEF Clean, ChannelFollows
  <2>2. \A k \in from[c] .. next[c] - 1 : sent'[k] = sent[k]
    BY <1>1, <2>1
  <2> QED
    BY <1>3, <2>2 DEF Clean, DeliveredExplained, InOrder
<1> QED
  BY <1>4, <1>5, <1>6 DEF Clean

\* Writers.
LEMMA WriteInv ==
  ASSUME IInv, NEW w \in Writers, Write(w)
  PROVE  IInv'
<1> USE SizesAssumption, FreeAssumption
<1>1. /\ written \in [Writers -> Nat] /\ wpc \in [Writers -> {"idle", "pushing", "sending"}]
      /\ UNCHANGED <<cpc, copied, behind, from, next, delivered, dropped, stopped>>
  BY DEF IInv, TypeOK, Write, LockBuffer, SkipBuffer, PushLine, SendLine, streamVars
<1>2. CASE LockBuffer(w) \/ SkipBuffer(w)
  <2>1. /\ wpc[w] = "idle" /\ written' = [written EXCEPT ![w] = @ + 1] /\ UNCHANGED <<buffer, sent>>
        /\ \/ wpc' = [wpc EXCEPT ![w] = "pushing"] /\ lock' = w /\ UNCHANGED skipped
           \/ wpc' = [wpc EXCEPT ![w] = "sending"] /\ lock' = lock
              /\ skipped' = skipped \cup {<<w, written[w] + 1>>}
    BY <1>2 DEF LockBuffer, SkipBuffer, NextLine
  <2>2. /\ written' \in [Writers -> Nat] /\ written'[w] = written[w] + 1
        /\ \A v \in Writers : written[v] <= written'[v] /\ (v # w => written'[v] = written[v])
    BY <1>1, <2>1
  <2>3. TypeOK'
    <3>1. lock' \in Writers \cup Clients \cup {"free"} /\ wpc' \in [Writers -> {"idle", "pushing", "sending"}]
      BY <1>1, <2>1 DEF IInv, TypeOK
    <3>2. skipped' \subseteq Line
      BY <1>1, <2>1, <2>2 DEF IInv, TypeOK, Line
    <3> QED
      BY <1>1, <2>1, <2>2, <3>1, <3>2 DEF IInv, TypeOK
  <2>4. ASSUME NEW s \in Seq(Line), NotAhead(s)
        PROVE  \A i \in DOMAIN s : s[i][2] <= written'[s[i][1]]
    <3> SUFFICES ASSUME NEW i \in DOMAIN s
                 PROVE  s[i][2] <= written'[s[i][1]]
      OBVIOUS
    <3>1. s[i] \in Line
      OBVIOUS
    <3>2. s[i][1] \in Writers /\ s[i][2] \in Nat /\ s[i][2] <= written[s[i][1]]
      BY <2>4, <3>1 DEF Line, NotAhead
    <3> QED
      BY <1>1, <2>2, <3>2
  <2>5. WritersInOrder'
    <3>1. NotAhead(buffer)' /\ NotAhead(sent)'
      BY <2>1, <2>4 DEF IInv, TypeOK, WritersInOrder, NotAhead
    <3> QED
      BY <2>1, <3>1 DEF IInv, WritersInOrder, InOrder
  <2>6. NothingEvicted'
    <3> SUFFICES ASSUME Len(buffer) < BufferSize
                 PROVE  /\ \A i \in DOMAIN sent : sent[i] \in Range(buffer) \cup skipped'
                        /\ \A v \in Writers : wpc'[v] = "sending" => Current(v)' \in Range(buffer) \cup skipped'
      BY <2>1 DEF NothingEvicted
    <3>1. \A v \in Writers : v # w => wpc'[v] = wpc[v] /\ Current(v)' = Current(v)
      BY <1>1, <2>1, <2>2 DEF Current
    <3>2. wpc'[w] = "sending" => Current(w)' \in skipped'
      BY <1>1, <2>1, <2>2 DEF Current
    <3>3. skipped \subseteq skipped'
      BY <2>1
    <3> QED
      BY <3>1, <3>2, <3>3 DEF IInv, NothingEvicted
  <2>7. \A c \in Clients : Clean(c)'
    BY <1>1, <2>1, <2>2, SentGrown, CleanKept DEF IInv, TypeOK
  <2> QED
    BY <2>3, <2>5, <2>6, <2>7 DEF IInv
<1>3. CASE PushLine(w)
  <2>1. /\ wpc[w] = "pushing" /\ wpc' = [wpc EXCEPT ![w] = "sending"]
        /\ buffer' = Pushed(buffer, Current(w)) /\ lock' = "free" /\ UNCHANGED <<written, sent, skipped>>
    BY <1>3 DEF PushLine
  <2>2. Current(w) \in Line /\ Current(w)[1] = w /\ Current(w)[2] = written[w]
    BY <1>1 DEF Current, Line
  <2>3. /\ buffer' \in Seq(Line) /\ Len(buffer') <= BufferSize /\ InOrder(buffer') /\ NotAhead(buffer')
        /\ Len(buffer') < BufferSize =>
             Len(buffer) < BufferSize /\ Range(buffer') = Range(buffer) \cup {Current(w)}
    BY <2>1, <2>2, PushedFacts DEF IInv, TypeOK, WritersInOrder
  <2>4. TypeOK'
    BY <1>1, <2>1, <2>3 DEF IInv, TypeOK
  <2>5. WritersInOrder'
    BY <2>1, <2>3 DEF IInv, WritersInOrder, InOrder, NotAhead
  <2>6. NothingEvicted'
    BY <1>1, <2>1, <2>3 DEF IInv, NothingEvicted, Current
  <2>7. \A c \in Clients : Clean(c)'
    <3>1. \A v \in Writers : written[v] <= written[v]
      BY <1>1
    <3> QED
      BY <1>1, <2>1, <3>1, SentGrown, CleanKept DEF IInv, TypeOK
  <2> QED
    BY <2>4, <2>5, <2>6, <2>7 DEF IInv
<1>4. CASE SendLine(w)
  <2>1. /\ wpc[w] = "sending" /\ wpc' = [wpc EXCEPT ![w] = "idle"] /\ sent' = Append(sent, Current(w))
        /\ UNCHANGED <<written, lock, buffer, skipped>>
    BY <1>4 DEF SendLine
  <2>2. Current(w) \in Line /\ Current(w)[1] = w /\ Current(w)[2] = written[w] /\ written[w] <= written[w]
    BY <1>1 DEF Current, Line
  <2>3. /\ sent \in Seq(Line) /\ InOrder(sent) /\ NotAhead(sent)
    BY DEF IInv, TypeOK, WritersInOrder
  <2>4. InOrder(sent')
    BY <2>1, <2>2, <2>3, OrderedAppend DEF NotAhead
  <2>5. \A i \in DOMAIN sent' : sent'[i] = Current(w) \/ (i \in DOMAIN sent /\ sent'[i] = sent[i])
    BY <2>1, <2>2, <2>3, AppendFacts
  <2>6. sent' \in Seq(Line)
    BY <2>1, <2>2, <2>3, AppendFacts
  <2>7. TypeOK'
    BY <1>1, <2>1, <2>6 DEF IInv, TypeOK
  <2>8. WritersInOrder'
    BY <2>1, <2>2, <2>3, <2>4, <2>5 DEF IInv, WritersInOrder, InOrder, NotAhead
  <2>9. NothingEvicted'
    BY <1>1, <2>1, <2>5 DEF IInv, NothingEvicted, Current
  <2>10. \A c \in Clients : Clean(c)'
    <3>1. \A v \in Writers : written[v] <= written[v]
      BY <1>1
    <3> QED
      BY <1>1, <2>1, <3>1, SentGrown, CleanKept DEF IInv, TypeOK
  <2> QED
    BY <2>7, <2>8, <2>9, <2>10 DEF IInv
<1> QED
  BY <1>2, <1>3, <1>4 DEF Write

\* Of a client that moves, only that it stays clean is left to show.
LEMMA OthersKept ==
  ASSUME IInv, NEW c \in Clients, TypeOK', Clean(c)',
         UNCHANGED <<wpc, written, buffer, sent, skipped>>,
         \A d \in Clients \ {c} :
           /\ cpc'[d] = cpc[d] /\ copied'[d] = copied[d] /\ behind'[d] = behind[d] /\ from'[d] = from[d]
           /\ next'[d] = next[d] /\ delivered'[d] = delivered[d]
  PROVE  IInv'
<1>1. written' \in [Writers -> Nat] /\ \A w \in Writers : written[w] <= written'[w]
  BY DEF IInv, TypeOK
<1>2. \A d \in Clients \ {c} : Clean(d)'
  BY <1>1, SentGrown, CleanKept DEF IInv, TypeOK
<1>3. (WritersInOrder /\ NothingEvicted)'
  BY DEF IInv, WritersInOrder, NothingEvicted, InOrder, NotAhead, Current
<1> QED
  BY <1>2, <1>3 DEF IInv

\* StreamLogs calls.
LEMMA ClientInv ==
  ASSUME IInv, NEW c \in Clients, Connect(c) \/ Serve(c) \/ Disconnect(c)
  PROVE  IInv'
<1> USE SizesAssumption
<1> DEFINE Frame == UNCHANGED <<wpc, written, buffer, sent, skipped, stopped>>
<1>1. /\ sent \in Seq(Line) /\ buffer \in Seq(Line) /\ copied[c] \in Seq(Line) /\ delivered[c] \in Seq(Line)
      /\ behind[c] \in Nat /\ from[c] \in Nat /\ next[c] \in Nat /\ written \in [Writers -> Nat]
      /\ Len(sent) \in Nat /\ Len(copied[c]) \in Nat /\ Len(delivered[c]) \in Nat
      /\ DOMAIN sent = 1 .. Len(sent) /\ DOMAIN copied[c] = 1 .. Len(copied[c])
      /\ DOMAIN delivered[c] = 1 .. Len(delivered[c])
  BY DEF IInv, TypeOK
<1>2. CopyIsGood(c) /\ ChannelFollows(c) /\ DeliveredExplained(c)
  BY DEF IInv, Clean
<1>3. CASE Connect(c) \/ AwaitLock(c)
  <2>1. /\ Frame /\ UNCHANGED <<copied, behind, from, next, delivered, dropped>>
        /\ \/ cpc[c] = "idle" /\ cpc' = [cpc EXCEPT ![c] = "locking"] /\ UNCHANGED lock
           \/ cpc[c] = "locking" /\ cpc' = [cpc EXCEPT ![c] = "copying"] /\ lock' = c
    BY <1>3 DEF Connect, AwaitLock, Move, writerVars
  <2>2. TypeOK'
    BY <2>1 DEF IInv, TypeOK
  <2>3. Clean(c)'
    BY <1>2, <2>1 DEF IInv, TypeOK, Clean, CopyIsGood, ChannelFollows, DeliveredExplained, InOrder, NotAhead,
                      Replayed
  <2> QED
    BY <2>1, <2>2, <2>3, OthersKept DEF IInv, TypeOK
<1>4. CASE CopyBuffer(c)
  <2>1. /\ Frame /\ UNCHANGED <<from, next, delivered, dropped>>
        /\ cpc[c] = "copying" /\ cpc' = [cpc EXCEPT ![c] = "subscribing"] /\ lock' = "free"
        /\ copied' = [copied EXCEPT ![c] = buffer] /\ behind' = [behind EXCEPT ![c] = Len(sent)]
    BY <1>4 DEF CopyBuffer, Move, writerVars
  <2>2. TypeOK'
    BY <1>1, <2>1 DEF IInv, TypeOK
  <2>3. cpc'[c] = "subscribing" /\ copied'[c] = buffer /\ behind'[c] = Len(sent)
    BY <2>1 DEF IInv, TypeOK
  <2>4. CopyIsGood(c)'
    <3>1. InOrder(copied[c])' /\ NotAhead(copied[c])'
      BY <2>1, <2>3 DEF IInv, WritersInOrder, InOrder, NotAhead
    <3>2. Len(buffer) < BufferSize => \A i \in 1 .. Len(sent) : sent[i] \in Range(buffer) \cup skipped
      BY <1>1 DEF IInv, NothingEvicted
    <3>3. behind'[c] <= Len(sent') /\ Len(sent) <= Len(sent)
      BY <1>1, <2>1, <2>3
    <3> QED
      BY <2>1, <2>3, <3>1, <3>2, <3>3 DEF CopyIsGood
  <2>5. (ChannelFollows(c) /\ DeliveredExplained(c))'
    BY <1>1, <1>2, <2>1, <2>3 DEF ChannelFollows, DeliveredExplained, InOrder
  <2> QED
    BY <2>1, <2>2, <2>4, <2>5, OthersKept DEF IInv, TypeOK, Clean
<1>5. CASE Subscribe(c)
  <2>1. /\ Frame /\ UNCHANGED <<lock, copied, behind, delivered, dropped>>
        /\ cpc[c] = "subscribing" /\ cpc' = [cpc EXCEPT ![c] = "streaming"]
        /\ from' = [from EXCEPT ![c] = Len(sent) + 1] /\ next' = [next EXCEPT ![c] = Len(sent) + 1]
    BY <1>5 DEF Subscribe, Move, writerVars
  <2>2. TypeOK'
    BY <1>1, <2>1 DEF IInv, TypeOK
  <2>3. cpc'[c] = "streaming" /\ from'[c] = Len(sent) + 1 /\ next'[c] = Len(sent) + 1
    BY <2>1 DEF IInv, TypeOK
  <2>4. CopyIsGood(c)'
    BY <1>2, <2>1, <2>3 DEF CopyIsGood, InOrder, NotAhead
  <2>5. (ChannelFollows(c) /\ DeliveredExplained(c))'
    BY <1>1, <1>2, <2>1, <2>3 DEF ChannelFollows, DeliveredExplained, InOrder
  <2> QED
    BY <2>1, <2>2, <2>4, <2>5, OthersKept DEF IInv, TypeOK, Clean
<1>6. CASE Replay(c)
  <2> DEFINE n == Len(delivered[c])
             line == copied[c][n + 1]
  <2>1. /\ Frame /\ UNCHANGED <<lock, cpc, copied, behind, from, next, dropped>>
        /\ cpc[c] = "streaming" /\ n < Len(copied[c])
        /\ delivered' = [delivered EXCEPT ![c] = Append(@, line)]
    BY <1>6 DEF Replay, writerVars
  <2>2. line \in Line /\ delivered'[c] = Append(delivered[c], line)
    BY <1>1, <2>1 DEF IInv, TypeOK
  <2>3. Append(delivered[c], line) \in Seq(Line)
    BY <1>1, <2>2, AppendFacts
  <2>4. TypeOK'
    BY <2>1, <2>3 DEF IInv, TypeOK
  <2>5. CopyIsGood(c)'
    BY <1>2, <2>1 DEF CopyIsGood, InOrder, NotAhead
  <2>6. ChannelFollows(c)'
    <3>1. ~Replayed(c)
      BY <1>1, <2>1 DEF Replayed
    <3>2. next[c] = from[c]
      BY <1>2, <3>1 DEF ChannelFollows
    <3> QED
      BY <1>2, <2>1, <3>2 DEF ChannelFollows
  <2>7. DeliveredExplained(c)'
    <3>0. \A i \in 1 .. n : /\ i \in DOMAIN delivered[c] /\ i <= Len(copied[c])
                            /\ i \in DOMAIN copied[c] /\ n + 1 \in DOMAIN copied[c] /\ i < n + 1
      BY <1>1, <2>1
    <3>1. \A i \in 1 .. n : delivered[c][i] = copied[c][i]
      BY <1>2, <3>0 DEF DeliveredExplained
    <3>2. \A i \in 1 .. n : delivered[c][i][1] = line[1] => delivered[c][i][2] <= line[2]
      BY <1>2, <3>0, <3>1 DEF CopyIsGood, InOrder
    <3>3. InOrder(delivered'[c])
      BY <1>1, <1>2, <2>2, <3>2, OrderedAppend DEF DeliveredExplained
    <3>4. \A i \in DOMAIN delivered'[c] : i <= Len(copied[c]) /\ delivered'[c][i] = copied[c][i]
      BY <1>1, <2>1, <2>2, <3>1, AppendFacts
    <3> QED
      BY <2>1, <3>3, <3>4 DEF DeliveredExplained, InOrder
  <2> QED
    BY <2>1, <2>4, <2>5, <2>6, <2>7, OthersKept DEF IInv, TypeOK, Clean
<1>7. CASE Receive(c)
  <2> DEFINE n == Len(delivered[c])
             line == sent[next[c]]
  <2>1. /\ Frame /\ UNCHANGED <<lock, cpc, copied, behind, from, dropped>>
        /\ cpc[c] = "streaming" /\ n >= Len(copied[c]) /\ next[c] \in Oldest .. Len(sent)
        /\ delivered' = [delivered EXCEPT ![c] = Append(@, line)]
        /\ next' = [next EXCEPT ![c] = @ + 1]
    BY <1>7 DEF Receive, Live, Replayed, writerVars
  <2>2. from[c] \in 1 .. next[c] /\ next[c] \in from[c] .. Len(sent) /\ next[c] \in 1 .. Len(sent)
    BY <1>1, <1>2, <2>1 DEF ChannelFollows
  <2>3. line \in Line /\ delivered'[c] = Append(delivered[c], line) /\ next'[c] = next[c] + 1
    BY <1>1, <2>1, <2>2 DEF IInv, TypeOK
  <2>4. Append(delivered[c], line) \in Seq(Line) /\ Len(delivered'[c]) = n + 1
    BY <1>1, <2>3, AppendFacts
  <2>5. TypeOK'
    <3>1. next \in [Clients -> Nat] /\ delivered \in [Clients -> Seq(Line)]
      BY DEF IInv, TypeOK
    <3>2. next' \in [Clients -> Nat]
      BY <1>1, <2>1, <3>1
    <3>3. delivered' \in [Clients -> Seq(Line)]
      BY <2>1, <2>4, <3>1
    <3> QED
      BY <2>1, <3>2, <3>3 DEF IInv, TypeOK
  <2>6. CopyIsGood(c)'
    BY <1>2, <2>1 DEF CopyIsGood, InOrder, NotAhead
  <2>7. ChannelFollows(c)'
    <3>1. from[c] \in 1 .. next'[c] /\ next'[c] <= Len(sent) + 1
      BY <1>1, <2>2, <2>3
    <3>2. Len(delivered'[c]) >= Len(copied[c])
      BY <1>1, <2>1, <2>4
    <3> QED
      BY <1>2, <2>1, <3>1, <3>2 DEF ChannelFollows, Replayed
  <2>8. DeliveredExplained(c)'
    <3>1. \A i \in 1 .. n : delivered[c][i][1] = line[1] => delivered[c][i][2] <= line[2]
      <4> SUFFICES ASSUME NEW i \in 1 .. n, delivered[c][i][1] = line[1]
                   PROVE  delivered[c][i][2] <= line[2]
        OBVIOUS
      <4>1. CASE i <= Len(copied[c])
        <5>1. delivered[c][i] = copied[c][i] /\ i \in DOMAIN copied[c]
          BY <1>1, <1>2, <4>1 DEF DeliveredExplained
        <5> QED
          BY <1>2, <2>1, <2>2, <5>1 DEF ChannelFollows
      <4>2. CASE i > Len(copied[c])
        <5>0. i \in DOMAIN delivered[c] /\ ~(i <= Len(copied[c]))
          BY <1>1, <4>2
        <5>1. PICK k \in from[c] .. next[c] - 1 : delivered[c][i] = sent[k]
          BY <1>2, <5>0 DEF DeliveredExplained
        <5>2. k \in DOMAIN sent /\ next[c] \in DOMAIN sent /\ k < next[c]
          BY <1>1, <2>2
        <5> QED
          BY <5>1, <5>2 DEF IInv, WritersInOrder, InOrder
      <4> QED
        BY <1>1, <4>1, <4>2
    <3>2. InOrder(delivered'[c])
      BY <1>1, <1>2, <2>3, <3>1, OrderedAppend DEF DeliveredExplained
    <3>3. \A i \in DOMAIN delivered'[c] :
            IF i <= Len(copied[c]) THEN delivered'[c][i] = copied[c][i]
                                   ELSE \E k \in from[c] .. next[c] : delivered'[c][i] = sent[k]
      <4> SUFFICES ASSUME NEW i \in DOMAIN delivered'[c]
                   PROVE  IF i <= Len(copied[c]) THEN delivered'[c][i] = copied[c][i]
                                   ELSE \E k \in from[c] .. next[c] : delivered'[c][i] = sent[k]
        OBVIOUS
      <4>1. CASE i \in 1 .. n
        <5>1. delivered'[c][i] = delivered[c][i]
          BY <1>1, <2>3, <4>1, AppendFacts
        <5>2. from[c] .. next[c] - 1 \subseteq from[c] .. next[c]
          BY <1>1
        <5> QED
          BY <1>1, <1>2, <4>1, <5>1, <5>2 DEF DeliveredExplained
      <4>2. CASE i = n + 1
        <5>1. delivered'[c][i] = line /\ ~(i <= Len(copied[c])) /\ next[c] \in from[c] .. next[c]
          BY <1>1, <2>1, <2>2, <2>3, <4>2, AppendFacts
        <5> QED
          BY <5>1
      <4> QED
        BY <1>1, <2>3, <4>1, <4>2, AppendFacts
    <3>4. next'[c] - 1 = next[c]
      BY <1>1, <2>3
    <3>5. copied'[c] = copied[c] /\ from'[c] = from[c] /\ sent' = sent
      BY <2>1
    <3>6. InOrder(delivered[c])'
      BY <3>2 DEF InOrder
    <3> QED
      BY <3>3, <3>4, <3>5, <3>6 DEF DeliveredExplained
  <2> QED
    BY <2>1, <2>5, <2>6, <2>7, <2>8, OthersKept DEF IInv, TypeOK, Clean
<1>8. CASE Lag(c)
  <2>1. /\ Frame /\ UNCHANGED <<lock, cpc, copied, behind, from, delivered>>
        /\ cpc[c] = "streaming" /\ Replayed(c) /\ next[c] < Oldest
        /\ dropped' = dropped + (Oldest - next[c]) /\ next' = [next EXCEPT ![c] = Oldest]
    BY <1>8 DEF Lag, Live, writerVars
  <2>2. Oldest \in Nat /\ Oldest <= Len(sent) + 1 /\ next'[c] = Oldest
    BY <1>1, <2>1 DEF Oldest, IInv, TypeOK
  <2>3. TypeOK'
    <3>1. dropped \in Nat /\ next \in [Clients -> Nat]
      BY DEF IInv, TypeOK
    <3>2. dropped' \in Nat
      BY <1>1, <2>1, <2>2, <3>1
    <3>3. next' \in [Clients -> Nat]
      BY <2>1, <2>2, <3>1
    <3> QED
      BY <2>1, <3>2, <3>3 DEF IInv, TypeOK
  <2>4. CopyIsGood(c)'
    BY <1>2, <2>1 DEF CopyIsGood, InOrder, NotAhead
  <2>5. ChannelFollows(c)'
    BY <1>1, <1>2, <2>1, <2>2 DEF ChannelFollows, Replayed
  <2>6. DeliveredExplained(c)'
    <3>1. from[c] .. next[c] - 1 \subseteq from[c] .. next'[c] - 1
      BY <1>1, <2>1, <2>2
    <3> QED
      BY <1>2, <2>1, <3>1 DEF DeliveredExplained, InOrder
  <2> QED
    BY <2>1, <2>3, <2>4, <2>5, <2>6, OthersKept DEF IInv, TypeOK, Clean
<1>9. CASE Close(c) \/ Disconnect(c)
  <2>1. /\ Frame /\ UNCHANGED <<lock, copied, behind, from, next, delivered, dropped>>
        /\ cpc[c] \in {"locking", "streaming"} /\ cpc' = [cpc EXCEPT ![c] = "closed"]
    BY <1>9 DEF Close, Disconnect, Move, writerVars
  <2>2. TypeOK'
    BY <2>1 DEF IInv, TypeOK
  <2>3. cpc[c] = "locking" => copied[c] = <<>>
    BY <1>2 DEF CopyIsGood
  <2>4. Clean(c)'
    BY <1>2, <2>1, <2>3 DEF IInv, TypeOK, Clean, CopyIsGood, ChannelFollows, DeliveredExplained, InOrder,
                            NotAhead, Replayed
  <2> QED
    BY <2>1, <2>2, <2>4, OthersKept DEF IInv, TypeOK
<1> QED
  BY <1>3, <1>4, <1>5, <1>6, <1>7, <1>8, <1>9 DEF Serve

LEMMA NextInv == IInv /\ [Next]_vars => IInv'
<1> SUFFICES ASSUME IInv, [Next]_vars
             PROVE  IInv'
  OBVIOUS
<1>1. ASSUME UNCHANGED <<wpc, written, lock, buffer, sent, skipped, cpc, copied, behind, from, next,
                         delivered, dropped>>,
             stopped' \in BOOLEAN
      PROVE  IInv'
  BY <1>1 DEF IInv, TypeOK, WritersInOrder, NothingEvicted, Clean, CopyIsGood, ChannelFollows,
              DeliveredExplained, InOrder, NotAhead, Replayed, Current
<1>2. CASE UNCHANGED vars
  BY <1>1, <1>2 DEF vars, IInv, TypeOK
<1>3. CASE Shutdown
  BY <1>1, <1>3 DEF Shutdown, writerVars, streamVars
<1>4. ASSUME NEW w \in Writers, Write(w)
      PROVE  IInv'
  BY <1>4, WriteInv
<1>5. ASSUME NEW c \in Clients, Connect(c) \/ Serve(c) \/ Disconnect(c)
      PROVE  IInv'
  BY <1>5, ClientInv
<1> QED
  BY <1>2, <1>3, <1>4, <1>5 DEF Next

-----------------------------------------------------------------------------
\* The inductive invariant.
THEOREM InductiveInvariant == Spec => []IInv
BY InitInv, NextInv, PTL DEF Spec

\* The replay buffer never exceeds its size, whoever pushes; the counter of lost
\* lines never goes down below zero.
THEOREM TypeCorrect == Spec => []TypeOK
<1>1. IInv => TypeOK
  BY DEF IInv
<1> QED
  BY <1>1, InductiveInvariant, PTL

\* A client sees the lines of one writer in their order, across replay and live
\* channel and whatever is lost in between.
THEOREM WritersKeepOrder == Spec => []WriterOrder
<1>1. IInv => WriterOrder
  BY DEF IInv, Clean, DeliveredExplained, InOrder, WriterOrder
<1> QED
  BY <1>1, InductiveInvariant, PTL

\* Of each writer at most one line comes twice to a client.
THEOREM AtMostOneRepeat == Spec => []OneRepeatPerWriter
<1>1. IInv => OneRepeatPerWriter
  <2> SUFFICES ASSUME IInv, NEW c \in Clients, NEW x \in Twice(c), NEW y \in Twice(c), x[1] = y[1]
               PROVE  x = y
    BY DEF OneRepeatPerWriter
  <2>1. /\ CopyIsGood(c) /\ ChannelFollows(c) /\ copied[c] \in Seq(Line) /\ Len(sent) \in Nat
        /\ from[c] \in Nat /\ next[c] \in Nat
    BY DEF IInv, TypeOK, Clean
  <2>2. PICK k \in from[c] .. next[c] - 1, l \in DOMAIN copied[c] : x = sent[k] /\ x = copied[c][l]
    BY DEF Twice, Range
  <2>3. PICK m \in from[c] .. next[c] - 1, n \in DOMAIN copied[c] : y = sent[m] /\ y = copied[c][n]
    BY DEF Twice, Range
  <2>4. cpc[c] \in {"streaming", "closed"}
    BY <2>1, <2>2 DEF ChannelFollows, IInv, TypeOK
  <2>5. k \in from[c] .. Len(sent) /\ m \in from[c] .. Len(sent)
    BY <2>1 DEF ChannelFollows
  <2>6. x[2] <= y[2] /\ y[2] <= x[2]
    BY <2>1, <2>2, <2>3, <2>4, <2>5 DEF ChannelFollows
  <2>7. x \in Line /\ y \in Line
    BY <2>1, <2>2, <2>3
  <2>8. x[2] = y[2]
    BY <2>6, <2>7 DEF Line
  <2> QED
    BY <2>7, <2>8 DEF Line
<1> QED
  BY <1>1, InductiveInvariant, PTL

\* What was sent before the copy is in the copy, unless the buffer was full or
\* taken.
THEOREM ThePastIsReplayed == Spec => []ReplayCoversThePast
<1>1. IInv => ReplayCoversThePast
  BY DEF IInv, Clean, CopyIsGood, ReplayCoversThePast
<1> QED
  BY <1>1, InductiveInvariant, PTL

-----------------------------------------------------------------------------
\* The numbers are well founded: a set that holds 0 and with each number the
\* next one holds them all.
LEMMA SetInduction ==
  ASSUME NEW S, 0 \in S, \A n \in Nat : n \in S => n + 1 \in S
  PROVE  Nat \subseteq S
<1> DEFINE less == OpToRel(<, Nat)
           rest == Nat \ S
<1> SUFFICES ASSUME rest # {}
             PROVE  FALSE
  OBVIOUS
<1>1. IsWellFoundedOn(less, Nat)
  BY NatLessThanWellFounded
<1>2. rest \subseteq Nat
  OBVIOUS
<1> HIDE DEF less, rest
<1>3. PICK n \in rest : \A m \in rest : <<m, n>> \notin less
  BY <1>1, <1>2, WFMin
<1>4. n \in Nat /\ n # 0 /\ n - 1 \in Nat /\ (n - 1) + 1 = n
  BY DEF rest
<1>5. n - 1 \in rest
  BY <1>4 DEF rest
<1>6. <<n - 1, n>> \in less
  BY <1>4 DEF less, OpToRel
<1> QED
  BY <1>3, <1>5, <1>6

\* The sums of a function over the subsets of its domain.
Chosen(s) == CHOOSE x \in s : TRUE
AreSums(g, f) ==
  g = [s \in SUBSET DOMAIN f |-> IF s = {} THEN 0 ELSE f[Chosen(s)] + g[s \ {Chosen(s)}]]

LEMMA SumUnfolded ==
  ASSUME NEW f
  PROVE  SumOf(f) = (CHOOSE g : AreSums(g, f))[DOMAIN f]
BY DEF SumOf, FoldFunction, FoldFunctionOnSet, MapThenFoldSet, AreSums, Chosen

LEMMA ChosenFacts ==
  ASSUME NEW S, IsFiniteSet(S), NEW s \in SUBSET S, s # {}
  PROVE  /\ Chosen(s) \in s /\ s \ {Chosen(s)} \in SUBSET S
         /\ Cardinality(s) \in Nat \ {0} /\ Cardinality(s \ {Chosen(s)}) = Cardinality(s) - 1
<1>1. Chosen(s) \in s
  BY DEF Chosen
<1>2. IsFiniteSet(s)
  BY FS_Subset
<1> QED
  BY <1>1, <1>2, FS_RemoveElement, FS_CardinalityType, FS_EmptySet

\* They exist when the domain is finite.
LEMMA SumsExist ==
  ASSUME NEW f, IsFiniteSet(DOMAIN f)
  PROVE  \E g : AreSums(g, f)
<1> DEFINE S == DOMAIN f
           Body(g, s) == IF s = {} THEN 0 ELSE f[Chosen(s)] + g[s \ {Chosen(s)}]
           UpTo(n) == {s \in SUBSET S : Cardinality(s) <= n}
           Solved == {n \in Nat : \E g : \A s \in UpTo(n) : g[s] = Body(g, s)}
<1>1. \A s \in SUBSET S : Cardinality(s) \in Nat /\ (Cardinality(s) = 0 => s = {})
  BY FS_Subset, FS_CardinalityType, FS_EmptySet
<1>2. 0 \in Solved
  <2>1. \A s \in UpTo(0) : [t \in SUBSET S |-> 0][s] = Body([t \in SUBSET S |-> 0], s)
    BY <1>1
  <2> QED
    BY <2>1
<1>3. ASSUME NEW n \in Nat, n \in Solved
      PROVE  n + 1 \in Solved
  <2>1. PICK g : \A s \in UpTo(n) : g[s] = Body(g, s)
    BY <1>3
  <2>2. PICK h : h = [s \in SUBSET S |-> IF s \in UpTo(n) THEN g[s] ELSE Body(g, s)]
    OBVIOUS
  <2>3. ASSUME NEW s \in UpTo(n + 1)
        PROVE  h[s] = Body(h, s)
    <3>1. s \in SUBSET S /\ h[s] = Body(g, s)
      BY <2>1, <2>2
    <3>2. CASE s = {}
      BY <3>1, <3>2
    <3>3. CASE s # {}
      <4>1. /\ s \ {Chosen(s)} \in SUBSET S
            /\ Cardinality(s) \in Nat \ {0} /\ Cardinality(s \ {Chosen(s)}) = Cardinality(s) - 1
        BY <3>1, <3>3, ChosenFacts
      <4>2. s \ {Chosen(s)} \in UpTo(n)
        BY <4>1
      <4>3. h[s \ {Chosen(s)}] = g[s \ {Chosen(s)}]
        BY <2>2, <4>1, <4>2
      <4> QED
        BY <3>1, <3>3, <4>3
    <3> QED
      BY <3>2, <3>3
  <2> HIDE DEF Body, UpTo
  <2> QED
    BY <2>3
<1> HIDE DEF Solved
<1>4. Nat \subseteq Solved
  BY <1>2, <1>3, SetInduction
<1>5. Cardinality(S) \in Solved
  BY <1>4, FS_CardinalityType
<1>6. PICK g : \A s \in UpTo(Cardinality(S)) : g[s] = Body(g, s)
  BY <1>5 DEF Solved
<1>7. UpTo(Cardinality(S)) = SUBSET S
  BY FS_Subset
<1>8. PICK h : h = [s \in SUBSET S |-> g[s]]
  OBVIOUS
<1>9. \A s \in SUBSET S : h[s] = Body(h, s)
  <2> SUFFICES ASSUME NEW s \in SUBSET S
               PROVE  h[s] = Body(h, s)
    OBVIOUS
  <2>1. h[s] = Body(g, s)
    BY <1>6, <1>7, <1>8
  <2>2. s \ {Chosen(s)} \in SUBSET S
    OBVIOUS
  <2> QED
    BY <1>8, <2>1, <2>2
<1>10. AreSums(h, f)
  BY <1>8, <1>9 DEF AreSums
<1> QED
  BY <1>10

\* The sum is what they give for the whole domain.
LEMMA SumIsSum ==
  ASSUME NEW f, IsFiniteSet(DOMAIN f)
  PROVE  \E g : AreSums(g, f) /\ SumOf(f) = g[DOMAIN f]
<1>1. AreSums(CHOOSE g : AreSums(g, f), f)
  BY SumsExist
<1> QED
  BY <1>1, SumUnfolded

\* The sum of integers is one; a value that grows by d makes the sum grow by d.
LEMMA SumUpdated ==
  ASSUME NEW S, IsFiniteSet(S), NEW f \in [S -> Int], NEW h \in [S -> Int], NEW c \in S,
         NEW d \in Int, h[c] = f[c] + d, \A x \in S \ {c} : h[x] = f[x]
  PROVE  SumOf(f) \in Int /\ SumOf(h) = SumOf(f) + d
<1>1. PICK F : AreSums(F, f) /\ SumOf(f) = F[S]
  BY SumIsSum
<1>2. PICK H : AreSums(H, h) /\ SumOf(h) = H[S]
  BY SumIsSum
<1> DEFINE Good(s) == F[s] \in Int /\ H[s] \in Int /\ H[s] = F[s] + (IF c \in s THEN d ELSE 0)
           Fine == {n \in Nat : \A s \in SUBSET S : Cardinality(s) = n => Good(s)}
<1>3. \A s \in SUBSET S : Cardinality(s) \in Nat /\ (Cardinality(s) = 0 => s = {})
  BY FS_Subset, FS_CardinalityType, FS_EmptySet
<1>4. 0 \in Fine
  <2>1. F[{}] = 0 /\ H[{}] = 0
    BY <1>1, <1>2 DEF AreSums
  <2> QED
    BY <1>3, <2>1
<1>5. ASSUME NEW n \in Nat, n \in Fine
      PROVE  n + 1 \in Fine
  <2> SUFFICES ASSUME NEW s \in SUBSET S, Cardinality(s) = n + 1
               PROVE  Good(s)
    OBVIOUS
  <2>1. s # {}
    <3>1. Cardinality({}) = 0 /\ n + 1 # 0
      BY FS_EmptySet
    <3> QED
      BY <3>1
  <2>2. PICK x : x = Chosen(s)
    OBVIOUS
  <2>3. PICK r : r = s \ {x}
    OBVIOUS
  <2>4. x \in s /\ r \in SUBSET S /\ Cardinality(r) = n
    BY <2>1, <2>2, <2>3, ChosenFacts
  <2>5. Good(r)
    BY <1>5, <2>4
  <2>6. F[s] = f[x] + F[r] /\ H[s] = h[x] + H[r]
    BY <1>1, <1>2, <2>1, <2>2, <2>3 DEF AreSums
  <2>7. f[x] \in Int /\ h[x] \in Int /\ h[x] = f[x] + (IF x = c THEN d ELSE 0)
    BY <2>4
  <2>8. c \in s <=> c = x \/ c \in r
    BY <2>3, <2>4
  <2>9. c = x => c \notin r
    BY <2>3
  <2> QED
    BY <2>5, <2>6, <2>7, <2>8, <2>9
<1> HIDE DEF Fine
<1>6. Nat \subseteq Fine
  BY <1>4, <1>5, SetInduction
<1>7. Cardinality(S) \in Fine
  BY <1>6, FS_CardinalityType
<1>8. Good(S)
  BY <1>7 DEF Fine
<1> QED
  BY <1>1, <1>2, <1>8

\* A function that is zero everywhere has the sum zero.
LEMMA SumOfZeros ==
  ASSUME NEW S, IsFiniteSet(S)
  PROVE  SumOf([x \in S |-> 0]) = 0
<1> DEFINE f == [x \in S |-> 0]
<1>1. PICK F : AreSums(F, f) /\ SumOf(f) = F[S]
  BY SumIsSum
<1> DEFINE Fine == {n \in Nat : \A s \in SUBSET S : Cardinality(s) = n => F[s] = 0}
<1>2. 0 \in Fine
  <2>1. F[{}] = 0
    BY <1>1 DEF AreSums
  <2>2. \A s \in SUBSET S : Cardinality(s) = 0 => s = {}
    BY FS_Subset, FS_EmptySet
  <2> QED
    BY <2>1, <2>2
<1>3. ASSUME NEW n \in Nat, n \in Fine
      PROVE  n + 1 \in Fine
  <2> SUFFICES ASSUME NEW s \in SUBSET S, Cardinality(s) = n + 1
               PROVE  F[s] = 0
    OBVIOUS
  <2>1. s # {}
    <3>1. Cardinality({}) = 0 /\ n + 1 # 0
      BY FS_EmptySet
    <3> QED
      BY <3>1
  <2>2. /\ Chosen(s) \in S /\ s \ {Chosen(s)} \in SUBSET S
        /\ Cardinality(s \ {Chosen(s)}) = n
    BY <2>1, ChosenFacts
  <2>3. F[s \ {Chosen(s)}] = 0
    BY <1>3, <2>2
  <2>4. F[s] = f[Chosen(s)] + F[s \ {Chosen(s)}]
    BY <1>1, <2>1 DEF AreSums
  <2> QED
    BY <2>2, <2>3, <2>4
<1> HIDE DEF Fine
<1>4. Nat \subseteq Fine
  BY <1>2, <1>3, SetInduction
<1>5. Cardinality(S) \in Fine
  BY <1>4, FS_CardinalityType
<1> QED
  BY <1>1, <1>5 DEF Fine

-----------------------------------------------------------------------------
\* What a call has passed without giving it to its client.
Lost(c) == next[c] - from[c] - LiveLines(c)
Losses == [c \in Clients |-> Lost(c)]

\* The property, without the lines that it adds and takes away.
CountIsExact == dropped = SumOf([c \in Clients |-> next[c] - from[c] - LiveLines(c)])

LEMMA LostIsNumber == TypeOK => Losses \in [Clients -> Int]
<1>1. ASSUME TypeOK, NEW c \in Clients
      PROVE  Lost(c) \in Int
  <2>1. next[c] \in Nat /\ from[c] \in Nat
    BY <1>1 DEF TypeOK
  <2>2. delivered[c] \in Seq(Line) /\ copied[c] \in Seq(Line)
    BY <1>1 DEF TypeOK
  <2>3. Len(delivered[c]) \in Nat /\ Len(copied[c]) \in Nat
    BY <2>2
  <2>4. LiveLines(c) \in Int
    BY <2>3 DEF LiveLines
  <2> QED
    BY <2>1, <2>4 DEF Lost
<1> QED
  BY <1>1 DEF Losses

\* When one call passes d lines more, and the counter says so, it stays exact.
LEMMA CountedLoss ==
  ASSUME TypeOK, TypeOK', CountIsExact, NEW c \in Clients, NEW d \in Int,
         dropped' = dropped + d, Lost(c)' = Lost(c) + d,
         \A b \in Clients \ {c} : Lost(b)' = Lost(b)
  PROVE  CountIsExact'
<1>1. PICK f \in [Clients -> Int] : f = [b \in Clients |-> Lost(b)]
  BY LostIsNumber DEF Losses
<1>2. PICK h \in [Clients -> Int] : h = [b \in Clients |-> Lost(b)']
  <2>1. (TypeOK => Losses \in [Clients -> Int])'
    BY LostIsNumber, PTL
  <2> QED
    BY <2>1 DEF Losses
<1>3. SumOf(f) \in Int /\ SumOf(h) = SumOf(f) + d
  BY <1>1, <1>2, SumUpdated, CallsAssumption
<1>4. dropped = SumOf(f)
  BY <1>1 DEF CountIsExact, Lost
<1>5. dropped' = SumOf(h)
  BY <1>3, <1>4
<1> QED
  BY <1>2, <1>5 DEF CountIsExact, Lost

LEMMA InitExact == Init => CountIsExact
<1> SUFFICES ASSUME Init
             PROVE  CountIsExact
  OBVIOUS
<1>1. \A c \in Clients : next[c] - from[c] - LiveLines(c) = 0
  BY DEF Init, LiveLines, Replayed
<1>2. [c \in Clients |-> next[c] - from[c] - LiveLines(c)] = [c \in Clients |-> 0]
  BY <1>1
<1> QED
  BY <1>2, SumOfZeros, CallsAssumption DEF Init, CountIsExact

LEMMA NextExact == IInv /\ CountIsExact /\ [Next]_vars /\ IInv' => CountIsExact'
<1> SUFFICES ASSUME IInv, CountIsExact, [Next]_vars, IInv'
             PROVE  CountIsExact'
  OBVIOUS
<1>1. TypeOK /\ TypeOK'
  BY DEF IInv
<1>2. CASE UNCHANGED <<copied, from, next, delivered, dropped>>
  BY <1>2 DEF CountIsExact, LiveLines, Replayed
<1>3. ASSUME NEW c \in Clients
      PROVE  /\ next[c] \in Nat /\ from[c] \in Nat /\ Len(delivered[c]) \in Nat /\ Len(copied[c]) \in Nat
             /\ CopyIsGood(c) /\ ChannelFollows(c)
             /\ c \in DOMAIN next /\ c \in DOMAIN from /\ c \in DOMAIN delivered /\ c \in DOMAIN copied
             /\ delivered[c] \in Seq(Line)
  BY <1>1 DEF TypeOK, IInv, Clean
<1>4. ASSUME NEW c \in Clients, CopyBuffer(c)
      PROVE  CountIsExact'
  <2>1. copied[c] = <<>> /\ delivered[c] = <<>>
    BY <1>3, <1>4 DEF CopyBuffer, Move, CopyIsGood, ChannelFollows
  <2>2. /\ UNCHANGED <<from, next, delivered, dropped>>
        /\ \A b \in Clients \ {c} : copied'[b] = copied[b]
    BY <1>1, <1>4 DEF CopyBuffer, TypeOK
  <2>3. Len(copied'[c]) \in Nat
    BY <1>1 DEF TypeOK
  <2>4. LiveLines(c) = 0 /\ LiveLines(c)' = 0
    BY <2>1, <2>2, <2>3 DEF LiveLines, Replayed
  <2>5. Lost(c)' = Lost(c) + 0
    BY <1>3, <2>2, <2>4 DEF Lost
  <2>6. \A b \in Clients \ {c} : Lost(b)' = Lost(b)
    BY <2>2 DEF Lost, LiveLines, Replayed
  <2>7. dropped' = dropped + 0
    BY <1>1, <2>2 DEF TypeOK
  <2> QED
    BY <1>1, <2>5, <2>6, <2>7, CountedLoss
<1>5. ASSUME NEW c \in Clients, Subscribe(c)
      PROVE  CountIsExact'
  <2>1. /\ UNCHANGED <<copied, delivered, dropped>> /\ next[c] = from[c]
        /\ next' = [next EXCEPT ![c] = Len(sent) + 1] /\ from' = [from EXCEPT ![c] = Len(sent) + 1]
    BY <1>3, <1>5 DEF Subscribe, Move, ChannelFollows
  <2>2. next'[c] = from'[c] /\ next'[c] \in Nat
    BY <1>1, <2>1 DEF TypeOK
  <2>3. LiveLines(c)' = LiveLines(c) /\ LiveLines(c) \in Int
    BY <1>3, <2>1 DEF LiveLines, Replayed
  <2>4. Lost(c)' = Lost(c) + 0
    BY <1>3, <2>1, <2>2, <2>3 DEF Lost
  <2>5. \A b \in Clients \ {c} : Lost(b)' = Lost(b)
    BY <2>1 DEF Lost, LiveLines, Replayed
  <2>6. dropped' = dropped + 0
    BY <1>1, <2>1 DEF TypeOK
  <2> QED
    BY <1>1, <2>4, <2>5, <2>6, CountedLoss
<1>6. ASSUME NEW c \in Clients, Replay(c)
      PROVE  CountIsExact'
  <2>1. /\ UNCHANGED <<copied, from, next, dropped>> /\ Len(delivered[c]) < Len(copied[c])
        /\ delivered' = [delivered EXCEPT ![c] = Append(@, copied[c][Len(@) + 1])]
    BY <1>6 DEF Replay
  <2>2. Len(delivered'[c]) = Len(delivered[c]) + 1
    BY <1>3, <2>1
  <2>3. LiveLines(c)' = 0 /\ LiveLines(c) = 0
    BY <1>3, <2>1, <2>2 DEF LiveLines, Replayed
  <2>4. Lost(c)' = Lost(c) + 0
    BY <1>3, <2>1, <2>3 DEF Lost
  <2>5. \A b \in Clients \ {c} : Lost(b)' = Lost(b)
    BY <2>1 DEF Lost, LiveLines, Replayed
  <2>6. dropped' = dropped + 0
    BY <1>1, <2>1 DEF TypeOK
  <2> QED
    BY <1>1, <2>4, <2>5, <2>6, CountedLoss
<1>7. ASSUME NEW c \in Clients, Receive(c)
      PROVE  CountIsExact'
  <2>1. /\ UNCHANGED <<copied, from, dropped>> /\ Len(delivered[c]) >= Len(copied[c])
        /\ delivered' = [delivered EXCEPT ![c] = Append(@, sent[next[c]])]
        /\ next' = [next EXCEPT ![c] = @ + 1]
    BY <1>7 DEF Receive, Live, Replayed
  <2>2. Len(delivered'[c]) = Len(delivered[c]) + 1 /\ next'[c] = next[c] + 1
    BY <1>3, <2>1
  <2>3. LiveLines(c)' = LiveLines(c) + 1 /\ LiveLines(c) \in Int
    <3>1. Replayed(c) /\ Replayed(c)'
      BY <1>3, <2>1, <2>2 DEF Replayed
    <3>2. /\ LiveLines(c) = Len(delivered[c]) - Len(copied[c])
          /\ LiveLines(c)' = Len(delivered[c]) + 1 - Len(copied[c])
      BY <2>1, <2>2, <3>1 DEF LiveLines
    <3> QED
      BY <1>3, <3>2
  <2>4. Lost(c)' = Lost(c) + 0
    BY <1>3, <2>1, <2>2, <2>3 DEF Lost
  <2>5. \A b \in Clients \ {c} : Lost(b)' = Lost(b)
    BY <2>1 DEF Lost, LiveLines, Replayed
  <2>6. dropped' = dropped + 0
    BY <1>1, <2>1 DEF TypeOK
  <2> QED
    BY <1>1, <2>4, <2>5, <2>6, CountedLoss
<1>8. ASSUME NEW c \in Clients, Lag(c)
      PROVE  CountIsExact'
  <2>1. /\ UNCHANGED <<copied, from, delivered>>
        /\ dropped' = dropped + (Oldest - next[c]) /\ next' = [next EXCEPT ![c] = Oldest]
    BY <1>8 DEF Lag
  <2>2. next'[c] = Oldest /\ Oldest \in Nat
    BY <1>1, <1>3, <2>1 DEF TypeOK
  <2>3. LiveLines(c)' = LiveLines(c) /\ LiveLines(c) \in Int
    BY <1>3, <2>1 DEF LiveLines, Replayed
  <2>4. Lost(c)' = Lost(c) + (Oldest - next[c])
    BY <1>3, <2>1, <2>2, <2>3 DEF Lost
  <2>5. \A b \in Clients \ {c} : Lost(b)' = Lost(b)
    BY <2>1 DEF Lost, LiveLines, Replayed
  <2>6. Oldest - next[c] \in Int
    BY <1>3, <2>2
  <2> QED
    BY <1>1, <2>1, <2>4, <2>5, <2>6, CountedLoss
<1> QED
  BY <1>2, <1>4, <1>5, <1>6, <1>7, <1>8
  DEF Next, vars, streamVars, Write, LockBuffer, SkipBuffer, PushLine, SendLine, Serve, Connect, AwaitLock,
      Close, Disconnect, Shutdown

LEMMA ExactIsExact == TypeOK /\ CountIsExact => DroppedIsExact
<1> SUFFICES ASSUME TypeOK, CountIsExact
             PROVE  DroppedIsExact
  OBVIOUS
<1>1. ASSUME NEW c \in Clients
      PROVE  SentSince(c) - LiveLines(c) - Unread(c) = next[c] - from[c] - LiveLines(c)
  <2>1. next[c] \in Nat /\ from[c] \in Nat /\ Len(sent) \in Nat
    BY DEF TypeOK
  <2>2. LiveLines(c) \in Int
    <3>1. delivered[c] \in Seq(Line) /\ copied[c] \in Seq(Line)
      BY DEF TypeOK
    <3>2. Len(delivered[c]) \in Nat /\ Len(copied[c]) \in Nat
      BY <3>1
    <3> QED
      BY <3>2 DEF LiveLines
  <2> QED
    BY <2>1, <2>2 DEF SentSince, Unread
<1>2. [c \in Clients |-> SentSince(c) - LiveLines(c) - Unread(c)]
        = [c \in Clients |-> next[c] - from[c] - LiveLines(c)]
  BY <1>1
<1> QED
  BY <1>2 DEF CountIsExact, DroppedIsExact

\* The counter that all calls share is the sum, over the calls, of the lines
\* sent since each subscribed that it read past without giving them to its
\* client.  What a call has not read when the run or its client ends it is not
\* in the counter.
THEOREM LossIsCounted == Spec => []DroppedIsExact
<1>1. Spec => []CountIsExact
  BY InitExact, NextExact, InductiveInvariant, PTL DEF Spec
<1>2. IInv => TypeOK
  BY DEF IInv
<1> QED
  BY <1>1, <1>2, ExactIsExact, InductiveInvariant, PTL
=============================================================================
