----------------------- MODULE ReconnectClient_proofs -----------------------
(* Theorems about ReconnectClient, for any number of connections, chunks,     *)
(* attempts and breaks, and any size of the buffer.                           *)
EXTENDS ReconnectClient, FiniteSetTheorems, TLAPS

-----------------------------------------------------------------------------
(* Sequences of chunk numbers.                                             *)

Increasing(s) == \A i, j \in 1 .. Len(s) : i < j => s[i] < s[j]

LEMMA OfAppend ==
    ASSUME NEW n \in Nat, NEW s \in Seq(1 .. n), NEW k \in 1 .. n, NEW m
    PROVE  /\ Append(s, k) \in Seq(1 .. n)
           /\ Len(Append(s, k)) = Len(s) + 1
           /\ InSeq(m, Append(s, k)) <=> InSeq(m, s) \/ m = k
           /\ Increasing(s) /\ (\A x : InSeq(x, s) => x < k) => Increasing(Append(s, k))
<1>1. /\ Append(s, k) \in Seq(1 .. n) /\ Len(Append(s, k)) = Len(s) + 1
      /\ (\A i \in 1 .. Len(s) : Append(s, k)[i] = s[i])
      /\ Append(s, k)[Len(s) + 1] = k /\ Len(s) \in Nat
  OBVIOUS
<1>2. ASSUME InSeq(m, Append(s, k)) PROVE InSeq(m, s) \/ m = k
  <2>1. PICK i \in 1 .. Len(s) + 1 : Append(s, k)[i] = m
    BY <1>1, <1>2 DEF InSeq
  <2> QED
    BY <1>1, <2>1 DEF InSeq
<1>3. ASSUME InSeq(m, s) \/ m = k PROVE InSeq(m, Append(s, k))
  <2>1. CASE InSeq(m, s)
    BY <1>1, <2>1 DEF InSeq
  <2>2. CASE m = k
    <3>1. Len(s) + 1 \in 1 .. Len(Append(s, k))
      BY <1>1
    <3> QED
      BY <1>1, <2>2, <3>1 DEF InSeq
  <2> QED
    BY <1>3, <2>1, <2>2
<1>4. ASSUME Increasing(s), \A x : InSeq(x, s) => x < k PROVE Increasing(Append(s, k))
  <2> SUFFICES ASSUME NEW i \in 1 .. Len(s) + 1, NEW j \in 1 .. Len(s) + 1, i < j
               PROVE  Append(s, k)[i] < Append(s, k)[j]
    BY <1>1 DEF Increasing
  <2>1. i \in 1 .. Len(s) /\ InSeq(s[i], s)
    BY <1>1 DEF InSeq
  <2>2. CASE j \in 1 .. Len(s)
    BY <1>1, <1>4, <2>1, <2>2 DEF Increasing
  <2>3. CASE j = Len(s) + 1
    BY <1>1, <1>4, <2>1, <2>3
  <2> QED
    BY <1>1, <2>2, <2>3
<1> QED
  BY <1>1, <1>2, <1>3, <1>4

LEMMA OfTail ==
    ASSUME NEW n \in Nat, NEW s \in Seq(1 .. n), s # <<>>, NEW m
    PROVE  /\ Tail(s) \in Seq(1 .. n)
           /\ Len(Tail(s)) = Len(s) - 1
           /\ Head(s) \in 1 .. n
           /\ InSeq(m, s) <=> InSeq(m, Tail(s)) \/ m = Head(s)
           /\ Increasing(s) => /\ Increasing(Tail(s))
                              /\ \A x : InSeq(x, Tail(s)) => Head(s) < x
<1>1. Len(s) \in Nat \ {0} /\ Tail(s) \in Seq(1 .. n) /\ Len(Tail(s)) = Len(s) - 1
      /\ Head(s) = s[1] /\ \A i \in 1 .. Len(s) - 1 : Tail(s)[i] = s[i + 1]
  OBVIOUS
<1>2. ASSUME InSeq(m, s) PROVE InSeq(m, Tail(s)) \/ m = Head(s)
  <2>1. PICK i \in 1 .. Len(s) : s[i] = m
    BY <1>2 DEF InSeq
  <2>2. CASE i = 1
    BY <1>1, <2>1, <2>2
  <2>3. CASE i # 1
    <3>1. i - 1 \in 1 .. Len(Tail(s)) /\ Tail(s)[i - 1] = m
      BY <1>1, <2>1, <2>3
    <3> QED
      BY <3>1 DEF InSeq
  <2> QED
    BY <2>2, <2>3
<1>3. ASSUME InSeq(m, Tail(s)) \/ m = Head(s) PROVE InSeq(m, s)
  BY <1>1, <1>3 DEF InSeq
<1>4. ASSUME Increasing(s)
      PROVE  Increasing(Tail(s)) /\ \A x : InSeq(x, Tail(s)) => Head(s) < x
  BY <1>1, <1>4 DEF Increasing, InSeq
<1> QED
  BY <1>1, <1>2, <1>3, <1>4

LEMMA OfConcat ==
    ASSUME NEW n \in Nat, NEW s \in Seq(1 .. n), NEW t \in Seq(1 .. n), NEW m
    PROVE  /\ s \o t \in Seq(1 .. n)
           /\ InSeq(m, s \o t) <=> InSeq(m, s) \/ InSeq(m, t)
           /\ s = <<>> => s \o t = t
<1>1. s \o t \in Seq(1 .. n) /\ Len(s \o t) = Len(s) + Len(t)
      /\ (\A i \in 1 .. Len(s) : (s \o t)[i] = s[i])
      /\ (\A i \in 1 .. Len(t) : (s \o t)[Len(s) + i] = t[i])
  OBVIOUS
<1>2. ASSUME InSeq(m, s \o t) PROVE InSeq(m, s) \/ InSeq(m, t)
  <2>1. PICK i \in 1 .. Len(s) + Len(t) : (s \o t)[i] = m
    BY <1>1, <1>2 DEF InSeq
  <2>2. CASE i <= Len(s)
    BY <1>1, <2>1, <2>2 DEF InSeq
  <2>3. CASE i > Len(s)
    <3>1. i - Len(s) \in 1 .. Len(t) /\ t[i - Len(s)] = m
      BY <1>1, <2>1, <2>3
    <3> QED
      BY <3>1 DEF InSeq
  <2> QED
    BY <2>1, <2>2, <2>3
<1>3. ASSUME InSeq(m, s) \/ InSeq(m, t) PROVE InSeq(m, s \o t)
  <2>1. CASE InSeq(m, s)
    BY <1>1, <2>1 DEF InSeq
  <2>2. CASE InSeq(m, t)
    <3>1. PICK i \in 1 .. Len(t) : t[i] = m
      BY <2>2 DEF InSeq
    <3>2. Len(s) + i \in 1 .. Len(s \o t) /\ (s \o t)[Len(s) + i] = m
      BY <1>1, <3>1
    <3> QED
      BY <3>2 DEF InSeq
  <2> QED
    BY <1>3, <2>1, <2>2
<1>4. s = <<>> => s \o t = t
  OBVIOUS
<1> QED
  BY <1>1, <1>2, <1>3, <1>4

\* A sequence cut in two: what is kept and what is lost.
LEMMA OfCut ==
    ASSUME NEW n \in Nat, NEW s \in Seq(1 .. n), NEW i \in 0 .. Len(s), NEW m
    PROVE  /\ SubSeq(s, 1, i) \in Seq(1 .. n)
           /\ SetOf(SubSeq(s, i + 1, Len(s))) \subseteq 1 .. n
           /\ InSeq(m, s) <=> InSeq(m, SubSeq(s, 1, i)) \/ m \in SetOf(SubSeq(s, i + 1, Len(s)))
           /\ Increasing(s) => Increasing(SubSeq(s, 1, i))
<1> DEFINE a == SubSeq(s, 1, i)
           b == SubSeq(s, i + 1, Len(s))
<1>1. /\ a \in Seq(1 .. n) /\ Len(a) = i
      /\ \A j \in 1 .. i : a[j] = s[j]
  OBVIOUS
<1>2. /\ b \in Seq(1 .. n) /\ Len(b) = Len(s) - i
      /\ \A j \in 1 .. Len(s) - i : b[j] = s[i + j]
  OBVIOUS
<1>3. SetOf(b) \subseteq 1 .. n
  BY <1>2 DEF SetOf
<1>4. ASSUME InSeq(m, s) PROVE InSeq(m, a) \/ m \in SetOf(b)
  <2>1. PICK j \in 1 .. Len(s) : s[j] = m
    BY <1>4 DEF InSeq
  <2>2. CASE j <= i
    BY <1>1, <2>1, <2>2 DEF InSeq
  <2>3. CASE j > i
    <3>1. j - i \in 1 .. Len(b) /\ b[j - i] = m
      BY <1>2, <2>1, <2>3
    <3> QED
      BY <3>1 DEF SetOf
  <2> QED
    BY <2>1, <2>2, <2>3
<1>5. ASSUME InSeq(m, a) \/ m \in SetOf(b) PROVE InSeq(m, s)
  <2>1. CASE InSeq(m, a)
    BY <1>1, <2>1 DEF InSeq
  <2>2. CASE m \in SetOf(b)
    <3>1. PICK j \in 1 .. Len(b) : b[j] = m
      BY <2>2 DEF SetOf
    <3>2. i + j \in 1 .. Len(s) /\ s[i + j] = m
      BY <1>2, <3>1
    <3> QED
      BY <3>2 DEF InSeq
  <2> QED
    BY <1>5, <2>1, <2>2
<1>6. Increasing(s) => Increasing(a)
  BY <1>1 DEF Increasing
<1> QED
  BY <1>1, <1>3, <1>4, <1>5, <1>6

\* Everything of a sequence.
LEMMA OfAll ==
    ASSUME NEW n \in Nat, NEW s \in Seq(1 .. n), NEW m
    PROVE  /\ SetOf(s) \subseteq 1 .. n
           /\ m \in SetOf(s) <=> InSeq(m, s)
           /\ InSeq(m, s) => m \in 1 .. n
           /\ ~InSeq(m, <<>>)
BY DEF SetOf, InSeq

-----------------------------------------------------------------------------
(* The invariant: one attempt, its handler, and types.                     *)

Live(c) == ws[c] \in {"connecting", "open"}

\* Every variable keeps its type; no more chunks are dropped than were captured.
TypeInv == TypeOK /\ totalDropped <= captured

\* A ticket or a timer, or else a socket, which is the current one; none of them
\* when the attempts are used up.
Single ==
    /\ tickets <= 1 /\ timers <= 1 /\ (tickets = 0 \/ timers = 0)
    /\ \A c \in Conn : Live(c) => tickets = 0 /\ timers = 0 /\ socket = c
    /\ attempt > MaxAttempts => tickets = 0 /\ timers = 0 /\ \A c \in Conn : ~Live(c)
    /\ \A c \in Conn : ws[c] = "closing" => closedByCaller

\* What a handler that has to start, or serves, says of socket and session.
Handlers ==
    /\ \A c \in Conn : wire[c] # <<>> => gw[c] \in {"upgraded", "serving"}
    /\ \A c \in Conn : gw[c] = "upgraded" => socket = c /\ tickets = 0
    /\ \A c \in Conn : gw[c] = "serving" => holder = c
    /\ \A c \in Conn : ws[c] = "connecting" => gw[c] = "none"
    /\ \A c \in Conn : ws[c] = "open" => gw[c] # "none" /\ buffered = <<>>

\* What the microphone's chunk does: it is kept, is lost with a socket that is no
\* longer served, or is sent.
Kept(k) ==
    /\ socket # NoConn => ws[socket] # "open"
    /\ buffered' = Pushed(k) /\ totalDropped' = totalDropped + Drops
    /\ UNCHANGED <<wire, lostWithLink, lostInRefusal>>

LostOnTheWay(k) ==
    /\ \/ lostWithLink' = lostWithLink \cup {k} /\ UNCHANGED lostInRefusal
       \/ lostInRefusal' = lostInRefusal \cup {k} /\ UNCHANGED lostWithLink
    /\ socket \in Conn /\ ws[socket] = "open"
    /\ UNCHANGED <<buffered, totalDropped, wire>>

Sent(k) ==
    /\ socket \in Conn /\ ws[socket] = "open" /\ gw[socket] # "done"
    /\ wire' = [wire EXCEPT ![socket] = Append(@, k)]
    /\ UNCHANGED <<buffered, totalDropped, lostWithLink, lostInRefusal>>

LEMMA CaptureCases ==
    ASSUME TypeOK, Capture
    PROVE  /\ captured + 1 \in 1 .. MaxChunks /\ captured' = captured + 1
           /\ Kept(captured + 1) \/ LostOnTheWay(captured + 1) \/ Sent(captured + 1)
           /\ UNCHANGED <<status, closedByCaller, attempt, socket, tickets, timers, ws, link,
                          gatewayVars, arrived, turnedAway, breaks>>
<1>1. captured + 1 \in 1 .. MaxChunks
  <2>1. captured \in 0 .. MaxChunks /\ captured < MaxChunks /\ MaxChunks \in Nat
    BY ClientAssumption DEF TypeOK, Capture
  <2> QED
    BY <2>1
<1>2. CASE socket = NoConn
  BY <1>1, <1>2 DEF Capture, Kept
<1>3. CASE socket # NoConn /\ ws[socket] # "open"
  BY <1>1, <1>3 DEF Capture, Kept
<1>4. CASE socket # NoConn /\ ws[socket] = "open"
  <2>1. socket \in Conn
    BY <1>4 DEF TypeOK
  <2>2. link[socket] \in {"up", "down"}
    BY <2>1 DEF TypeOK
  <2>3. CASE link[socket] = "down"
    BY <1>1, <1>4, <2>1, <2>3 DEF Capture, LostOnTheWay
  <2>4. CASE link[socket] = "up" /\ gw[socket] = "done"
    BY <1>1, <1>4, <2>1, <2>4 DEF Capture, LostOnTheWay
  <2>5. CASE link[socket] = "up" /\ gw[socket] # "done"
    BY <1>1, <1>4, <2>1, <2>5 DEF Capture, Sent
  <2> QED
    BY <2>2, <2>3, <2>4, <2>5
<1> QED
  BY <1>2, <1>3, <1>4

\* The buffer after a push.
LEMMA OfPush ==
    ASSUME TypeOK, NEW k \in 1 .. MaxChunks, NEW m
    PROVE  /\ Pushed(k) \in Seq(1 .. MaxChunks) /\ Len(Pushed(k)) <= MaxBuffered
           /\ InSeq(m, Pushed(k)) => InSeq(m, buffered) \/ m = k
           /\ InSeq(k, Pushed(k))
           /\ Increasing(buffered) /\ (\A x : InSeq(x, buffered) => x < k)
                 => Increasing(Pushed(k))
           /\ Drops = 0 => (InSeq(m, buffered) => InSeq(m, Pushed(k)))
           /\ Drops # 0 =>
                 /\ Drops = 1 /\ buffered # <<>>
                 /\ InSeq(m, buffered) => InSeq(m, Pushed(k)) \/ m = Head(buffered)
                 /\ InSeq(Head(buffered), buffered)
                 /\ Increasing(buffered) /\ (\A x : InSeq(x, buffered) => x < k)
                       => ~InSeq(Head(buffered), Pushed(k))
<1>0. MaxChunks \in Nat /\ MaxBuffered \in Nat /\ MaxBuffered > 0
      /\ buffered \in Seq(1 .. MaxChunks) /\ Len(buffered) <= MaxBuffered
  BY ClientAssumption DEF TypeOK
<1>1. CASE Len(buffered) < MaxBuffered
  <2>1. Pushed(k) = Append(buffered, k) /\ Drops = 0
    BY <1>1 DEF Pushed, Drops
  <2>2. Len(Pushed(k)) <= MaxBuffered
    BY <1>0, <1>1, <2>1
  <2> QED
    BY <1>0, <2>1, <2>2, OfAppend
<1>2. CASE ~(Len(buffered) < MaxBuffered)
  <2> DEFINE t == Tail(buffered)
  <2>1. Pushed(k) = Append(t, k) /\ Drops = 1
    BY <1>2 DEF Pushed, Drops
  <2>2. buffered # <<>>
    BY <1>0, <1>2
  <2>3. t \in Seq(1 .. MaxChunks) /\ Len(t) = Len(buffered) - 1
    BY <1>0, <2>2, OfTail
  <2>4. Len(Pushed(k)) <= MaxBuffered /\ Pushed(k) \in Seq(1 .. MaxChunks)
    BY <1>0, <1>2, <2>1, <2>3, OfAppend
  <2>5. \A x : InSeq(x, buffered) <=> InSeq(x, t) \/ x = Head(buffered)
    BY <1>0, <2>2, OfTail
  <2>s. Increasing(buffered) => Increasing(t) /\ \A x : InSeq(x, t) => Head(buffered) < x
    BY <1>0, <2>2, OfTail
  <2>h. Head(buffered) \in Nat
    BY <1>0, <2>2, OfTail
  <2> HIDE DEF t
  <2>6. \A x : InSeq(x, Pushed(k)) <=> InSeq(x, t) \/ x = k
    BY <1>0, <2>1, <2>3, OfAppend
  <2>a. Increasing(t) /\ (\A x : InSeq(x, t) => x < k) => Increasing(Pushed(k))
    BY <1>0, <2>1, <2>3, OfAppend
  <2>7. ASSUME Increasing(buffered), \A x : InSeq(x, buffered) => x < k
        PROVE  Increasing(Pushed(k)) /\ ~InSeq(Head(buffered), Pushed(k))
    <3>1. Increasing(t) /\ \A x : InSeq(x, t) => Head(buffered) < x
      BY <2>7, <2>s
    <3>2. Increasing(Pushed(k))
      BY <2>5, <2>7, <2>a, <3>1
    <3>3. Head(buffered) \in Nat /\ Head(buffered) < k
      BY <2>5, <2>7, <2>h
    <3> QED
      BY <2>6, <3>1, <3>2, <3>3
  <2> QED
    BY <2>1, <2>2, <2>4, <2>5, <2>6, <2>7
<1> QED
  BY <1>1, <1>2

LEMMA InvInit == Init => TypeInv /\ Single /\ Handlers
<1> SUFFICES ASSUME Init PROVE TypeInv /\ Single /\ Handlers
  OBVIOUS
<1>1. TypeInv
  <2>1. <<>> \in Seq(1 .. MaxChunks) /\ Len(<<>>) = 0
    OBVIOUS
  <2>2. /\ 0 \in 0 .. MaxChunks /\ 0 \in 0 .. MaxBreaks
        /\ 0 \in 0 .. (MaxAttempts + 1) /\ 0 <= MaxBuffered
    BY ClientAssumption
  <2>3. /\ arrived \in Seq(1 .. MaxChunks) /\ buffered \in Seq(1 .. MaxChunks)
        /\ Len(buffered) <= MaxBuffered
        /\ wire \in [Conn -> Seq(1 .. MaxChunks)]
    BY <2>1, <2>2 DEF Init
  <2>4. /\ socket \in Conn \cup {NoConn} /\ holder \in Conn \cup {NoConn}
        /\ ws \in [Conn -> {"none", "connecting", "open", "closing", "done"}]
        /\ link \in [Conn -> {"up", "down"}]
        /\ gw \in [Conn -> {"none", "upgraded", "serving", "done"}]
    BY DEF Init
  <2>5. /\ attempt \in 0 .. (MaxAttempts + 1) /\ breaks \in 0 .. MaxBreaks
        /\ captured \in 0 .. MaxChunks /\ totalDropped \in 0 .. MaxChunks
        /\ totalDropped <= captured /\ tickets \in Nat /\ timers \in Nat
    BY <2>2 DEF Init
  <2>6. /\ status \in {"connecting", "connected", "reconnecting", "closed", "degraded"}
        /\ closedByCaller \in BOOLEAN
        /\ turnedAway \cup lostWithLink \cup lostInRefusal \subseteq 1 .. MaxChunks
    BY DEF Init
  <2> QED
    BY <2>3, <2>4, <2>5, <2>6 DEF TypeInv, TypeOK
<1>2. Single /\ Handlers
  BY ClientAssumption DEF Init, Single, Handlers, Live
<1> QED
  BY <1>1, <1>2

\* Each step, but for a capture, keeps the type of what it changes.
LEMMA TypeStep ==
    ASSUME TypeInv, Single, Handlers, [Next]_vars
    PROVE  TypeInv'
<1> USE ClientAssumption, ConnAssumption
<1>0. TypeOK /\ totalDropped <= captured /\ totalDropped \in Nat /\ captured \in Nat
      /\ MaxChunks \in Nat
  BY DEF TypeInv, TypeOK
<1>1. ASSUME BackoffElapsed PROVE TypeInv'
  BY <1>0, <1>1 DEF TypeInv, TypeOK, BackoffElapsed, gatewayVars, historyVars
<1>r. ASSUME Retry(1), tickets > 0 \/ \E c \in Conn : Live(c)
      PROVE  /\ attempt' \in 0 .. (MaxAttempts + 1) /\ timers' \in Nat
             /\ status' \in {"degraded", "reconnecting"}
  <2>1. attempt \in 0 .. (MaxAttempts + 1) /\ timers \in Nat /\ tickets \in Nat
    BY <1>0 DEF TypeOK
  <2>2. attempt <= MaxAttempts
    BY <1>r, <2>1 DEF Single
  <2> QED
    BY <1>r, <2>1, <2>2 DEF Retry
<1>2. ASSUME TicketFails PROVE TypeInv'
  <2>1. tickets \in Nat /\ timers \in Nat /\ tickets > 0
    BY <1>0, <1>2 DEF TypeOK, TicketFails
  <2>2. /\ attempt' \in 0 .. (MaxAttempts + 1) /\ timers' \in Nat
        /\ status' \in {"degraded", "reconnecting"}
    BY <1>2, <1>r, <2>1 DEF TicketFails
  <2> QED
    BY <1>0, <1>2, <2>1, <2>2 DEF TypeInv, TypeOK, TicketFails, gatewayVars, historyVars
<1>3. ASSUME TicketMinted PROVE TypeInv'
  <2>1. tickets' \in Nat
    BY <1>0, <1>3 DEF TypeOK, TicketMinted
  <2>2. /\ socket' \in Conn \cup {NoConn}
        /\ ws' \in [Conn -> {"none", "connecting", "open", "closing", "done"}]
        /\ link' \in [Conn -> {"up", "down"}]
        /\ gw' \in [Conn -> {"none", "upgraded", "serving", "done"}]
    BY <1>0, <1>3 DEF TypeOK, TicketMinted
  <2> QED
    BY <1>0, <1>3, <2>1, <2>2 DEF TypeInv, TypeOK, TicketMinted, historyVars
<1>4. ASSUME NEW c \in Conn, SocketOpens(c) PROVE TypeInv'
  <2>1. socket = c
    BY <1>4 DEF SocketOpens, Single, Live
  <2>2. wire[c] \o buffered \in Seq(1 .. MaxChunks)
    BY <1>0, OfConcat DEF TypeOK
  <2>3. wire' \in [Conn -> Seq(1 .. MaxChunks)]
    BY <1>0, <1>4, <2>1, <2>2 DEF TypeOK, SocketOpens
  <2>4. buffered' = <<>> /\ <<>> \in Seq(1 .. MaxChunks) /\ Len(<<>>) <= MaxBuffered
    BY <1>4 DEF SocketOpens, Flushed
  <2> QED
    BY <1>0, <1>4, <2>3, <2>4 DEF TypeInv, TypeOK, SocketOpens, historyVars
<1>5. ASSUME NEW c \in Conn, SocketCloses(c) PROVE TypeInv'
  <2>1. CASE closedByCaller
    BY <1>0, <1>5, <2>1 DEF TypeInv, TypeOK, SocketCloses, gatewayVars, historyVars
  <2>2. CASE ~closedByCaller /\ Live(c)
    <3>1. /\ attempt' \in 0 .. (MaxAttempts + 1) /\ timers' \in Nat
          /\ status' \in {"degraded", "reconnecting"}
      BY <1>5, <1>r, <2>2 DEF SocketCloses, CloseOnly
    <3> QED
      BY <1>0, <1>5, <3>1 DEF TypeInv, TypeOK, SocketCloses, gatewayVars, historyVars
  <2>3. CASE ~closedByCaller /\ ~Live(c)
    BY <1>5, <2>3 DEF SocketCloses, Single, Live
  <2> QED
    BY <2>1, <2>2, <2>3
<1>6. ASSUME Capture PROVE TypeInv'
  <2> DEFINE k == captured + 1
  <2>1. /\ k \in 1 .. MaxChunks /\ captured' = k
        /\ Kept(k) \/ LostOnTheWay(k) \/ Sent(k)
        /\ UNCHANGED <<status, closedByCaller, attempt, socket, tickets, timers, ws, link,
                       gatewayVars, arrived, turnedAway, breaks>>
    BY <1>0, <1>6, CaptureCases
  <2>2. CASE Kept(k)
    <3>1. buffered' \in Seq(1 .. MaxChunks) /\ Len(buffered') <= MaxBuffered
      BY <1>0, <2>1, <2>2, OfPush DEF Kept
    <3>2. totalDropped' \in 0 .. MaxChunks /\ totalDropped' <= captured'
      BY <1>0, <2>1, <2>2 DEF Kept, Drops
    <3> QED
      BY <1>0, <2>1, <2>2, <3>1, <3>2 DEF TypeInv, TypeOK, Kept, gatewayVars
  <2>3. CASE LostOnTheWay(k)
    <3>1. (turnedAway \cup lostWithLink \cup lostInRefusal)' \subseteq 1 .. MaxChunks
      BY <1>0, <2>1, <2>3 DEF TypeOK, LostOnTheWay
    <3>2. captured' \in 0 .. MaxChunks /\ totalDropped' <= captured'
      BY <1>0, <2>1, <2>3 DEF LostOnTheWay
    <3> QED
      BY <1>0, <2>1, <2>3, <3>1, <3>2 DEF TypeInv, TypeOK, LostOnTheWay, gatewayVars
  <2>4. CASE Sent(k)
    <3>1. Append(wire[socket], k) \in Seq(1 .. MaxChunks)
      BY <1>0, <2>1, <2>4, OfAppend DEF TypeOK, Sent
    <3>2. wire' \in [Conn -> Seq(1 .. MaxChunks)]
      BY <1>0, <2>4, <3>1 DEF TypeOK, Sent
    <3>3. captured' \in 0 .. MaxChunks /\ totalDropped' <= captured'
      BY <1>0, <2>1, <2>4 DEF Sent
    <3> QED
      BY <1>0, <2>1, <2>4, <3>2, <3>3 DEF TypeInv, TypeOK, Sent, gatewayVars
  <2> QED
    BY <2>1, <2>2, <2>3, <2>4
<1>7. ASSUME CloseByCaller PROVE TypeInv'
  BY <1>0, <1>7 DEF TypeInv, TypeOK, CloseByCaller, gatewayVars, historyVars
<1>8. ASSUME NEW c \in Conn, Break(c) PROVE TypeInv'
  <2>1. PICK n \in 0 .. Len(wire[c]) :
          /\ wire' = [wire EXCEPT ![c] = SubSeq(@, 1, n)]
          /\ lostWithLink' = lostWithLink \cup SetOf(SubSeq(wire[c], n + 1, Len(wire[c])))
    BY <1>8 DEF Break
  <2>2. /\ SubSeq(wire[c], 1, n) \in Seq(1 .. MaxChunks)
        /\ SetOf(SubSeq(wire[c], n + 1, Len(wire[c]))) \subseteq 1 .. MaxChunks
    BY <1>0, OfCut DEF TypeOK
  <2>3. wire' \in [Conn -> Seq(1 .. MaxChunks)] /\ lostWithLink' \subseteq 1 .. MaxChunks
    BY <1>0, <2>1, <2>2 DEF TypeOK
  <2>4. breaks' \in 0 .. MaxBreaks /\ link' \in [Conn -> {"up", "down"}]
    BY <1>0, <1>8 DEF TypeOK, Break
  <2> QED
    BY <1>0, <1>8, <2>3, <2>4 DEF TypeInv, TypeOK, Break, clientVars, gatewayVars
<1>9. ASSUME NEW c \in Conn, StartSession(c) PROVE TypeInv'
  BY <1>0, <1>9 DEF TypeInv, TypeOK, StartSession, clientVars, historyVars
<1>c. \A c \in Conn : /\ SetOf(wire[c]) \subseteq 1 .. MaxChunks
                       /\ [wire EXCEPT ![c] = <<>>] \in [Conn -> Seq(1 .. MaxChunks)]
  <2>1. <<>> \in Seq(1 .. MaxChunks)
    OBVIOUS
  <2> QED
    BY <1>0, <2>1, OfAll DEF TypeOK
<1>10. ASSUME NEW c \in Conn, RefuseSession(c) PROVE TypeInv'
  BY <1>0, <1>10, <1>c DEF TypeInv, TypeOK, RefuseSession, clientVars
<1>11. ASSUME NEW c \in Conn, ReceiveFrame(c) PROVE TypeInv'
  <2>1. wire[c] \in Seq(1 .. MaxChunks) /\ wire[c] # <<>>
    BY <1>0, <1>11 DEF TypeOK, ReceiveFrame
  <2>2. Tail(wire[c]) \in Seq(1 .. MaxChunks) /\ Head(wire[c]) \in 1 .. MaxChunks
    BY <1>0, <2>1, OfTail
  <2>3. wire' \in [Conn -> Seq(1 .. MaxChunks)]
    BY <1>0, <1>11, <2>2 DEF TypeOK, ReceiveFrame
  <2>4. Append(arrived, Head(wire[c])) \in Seq(1 .. MaxChunks)
    BY <1>0, <2>2, OfAppend DEF TypeOK
  <2>5. arrived' \in Seq(1 .. MaxChunks)
    BY <1>0, <1>11, <2>4 DEF TypeOK, ReceiveFrame
  <2>6. (turnedAway \cup lostWithLink \cup lostInRefusal)' \subseteq 1 .. MaxChunks
    BY <1>0, <1>11, <2>2 DEF TypeOK, ReceiveFrame
  <2> QED
    BY <1>0, <1>11, <2>3, <2>5, <2>6 DEF TypeInv, TypeOK, ReceiveFrame, clientVars, gatewayVars
<1>12. ASSUME NEW c \in Conn, HandlerEnds(c) PROVE TypeInv'
  BY <1>0, <1>12, <1>c DEF TypeInv, TypeOK, HandlerEnds, Released, clientVars
<1>13. CASE UNCHANGED vars
  BY <1>0, <1>13 DEF TypeInv, TypeOK, vars, clientVars, gatewayVars, historyVars
<1> QED
  BY <1>1, <1>2, <1>3, <1>4, <1>5, <1>6, <1>7, <1>8, <1>9, <1>10, <1>11, <1>12, <1>13
  DEF Next, Quiescent

\* A new attempt begins only where the one before has ended.
LEMMA SingleStep ==
    ASSUME TypeInv, Single, Handlers, [Next]_vars
    PROVE  Single'
<1> USE ClientAssumption, ConnAssumption
<1>0. tickets \in Nat /\ timers \in Nat /\ attempt \in 0 .. (MaxAttempts + 1)
      /\ MaxAttempts \in Nat
      /\ ws \in [Conn -> {"none", "connecting", "open", "closing", "done"}]
      /\ gw \in [Conn -> {"none", "upgraded", "serving", "done"}]
  BY DEF TypeInv, TypeOK
<1>1. ASSUME BackoffElapsed PROVE Single'
  BY <1>0, <1>1 DEF Single, Live, BackoffElapsed
<1>2. ASSUME TicketFails PROVE Single'
  <2>1. tickets = 1 /\ timers = 0 /\ attempt <= MaxAttempts /\ \A c \in Conn : ~Live(c)
    BY <1>0, <1>2 DEF Single, TicketFails
  <2>2. tickets' = 0 /\ UNCHANGED <<closedByCaller, ws, socket>>
    BY <1>2, <2>1 DEF TicketFails
  <2>3. /\ timers' \in Nat /\ timers' <= 1
        /\ attempt' > MaxAttempts => timers' = 0
    BY <1>0, <1>2, <2>1 DEF TicketFails, Retry
  <2>4. \A c \in Conn : ~Live(c)' /\ (ws'[c] = "closing" => closedByCaller')
    BY <2>1, <2>2 DEF Single, Live
  <2> QED
    BY <2>2, <2>3, <2>4 DEF Single
<1>3. ASSUME TicketMinted PROVE Single'
  <2>1. tickets = 1 /\ timers = 0 /\ attempt <= MaxAttempts /\ \A c \in Conn : ~Live(c)
    BY <1>0, <1>3 DEF Single, TicketMinted
  <2>2. tickets' = 0 /\ timers' = 0 /\ attempt' = attempt /\ UNCHANGED closedByCaller
    BY <1>3, <2>1 DEF TicketMinted
  <2>3. CASE UNCHANGED <<socket, ws>>
    BY <1>0, <2>1, <2>2, <2>3 DEF Single, Live
  <2>4. ASSUME NEW c \in Conn, socket' = c, ws' = [ws EXCEPT ![c] = "connecting"]
        PROVE  Single'
    BY <1>0, <2>1, <2>2, <2>4 DEF Single, Live
  <2> QED
    BY <1>3, <2>3, <2>4 DEF TicketMinted
<1>4. ASSUME NEW c \in Conn, SocketOpens(c) PROVE Single'
  BY <1>0, <1>4 DEF Single, Live, SocketOpens
<1>5. ASSUME NEW c \in Conn, SocketCloses(c) PROVE Single'
  <2>1. ws' = [ws EXCEPT ![c] = "done"] /\ UNCHANGED <<closedByCaller, socket, tickets>>
    BY <1>5 DEF SocketCloses
  <2>2. CASE closedByCaller
    BY <1>0, <1>5, <2>1, <2>2 DEF Single, Live, SocketCloses
  <2>3. CASE ~closedByCaller
    <3>1. Live(c)
      BY <1>5, <2>3 DEF SocketCloses, Single, Live
    <3>2. tickets = 0 /\ timers = 0 /\ socket = c /\ attempt <= MaxAttempts
      BY <1>0, <3>1 DEF Single
    <3>3. /\ timers' \in Nat /\ timers' <= 1
          /\ attempt' > MaxAttempts => timers' = 0
      BY <1>0, <1>5, <2>3, <3>2 DEF SocketCloses, Retry, CloseOnly
    <3>4. \A d \in Conn : ~Live(d)' /\ (ws'[d] = "closing" => closedByCaller')
      BY <1>0, <2>1, <3>2 DEF Single, Live
    <3> QED
      BY <2>1, <3>2, <3>3, <3>4 DEF Single
  <2> QED
    BY <2>2, <2>3
<1>6. ASSUME Capture PROVE Single'
  <2>1. UNCHANGED <<closedByCaller, attempt, socket, tickets, timers, ws>>
    BY <1>6, CaptureCases DEF TypeInv
  <2> QED
    BY <2>1 DEF Single, Live
<1>7. ASSUME CloseByCaller PROVE Single'
  BY <1>0, <1>7 DEF Single, Live, CloseByCaller
<1>8. ASSUME NEW c \in Conn,
             Break(c) \/ StartSession(c) \/ RefuseSession(c) \/ ReceiveFrame(c) \/ HandlerEnds(c)
      PROVE  Single'
  <2>1. UNCHANGED clientVars
    BY <1>8 DEF Break, StartSession, RefuseSession, ReceiveFrame, HandlerEnds
  <2> QED
    BY <2>1 DEF Single, Live, clientVars
<1>9. CASE UNCHANGED vars
  BY <1>9 DEF Single, Live, vars, clientVars
<1> QED
  BY <1>1, <1>2, <1>3, <1>4, <1>5, <1>6, <1>7, <1>8, <1>9 DEF Next, Quiescent

LEMMA HandlersStep ==
    ASSUME TypeInv, Single, Handlers, [Next]_vars
    PROVE  Handlers'
<1> USE ConnAssumption
<1>0. tickets \in Nat /\ timers \in Nat
      /\ ws \in [Conn -> {"none", "connecting", "open", "closing", "done"}]
      /\ gw \in [Conn -> {"none", "upgraded", "serving", "done"}]
      /\ wire \in [Conn -> Seq(1 .. MaxChunks)] /\ socket \in Conn \cup {NoConn}
  BY DEF TypeInv, TypeOK
<1>1. ASSUME BackoffElapsed PROVE Handlers'
  BY <1>0, <1>1 DEF Handlers, BackoffElapsed, HandlersStarted, gatewayVars
<1>2. ASSUME TicketFails PROVE Handlers'
  BY <1>0, <1>2 DEF Handlers, TicketFails, gatewayVars
<1>3. ASSUME TicketMinted PROVE Handlers'
  <2>1. tickets > 0 /\ \A c \in Conn : gw[c] # "upgraded" /\ ~Live(c)
    BY <1>0, <1>3 DEF TicketMinted, Handlers, Single
  <2>2. UNCHANGED <<wire, holder, buffered>>
    BY <1>3 DEF TicketMinted
  <2>3. CASE UNCHANGED <<ws, gw>>
    BY <2>1, <2>2, <2>3 DEF Handlers
  <2>4. ASSUME NEW c \in Conn, gw[c] \in {"none", "done"},
               ws' = [ws EXCEPT ![c] = "connecting"], gw' = [gw EXCEPT ![c] = "none"]
        PROVE  Handlers'
    BY <1>0, <2>1, <2>2, <2>4 DEF Handlers
  <2> QED
    BY <1>3, <2>3, <2>4 DEF TicketMinted
<1>4. ASSUME NEW c \in Conn, SocketOpens(c) PROVE Handlers'
  <2>1. socket = c /\ tickets = 0 /\ gw[c] = "none" /\ \A d \in Conn : Live(d) => d = c
    BY <1>0, <1>4 DEF SocketOpens, Single, Live, Handlers
  <2>2. /\ ws' = [ws EXCEPT ![c] = "open"] /\ gw' = [gw EXCEPT ![c] = "upgraded"]
        /\ buffered' = <<>> /\ UNCHANGED <<socket, tickets, holder>>
        /\ \A d \in Conn \ {c} : wire'[d] = wire[d]
    BY <1>0, <1>4, <2>1 DEF SocketOpens, Flushed
  <2> QED
    BY <1>0, <2>1, <2>2 DEF Handlers, Live
<1>5. ASSUME NEW c \in Conn, SocketCloses(c) PROVE Handlers'
  BY <1>0, <1>5 DEF Handlers, SocketCloses, gatewayVars
<1>6. ASSUME Capture PROVE Handlers'
  <2> DEFINE k == captured + 1
  <2>1. /\ Kept(k) \/ LostOnTheWay(k) \/ Sent(k)
        /\ UNCHANGED <<socket, tickets, ws, gatewayVars>>
    BY <1>6, CaptureCases DEF TypeInv
  <2>2. CASE Kept(k)
    <3>1. \A c \in Conn : ws[c] # "open"
      BY <2>2 DEF Kept, Single, Live
    <3> QED
      BY <2>1, <2>2, <3>1 DEF Handlers, Kept, gatewayVars
  <2>3. CASE LostOnTheWay(k)
    BY <2>1, <2>3 DEF Handlers, LostOnTheWay, gatewayVars
  <2>4. CASE Sent(k)
    <3>1. gw[socket] \in {"upgraded", "serving"}
      BY <1>0, <2>4 DEF Handlers, Sent
    <3> QED
      BY <1>0, <2>1, <2>4, <3>1 DEF Handlers, Sent, gatewayVars
  <2> QED
    BY <2>1, <2>2, <2>3, <2>4
<1>7. ASSUME CloseByCaller PROVE Handlers'
  BY <1>0, <1>7 DEF Handlers, CloseByCaller, gatewayVars
<1>8. ASSUME NEW c \in Conn, Break(c) PROVE Handlers'
  BY <1>0, <1>8 DEF Handlers, Break, clientVars, gatewayVars
<1>9. ASSUME NEW c \in Conn, StartSession(c) PROVE Handlers'
  BY <1>0, <1>9 DEF Handlers, StartSession, SessionFree, clientVars
<1>10. ASSUME NEW c \in Conn, RefuseSession(c) PROVE Handlers'
  BY <1>0, <1>10 DEF Handlers, RefuseSession, clientVars
<1>11. ASSUME NEW c \in Conn, ReceiveFrame(c) PROVE Handlers'
  BY <1>0, <1>11 DEF Handlers, ReceiveFrame, clientVars, gatewayVars
<1>12. ASSUME NEW c \in Conn, HandlerEnds(c) PROVE Handlers'
  BY <1>0, <1>12 DEF Handlers, HandlerEnds, clientVars
<1>13. CASE UNCHANGED vars
  BY <1>13 DEF Handlers, vars, clientVars, gatewayVars
<1> QED
  BY <1>1, <1>2, <1>3, <1>4, <1>5, <1>6, <1>7, <1>8, <1>9, <1>10, <1>11, <1>12, <1>13
  DEF Next, Quiescent

LEMMA ClientInv == Spec => [](TypeInv /\ Single /\ Handlers)
BY InvInit, TypeStep, SingleStep, HandlersStep, PTL DEF Spec

\* Every variable keeps its type, and the buffer its bound.
THEOREM TypeCorrect == Spec => []TypeOK
BY ClientInv, PTL DEF TypeInv

\* The client's chain never forks: neither a late close nor a close by the caller
\* leaves two attempts under way (onclose "owns the backoff").
THEOREM ChainNeverForks == Spec => []OneAttemptAtATime
<1>1. TypeInv /\ Single => OneAttemptAtATime
  <2> SUFFICES ASSUME TypeInv, Single PROVE OneAttemptAtATime
    OBVIOUS
  <2> DEFINE L == {c \in Conn : ws[c] \in {"connecting", "open"}}
  <2>1. tickets \in Nat /\ timers \in Nat
    BY DEF TypeInv, TypeOK
  <2>2. CASE L = {}
    BY <2>1, <2>2, FS_EmptySet DEF Single, OneAttemptAtATime
  <2>3. CASE L # {}
    <3>1. tickets + timers = 0 /\ L = {socket}
      BY <2>3 DEF Single, Live
    <3>2. Cardinality(L) = 1
      BY <3>1, FS_Singleton
    <3> QED
      BY <2>1, <3>1, <3>2 DEF OneAttemptAtATime
  <2> QED
    BY <2>2, <2>3
<1> QED
  BY <1>1, ClientInv, PTL

\* Once the caller has closed no socket is opened, though a ticket was under way
\* then (open looks again after its await).
THEOREM NothingOpensAfterClose == Spec => NoSocketAfterClose
<1>1. TypeInv /\ [Next]_vars =>
        [closedByCaller => \A c \in Conn : ws'[c] = "connecting" => ws[c] = "connecting"]_vars
  <2> SUFFICES ASSUME TypeInv, [Next]_vars, closedByCaller, NEW c \in Conn,
                      ws'[c] = "connecting"
               PROVE  ws[c] = "connecting"
    OBVIOUS
  <2>0. ws \in [Conn -> {"none", "connecting", "open", "closing", "done"}]
    BY DEF TypeInv, TypeOK
  <2>1. CASE UNCHANGED ws
    BY <2>1
  <2>2. ASSUME NEW d \in Conn, SocketOpens(d) \/ SocketCloses(d) PROVE ws[c] = "connecting"
    BY <2>0, <2>2 DEF SocketOpens, SocketCloses
  <2>3. ASSUME BackoffElapsed \/ TicketFails \/ TicketMinted \/ Capture \/ CloseByCaller
        PROVE  ws[c] = "connecting"
    BY <2>0, <2>3 DEF BackoffElapsed, TicketFails, TicketMinted, ClosedMeanwhile, Capture,
                      CloseByCaller
  <2>4. ASSUME NEW d \in Conn,
               Break(d) \/ StartSession(d) \/ RefuseSession(d) \/ ReceiveFrame(d) \/ HandlerEnds(d)
        PROVE  ws[c] = "connecting"
    BY <2>0, <2>4
    DEF Break, StartSession, RefuseSession, ReceiveFrame, HandlerEnds, clientVars
  <2> QED
    BY <2>1, <2>2, <2>3, <2>4 DEF Next, Quiescent, vars, clientVars
<1> QED
  BY <1>1, ClientInv, PTL DEF Spec, NoSocketAfterClose

-----------------------------------------------------------------------------
(* Order.                                                                  *)

\* Chunks move on in the order of their numbers, in every place and from one to the
\* next: what has arrived comes before what lies in connections, a connection
\* before the current one's before it, and the buffer last.
InPlace ==
    /\ Increasing(arrived) /\ Increasing(buffered)
    /\ \A c \in Conn : Increasing(wire[c])

Captured ==
    /\ \A x : InSeq(x, arrived) => x <= captured
    /\ \A x : InSeq(x, buffered) => x <= captured
    /\ \A c \in Conn : \A x : InSeq(x, wire[c]) => x <= captured

Ordered ==
    /\ \A x, y : InSeq(x, arrived) /\ InSeq(y, buffered) => x < y
    /\ \A c \in Conn : \A x, y : InSeq(x, arrived) /\ InSeq(y, wire[c]) => x < y
    /\ \A c \in Conn : \A x, y : InSeq(x, wire[c]) /\ InSeq(y, buffered) => x < y
    /\ \A c, d \in Conn : c # d /\ d = socket =>
          \A x, y : InSeq(x, wire[c]) /\ InSeq(y, wire[d]) => x < y

OrderInv == InPlace /\ Captured /\ Ordered

LEMMA OrderInit == Init => OrderInv
BY DEF Init, OrderInv, InPlace, Captured, Ordered, Increasing, InSeq

\* Nothing new anywhere, and the socket as before.
LEMMA OrderShrinks ==
    ASSUME OrderInv, UNCHANGED <<captured, arrived, buffered, socket>>,
           \A c \in Conn : /\ Increasing(wire'[c])
                           /\ \A x : InSeq(x, wire'[c]) => InSeq(x, wire[c])
    PROVE  OrderInv'
<1>1. InPlace'
  BY DEF OrderInv, InPlace
<1>2. Captured'
  BY DEF OrderInv, Captured
<1>3. Ordered'
  BY DEF OrderInv, Ordered
<1> QED
  BY <1>1, <1>2, <1>3 DEF OrderInv

\* Numbers are numbers.
LEMMA AreNumbers ==
    ASSUME TypeOK, NEW x
    PROVE  /\ captured \in Nat /\ MaxChunks \in Nat
           /\ InSeq(x, arrived) => x \in Nat
           /\ InSeq(x, buffered) => x \in Nat
           /\ \A c \in Conn : wire[c] \in Seq(1 .. MaxChunks) /\ (InSeq(x, wire[c]) => x \in Nat)
BY ClientAssumption DEF TypeOK, InSeq

LEMMA OrderStep ==
    ASSUME TypeInv, Single, Handlers, OrderInv, [Next]_vars
    PROVE  OrderInv'
<1> USE ConnAssumption
<1>0. TypeOK /\ gw \in [Conn -> {"none", "upgraded", "serving", "done"}]
      /\ wire \in [Conn -> Seq(1 .. MaxChunks)] /\ buffered \in Seq(1 .. MaxChunks)
      /\ arrived \in Seq(1 .. MaxChunks)
      /\ captured \in Nat /\ MaxChunks \in Nat
  BY ClientAssumption DEF TypeInv, TypeOK
<1>e. Increasing(<<>>) /\ \A x : ~InSeq(x, <<>>)
  BY DEF Increasing, InSeq
<1>1. ASSUME UNCHANGED <<captured, arrived, buffered, socket, wire>> PROVE OrderInv'
  BY <1>1, OrderShrinks DEF OrderInv, InPlace
<1>2. ASSUME TicketMinted PROVE OrderInv'
  <2>1. CASE UNCHANGED socket
    BY <1>1, <1>2, <2>1 DEF TicketMinted, historyVars
  <2>2. ASSUME NEW c \in Conn, gw[c] \in {"none", "done"}, socket' = c PROVE OrderInv'
    <3>1. wire[c] = <<>>
      BY <2>2 DEF Handlers
    <3>2. UNCHANGED <<captured, arrived, buffered, wire>>
      BY <1>2 DEF TicketMinted, historyVars
    <3>3. Ordered'
      BY <1>e, <2>2, <3>1, <3>2 DEF OrderInv, Ordered
    <3> QED
      BY <3>2, <3>3 DEF OrderInv, InPlace, Captured
  <2> QED
    BY <1>2, <2>1, <2>2 DEF TicketMinted
<1>3. ASSUME NEW c \in Conn, SocketOpens(c) PROVE OrderInv'
  <2>1. socket = c /\ wire[c] = <<>>
    BY <1>3 DEF SocketOpens, Single, Live, Handlers
  <2>2. wire' = [wire EXCEPT ![c] = buffered]
    BY <1>0, <1>3, <2>1, OfConcat DEF SocketOpens
  <2>3. buffered' = <<>> /\ UNCHANGED <<captured, arrived, socket>>
    BY <1>3 DEF SocketOpens, Flushed, historyVars
  <2>4. wire'[c] = buffered /\ \A d \in Conn \ {c} : wire'[d] = wire[d]
    BY <1>0, <2>2
  <2>5. InPlace' /\ Captured'
    BY <1>e, <2>3, <2>4 DEF OrderInv, InPlace, Captured
  <2>6. Ordered'
    BY <1>e, <2>1, <2>3, <2>4 DEF OrderInv, Ordered
  <2> QED
    BY <2>5, <2>6 DEF OrderInv
<1>4. ASSUME Capture PROVE OrderInv'
  <2> DEFINE k == captured + 1
  <2>1. /\ k \in 1 .. MaxChunks /\ captured' = k
        /\ Kept(k) \/ LostOnTheWay(k) \/ Sent(k)
        /\ UNCHANGED <<socket, arrived>>
    BY <1>0, <1>4, CaptureCases
  <2>2. /\ \A x : InSeq(x, arrived) => x < k /\ x <= k
        /\ \A x : InSeq(x, buffered) => x < k /\ x <= k
        /\ \A c \in Conn : \A x : InSeq(x, wire[c]) => x < k /\ x <= k
    <3>1. \A x \in Nat : x <= captured => x < k /\ x <= k
      BY <1>0
    <3>2. /\ \A x : InSeq(x, arrived) => x \in Nat /\ x <= captured
          /\ \A x : InSeq(x, buffered) => x \in Nat /\ x <= captured
          /\ \A c \in Conn : \A x : InSeq(x, wire[c]) => x \in Nat /\ x <= captured
      BY <1>0, AreNumbers DEF OrderInv, Captured
    <3> HIDE DEF k
    <3> QED
      BY <3>1, <3>2
  <2>3. CASE Kept(k)
    <3>1. /\ \A x : InSeq(x, buffered') => InSeq(x, buffered) \/ x = k
          /\ Increasing(buffered')
      BY <1>0, <2>1, <2>2, <2>3, OfPush DEF Kept, OrderInv, InPlace
    <3>2. UNCHANGED wire
      BY <2>3 DEF Kept
    <3> HIDE DEF k
    <3>3. k <= k
      BY <2>1
    <3>4. InPlace' /\ Captured'
      BY <2>1, <2>2, <3>1, <3>2, <3>3 DEF OrderInv, InPlace, Captured
    <3>5. Ordered'
      BY <2>1, <2>2, <3>1, <3>2 DEF OrderInv, Ordered
    <3> QED
      BY <3>4, <3>5 DEF OrderInv
  <2>4. CASE LostOnTheWay(k)
    <3>1. UNCHANGED <<buffered, wire>>
      BY <2>4 DEF LostOnTheWay
    <3> QED
      BY <2>1, <2>2, <3>1 DEF OrderInv, InPlace, Captured, Ordered
  <2>5. CASE Sent(k)
    <3>1. socket \in Conn /\ buffered = <<>> /\ UNCHANGED buffered
      BY <2>5 DEF Sent, Handlers
    <3>2. /\ \A x : InSeq(x, wire'[socket]) => InSeq(x, wire[socket]) \/ x = k
          /\ Increasing(wire'[socket])
          /\ \A d \in Conn \ {socket} : wire'[d] = wire[d]
      <4> DEFINE w == wire[socket]
      <4>1. wire'[socket] = Append(w, k) /\ \A d \in Conn \ {socket} : wire'[d] = wire[d]
        BY <1>0, <2>5, <3>1 DEF Sent
      <4>2. w \in Seq(1 .. MaxChunks) /\ Increasing(w) /\ \A x : InSeq(x, w) => x < k
        BY <1>0, <2>2, <3>1 DEF OrderInv, InPlace
      <4>3. \A s \in Seq(1 .. MaxChunks) : \A n \in 1 .. MaxChunks :
              /\ \A x : InSeq(x, Append(s, n)) <=> InSeq(x, s) \/ x = n
              /\ Increasing(s) /\ (\A x : InSeq(x, s) => x < n) => Increasing(Append(s, n))
        BY <1>0, OfAppend
      <4> HIDE DEF k, w
      <4>4. /\ \A x : InSeq(x, Append(w, k)) <=> InSeq(x, w) \/ x = k
            /\ Increasing(Append(w, k))
        BY <2>1, <4>2, <4>3
      <4> QED
        BY <4>1, <4>4 DEF w
    <3> HIDE DEF k
    <3>3. k <= k
      BY <2>1
    <3>4. InPlace' /\ Captured'
      BY <2>1, <2>2, <3>1, <3>2, <3>3 DEF OrderInv, InPlace, Captured
    <3>5. Ordered'
      BY <1>e, <2>1, <2>2, <3>1, <3>2 DEF OrderInv, Ordered
    <3> QED
      BY <3>4, <3>5 DEF OrderInv
  <2> QED
    BY <2>1, <2>3, <2>4, <2>5
<1>5. ASSUME NEW c \in Conn, Break(c) PROVE OrderInv'
  <2>1. PICK n \in 0 .. Len(wire[c]) : wire' = [wire EXCEPT ![c] = SubSeq(@, 1, n)]
    BY <1>5 DEF Break
  <2>2. \A d \in Conn : /\ Increasing(wire'[d])
                        /\ \A x : InSeq(x, wire'[d]) => InSeq(x, wire[d])
    BY <1>0, <2>1, OfCut DEF OrderInv, InPlace
  <2> QED
    BY <1>5, <2>2, OrderShrinks DEF Break, clientVars
<1>6. ASSUME NEW c \in Conn, RefuseSession(c) \/ HandlerEnds(c) PROVE OrderInv'
  <2>1. \A d \in Conn : /\ Increasing(wire'[d])
                        /\ \A x : InSeq(x, wire'[d]) => InSeq(x, wire[d])
    BY <1>0, <1>e, <1>6 DEF RefuseSession, HandlerEnds, OrderInv, InPlace
  <2> QED
    BY <1>6, <2>1, OrderShrinks DEF RefuseSession, HandlerEnds, clientVars
<1>7. ASSUME NEW c \in Conn, ReceiveFrame(c) PROVE OrderInv'
  <2> DEFINE h == Head(wire[c])
             t == Tail(wire[c])
  <2>1. wire[c] \in Seq(1 .. MaxChunks) /\ wire[c] # <<>> /\ gw[c] = "serving"
        /\ Increasing(wire[c])
    BY <1>0, <1>7 DEF ReceiveFrame, OrderInv, InPlace
  <2>2. /\ h \in 1 .. MaxChunks
        /\ Increasing(t) /\ \A x : InSeq(x, t) => h < x
        /\ \A x : InSeq(x, wire[c]) <=> InSeq(x, t) \/ x = h
    BY <1>0, <2>1, OfTail
  <2>3. /\ wire'[c] = t /\ \A d \in Conn \ {c} : wire'[d] = wire[d]
        /\ arrived' \in {arrived, Append(arrived, h)}
        /\ UNCHANGED <<captured, buffered, socket>>
    BY <1>0, <1>7 DEF ReceiveFrame, clientVars
  <2> HIDE DEF h, t
  <2>4. \A d \in Conn : /\ Increasing(wire'[d])
                        /\ \A x : InSeq(x, wire'[d]) => InSeq(x, wire[d])
    BY <2>2, <2>3 DEF OrderInv, InPlace
  <2>5. CASE UNCHANGED arrived
    BY <2>3, <2>4, <2>5, OrderShrinks
  <2>6. CASE arrived' = Append(arrived, h)
    <3>1. InSeq(h, wire[c]) /\ \A x : InSeq(x, arrived) => x < h
      BY <2>2 DEF OrderInv, Ordered
    <3>2. /\ \A x : InSeq(x, arrived') => InSeq(x, arrived) \/ x = h
          /\ Increasing(arrived')
      BY <1>0, <2>2, <2>6, <3>1, OfAppend DEF OrderInv, InPlace
    <3>3. \A d \in Conn : \A x : InSeq(x, wire'[d]) => h < x
      <4> SUFFICES ASSUME NEW d \in Conn, NEW x, InSeq(x, wire'[d]) PROVE h < x
        OBVIOUS
      <4>1. CASE d = c
        BY <2>2, <2>3, <4>1
      <4>2. CASE d # c
        <5>1. InSeq(x, wire[d])
          BY <2>4
        <5>2. gw[d] = "upgraded"
          BY <1>e, <2>1, <4>2, <5>1 DEF Handlers
        <5>3. d = socket
          BY <5>2 DEF Handlers
        <5> QED
          BY <3>1, <4>2, <5>1, <5>3 DEF OrderInv, Ordered
      <4> QED
        BY <4>1, <4>2
    <3>4. InPlace' /\ Captured'
      BY <2>3, <2>4, <3>1, <3>2 DEF OrderInv, InPlace, Captured
    <3>5. Ordered'
      BY <2>3, <2>4, <3>1, <3>2, <3>3 DEF OrderInv, Ordered
    <3> QED
      BY <3>4, <3>5 DEF OrderInv
  <2> QED
    BY <2>3, <2>5, <2>6
<1>8. ASSUME \/ BackoffElapsed \/ TicketFails \/ CloseByCaller \/ UNCHANGED vars
             \/ \E c \in Conn : SocketCloses(c) \/ StartSession(c)
      PROVE  OrderInv'
  BY <1>1, <1>8
  DEF BackoffElapsed, TicketFails, CloseByCaller, SocketCloses, StartSession, vars, clientVars,
      gatewayVars, historyVars
<1> QED
  BY <1>2, <1>3, <1>4, <1>5, <1>6, <1>7, <1>8 DEF Next, Quiescent

LEMMA OrderCorrect == Spec => [](TypeInv /\ Single /\ Handlers /\ OrderInv)
BY ClientInv, OrderInit, OrderStep, PTL DEF Spec

\* The gateway reads audio in the order it was spoken and none of it twice, across
\* reconnects, flushes and the leftovers of broken connections.
THEOREM ArrivalsInOrder == Spec => []ArrivesInOrder
<1>1. OrderInv => ArrivesInOrder
  BY DEF OrderInv, InPlace, Increasing, ArrivesInOrder
<1> QED
  BY <1>1, OrderCorrect, PTL

-----------------------------------------------------------------------------
(* Drops.                                                                  *)

Past == turnedAway \cup lostWithLink \cup lostInRefusal

\* Where a chunk is that is not in the buffer, and the chunks that are nowhere.
Elsewhere(k) == InSeq(k, arrived) \/ (\E c \in Conn : InSeq(k, wire[c])) \/ k \in Past
Nowhere == {k \in 1 .. captured : ~InSeq(k, buffered) /\ ~Elsewhere(k)}

\* What is over came before what waits in the buffer.
PastFirst ==
    /\ \A x \in Past : x <= captured
    /\ \A x \in Past : \A y : InSeq(y, buffered) => x < y

DropInv == PastFirst /\ totalDropped = Cardinality(Nowhere)

LEMMA DropInit == Init => DropInv
<1> SUFFICES ASSUME Init PROVE DropInv
  OBVIOUS
<1>1. Nowhere = {}
  BY DEF Init, Nowhere
<1>2. PastFirst /\ totalDropped = 0
  BY DEF Init, PastFirst, Past
<1> QED
  BY <1>1, <1>2, FS_EmptySet DEF DropInv

\* Moving chunks about drops none.
LEMMA DropsSame ==
    ASSUME DropInv, UNCHANGED <<captured, totalDropped>>,
           \A k : (InSeq(k, buffered) \/ Elsewhere(k)) <=> (InSeq(k, buffered') \/ Elsewhere(k)')
    PROVE  totalDropped' = Cardinality(Nowhere')
<1>1. Nowhere' = Nowhere
  BY DEF Nowhere
<1> QED
  BY <1>1 DEF DropInv

LEMMA DropStep ==
    ASSUME TypeInv, Single, Handlers, OrderInv, DropInv, [Next]_vars
    PROVE  DropInv'
<1> USE ConnAssumption
<1>0. TypeOK /\ wire \in [Conn -> Seq(1 .. MaxChunks)] /\ buffered \in Seq(1 .. MaxChunks)
      /\ arrived \in Seq(1 .. MaxChunks)
      /\ captured \in Nat /\ totalDropped \in Nat /\ MaxChunks \in Nat
      /\ Past \subseteq 1 .. MaxChunks
  BY ClientAssumption DEF TypeInv, TypeOK, Past
<1>e. \A x : ~InSeq(x, <<>>)
  BY DEF InSeq
<1>w. \A c \in Conn : \A x : x \in SetOf(wire[c]) <=> InSeq(x, wire[c])
  BY <1>0, OfAll
<1>1. ASSUME UNCHANGED <<captured, totalDropped, buffered, arrived, wire, turnedAway,
                         lostWithLink, lostInRefusal>>
      PROVE  DropInv'
  BY <1>1 DEF DropInv, PastFirst, Past, Nowhere, Elsewhere
\* Chunks of a connection are read, cut off or thrown away.
<1>2. ASSUME UNCHANGED <<captured, totalDropped, buffered>>, NEW c \in Conn,
             \A d \in Conn \ {c} : wire'[d] = wire[d],
             \A x : InSeq(x, wire'[c]) => InSeq(x, wire[c]),
             \A x : InSeq(x, arrived) => InSeq(x, arrived'),
             \A x : InSeq(x, arrived') => InSeq(x, arrived) \/ InSeq(x, wire[c]),
             \A x : InSeq(x, wire[c]) => InSeq(x, wire'[c]) \/ InSeq(x, arrived') \/ x \in Past',
             Past \subseteq Past', \A x \in Past' : x \in Past \/ InSeq(x, wire[c])
      PROVE  DropInv'
  <2>1. \A k : Elsewhere(k) <=> Elsewhere(k)'
    BY <1>2 DEF Elsewhere
  <2>2. totalDropped' = Cardinality(Nowhere')
    BY <1>2, <2>1, DropsSame
  <2>3. PastFirst'
    BY <1>2 DEF DropInv, PastFirst, OrderInv, Ordered, Captured
  <2> QED
    BY <2>2, <2>3 DEF DropInv
<1>3. ASSUME NEW c \in Conn, SocketOpens(c) PROVE DropInv'
  <2>1. socket = c /\ wire[c] = <<>>
    BY <1>3 DEF SocketOpens, Single, Live, Handlers
  <2>2. wire'[c] = buffered /\ \A d \in Conn \ {c} : wire'[d] = wire[d]
    BY <1>0, <1>3, <2>1, OfConcat DEF SocketOpens
  <2>3. buffered' = <<>> /\ UNCHANGED <<captured, totalDropped, arrived, Past>>
    BY <1>3 DEF SocketOpens, Flushed, historyVars, Past
  <2>4. \A k : (InSeq(k, buffered) \/ Elsewhere(k)) <=> (InSeq(k, buffered') \/ Elsewhere(k)')
    BY <1>e, <2>1, <2>2, <2>3 DEF Elsewhere
  <2>5. totalDropped' = Cardinality(Nowhere')
    BY <2>3, <2>4, DropsSame
  <2>6. PastFirst'
    BY <1>e, <2>3 DEF DropInv, PastFirst
  <2> QED
    BY <2>5, <2>6 DEF DropInv
<1>4. ASSUME Capture PROVE DropInv'
  <2> DEFINE k == captured + 1
             h == Head(buffered)
  <2>1. /\ k \in 1 .. MaxChunks /\ captured' = k
        /\ Kept(k) \/ LostOnTheWay(k) \/ Sent(k)
        /\ UNCHANGED <<socket, arrived, turnedAway>>
    BY <1>0, <1>4, CaptureCases
  <2>2. 1 .. k = (1 .. captured) \cup {k} /\ k \notin 1 .. captured
    BY <1>0
  <2>3. /\ \A x \in Past : x < k /\ x <= k
        /\ \A x : InSeq(x, buffered) => x < k /\ x <= k /\ x \in 1 .. captured
    <3>1. \A x \in Nat : x <= captured => x < k /\ x <= k
      BY <1>0
    <3>2. /\ \A x \in Past : x \in Nat /\ x <= captured
          /\ \A x : InSeq(x, buffered) => x \in 1 .. MaxChunks /\ x <= captured
      BY <1>0, OfAll DEF OrderInv, Captured, DropInv, PastFirst
    <3>3. \A x \in 1 .. MaxChunks : x <= captured => x \in 1 .. captured /\ x \in Nat
      BY <1>0
    <3> HIDE DEF k
    <3> QED
      BY <3>1, <3>2, <3>3
  <2> HIDE DEF k
  <2>4. ASSUME UNCHANGED totalDropped,
               \A x : (InSeq(x, buffered) \/ Elsewhere(x) \/ x = k)
                        <=> (InSeq(x, buffered') \/ Elsewhere(x)')
        PROVE  totalDropped' = Cardinality(Nowhere')
    <3>1. Nowhere' = Nowhere
      BY <2>1, <2>2, <2>4 DEF Nowhere
    <3> QED
      BY <2>4, <3>1 DEF DropInv
  <2>5. CASE Kept(k)
    <3>1. /\ \A x : InSeq(x, buffered') => InSeq(x, buffered) \/ x = k
          /\ InSeq(k, buffered')
          /\ Drops = 0 => \A x : InSeq(x, buffered) => InSeq(x, buffered')
          /\ Drops # 0 => /\ Drops = 1 /\ InSeq(h, buffered) /\ ~InSeq(h, buffered')
                          /\ \A x : InSeq(x, buffered) => InSeq(x, buffered') \/ x = h
      BY <1>0, <2>1, <2>3, <2>5, OfPush DEF Kept, OrderInv, InPlace
    <3> HIDE DEF h
    <3>2. UNCHANGED <<wire, Past>> /\ totalDropped' = totalDropped + Drops
      BY <2>1, <2>5 DEF Kept, Past
    <3>3. \A x : Elsewhere(x)' <=> Elsewhere(x)
      BY <2>1, <3>2 DEF Elsewhere
    <3>4. PastFirst'
      BY <2>1, <2>3, <3>1, <3>2 DEF DropInv, PastFirst
    <3>5. CASE Drops = 0
      <4>1. UNCHANGED totalDropped
        BY <1>0, <3>2, <3>5
      <4>2. \A x : (InSeq(x, buffered) \/ Elsewhere(x) \/ x = k)
                       <=> (InSeq(x, buffered') \/ Elsewhere(x)')
        BY <3>1, <3>3, <3>5
      <4> QED
        BY <2>4, <3>4, <4>1, <4>2 DEF DropInv
    <3>6. CASE Drops # 0
      <4>1. ~Elsewhere(h)
        <5>1. /\ \A x : InSeq(x, arrived) => x < h
              /\ \A c \in Conn : \A x : InSeq(x, wire[c]) => x < h
              /\ \A x \in Past : x < h
          BY <3>1, <3>6 DEF OrderInv, Ordered, DropInv, PastFirst
        <5>2. h \in Nat
          BY <2>3, <3>1, <3>6
        <5> QED
          BY <5>1, <5>2 DEF Elsewhere
      <4>2. h \in 1 .. captured /\ h # k /\ h \notin Nowhere
        BY <2>2, <2>3, <3>1, <3>6 DEF Nowhere
      <4>3. Nowhere' = Nowhere \cup {h}
        BY <2>1, <2>2, <3>1, <3>3, <3>6, <4>1, <4>2 DEF Nowhere
      <4>4. IsFiniteSet(Nowhere)
        <5>1. captured \in Int /\ 1 \in Int
          BY <1>0
        <5>2. IsFiniteSet(1 .. captured)
          BY <5>1, FS_Interval
        <5>3. Nowhere \subseteq 1 .. captured
          BY DEF Nowhere
        <5> QED
          BY <5>2, <5>3, FS_Subset
      <4>5. Cardinality(Nowhere') = Cardinality(Nowhere) + 1
        BY <4>2, <4>3, <4>4, FS_AddElement
      <4> QED
        BY <3>1, <3>2, <3>4, <3>6, <4>5 DEF DropInv
    <3> QED
      BY <3>5, <3>6
  <2>6. CASE LostOnTheWay(k)
    <3>1. /\ buffered = <<>> /\ UNCHANGED <<buffered, wire, totalDropped>>
          /\ Past' = Past \cup {k}
      BY <2>1, <2>6 DEF LostOnTheWay, Handlers, Past
    <3>2. k <= k
      BY <2>1
    <3>3. PastFirst'
      BY <1>e, <2>1, <2>3, <3>1, <3>2 DEF DropInv, PastFirst
    <3>4. \A x : (InSeq(x, buffered) \/ Elsewhere(x) \/ x = k)
                     <=> (InSeq(x, buffered') \/ Elsewhere(x)')
      BY <2>1, <3>1 DEF Elsewhere
    <3> QED
      BY <2>4, <3>1, <3>3, <3>4 DEF DropInv
  <2>7. CASE Sent(k)
    <3>1. /\ socket \in Conn /\ buffered = <<>>
          /\ UNCHANGED <<buffered, totalDropped, Past>>
      BY <2>1, <2>7 DEF Sent, Handlers, Past
    <3> DEFINE w == wire[socket]
    <3>2. w \in Seq(1 .. MaxChunks) /\ wire'[socket] = Append(w, k)
          /\ \A d \in Conn \ {socket} : wire'[d] = wire[d]
      BY <1>0, <2>7, <3>1 DEF Sent
    <3>3. \A s \in Seq(1 .. MaxChunks) : \A n \in 1 .. MaxChunks : \A x :
             InSeq(x, Append(s, n)) <=> InSeq(x, s) \/ x = n
      BY <1>0, OfAppend
    <3>4. \A x : InSeq(x, wire'[socket]) <=> InSeq(x, w) \/ x = k
      <4> HIDE DEF w
      <4> QED
        BY <2>1, <3>2, <3>3
    <3>5. PastFirst'
      BY <1>e, <2>1, <2>3, <3>1 DEF DropInv, PastFirst
    <3>6. \A x : (InSeq(x, buffered) \/ Elsewhere(x) \/ x = k)
                     <=> (InSeq(x, buffered') \/ Elsewhere(x)')
      BY <2>1, <3>1, <3>2, <3>4 DEF Elsewhere
    <3> QED
      BY <2>4, <3>1, <3>5, <3>6 DEF DropInv
  <2> QED
    BY <2>1, <2>5, <2>6, <2>7
<1>5. ASSUME NEW c \in Conn, Break(c) PROVE DropInv'
  <2>1. PICK n \in 0 .. Len(wire[c]) :
          /\ wire' = [wire EXCEPT ![c] = SubSeq(@, 1, n)]
          /\ lostWithLink' = lostWithLink \cup SetOf(SubSeq(wire[c], n + 1, Len(wire[c])))
    BY <1>5 DEF Break
  <2>2. \A x : InSeq(x, wire[c]) <=> \/ InSeq(x, SubSeq(wire[c], 1, n))
                                    \/ x \in SetOf(SubSeq(wire[c], n + 1, Len(wire[c])))
    BY <1>0, OfCut
  <2>3. /\ UNCHANGED <<captured, totalDropped, buffered, arrived>>
        /\ Past' = Past \cup SetOf(SubSeq(wire[c], n + 1, Len(wire[c])))
        /\ wire'[c] = SubSeq(wire[c], 1, n) /\ \A d \in Conn \ {c} : wire'[d] = wire[d]
    BY <1>0, <1>5, <2>1 DEF Break, clientVars, Past
  <2> QED
    BY <1>2, <2>2, <2>3
<1>6. ASSUME NEW c \in Conn, RefuseSession(c) \/ HandlerEnds(c) PROVE DropInv'
  <2>1. /\ UNCHANGED <<captured, totalDropped, buffered, arrived>>
        /\ Past' = Past \cup SetOf(wire[c])
        /\ wire'[c] = <<>> /\ \A d \in Conn \ {c} : wire'[d] = wire[d]
    BY <1>0, <1>6 DEF RefuseSession, HandlerEnds, clientVars, Past
  <2> QED
    BY <1>2, <1>e, <1>w, <2>1
<1>7. ASSUME NEW c \in Conn, ReceiveFrame(c) PROVE DropInv'
  <2> DEFINE h == Head(wire[c])
             t == Tail(wire[c])
  <2>1. wire[c] \in Seq(1 .. MaxChunks) /\ wire[c] # <<>>
    BY <1>0, <1>7 DEF ReceiveFrame
  <2>2. h \in 1 .. MaxChunks /\ \A x : InSeq(x, wire[c]) <=> InSeq(x, t) \/ x = h
    BY <1>0, <2>1, OfTail
  <2>3. \A x : InSeq(x, Append(arrived, h)) <=> InSeq(x, arrived) \/ x = h
    <3> HIDE DEF h
    <3> QED
      BY <1>0, <2>2, OfAppend
  <2>4. /\ UNCHANGED <<captured, totalDropped, buffered>>
        /\ wire'[c] = t /\ \A d \in Conn \ {c} : wire'[d] = wire[d]
        /\ \/ arrived' = Append(arrived, h) /\ Past' = Past
           \/ arrived' = arrived /\ Past' = Past \cup {h}
    BY <1>0, <1>7 DEF ReceiveFrame, clientVars, Past
  <2> HIDE DEF h, t
  <2>5. /\ \A x : InSeq(x, wire'[c]) => InSeq(x, wire[c])
        /\ \A x : InSeq(x, arrived) => InSeq(x, arrived')
        /\ \A x : InSeq(x, arrived') => InSeq(x, arrived) \/ InSeq(x, wire[c])
    BY <2>2, <2>3, <2>4
  <2>6. /\ \A x : InSeq(x, wire[c]) => InSeq(x, wire'[c]) \/ InSeq(x, arrived') \/ x \in Past'
        /\ Past \subseteq Past' /\ \A x \in Past' : x \in Past \/ InSeq(x, wire[c])
    BY <2>2, <2>3, <2>4
  <2> QED
    BY <1>2, <2>4, <2>5, <2>6
<1>8. ASSUME \/ BackoffElapsed \/ TicketFails \/ TicketMinted \/ CloseByCaller \/ UNCHANGED vars
             \/ \E c \in Conn : SocketCloses(c) \/ StartSession(c)
      PROVE  DropInv'
  BY <1>1, <1>8
  DEF BackoffElapsed, TicketFails, TicketMinted, CloseByCaller, SocketCloses, StartSession, vars,
      clientVars, gatewayVars, historyVars
<1> QED
  BY <1>3, <1>4, <1>5, <1>6, <1>7, <1>8 DEF Next, Quiescent

\* The learner is told of every chunk the buffer let go, and of no other
\* (pushBoundedDropOldest, onBufferDrop).
THEOREM DropsReported == Spec => []DropsAreReported
<1>1. DropInv => DropsAreReported
  <2> SUFFICES ASSUME DropInv PROVE DropsAreReported
    OBVIOUS
  <2>1. Nowhere = {k \in 1 .. captured :
                     /\ ~InSeq(k, buffered) /\ ~InSeq(k, arrived)
                     /\ \A c \in Conn : ~InSeq(k, wire[c])
                     /\ k \notin turnedAway \cup lostWithLink \cup lostInRefusal}
    BY DEF Nowhere, Elsewhere, Past
  <2> QED
    BY <2>1 DEF DropInv, DropsAreReported
<1>2. Spec => []DropInv
  BY OrderCorrect, DropInit, DropStep, PTL DEF Spec
<1> QED
  BY <1>1, <1>2, PTL
=============================================================================
