--------------------------- MODULE ReconnectClient ---------------------------
(***************************************************************************)
(* The web client's live upload (startGatewayAudioUpload) against the      *)
(* gateway's rule of one connection per session.                           *)
(*                                                                         *)
(* The client keeps a chain: fetch a ticket, open a socket, and when it    *)
(* closes wait out a backoff and start over, up to MaxAttempts failures in *)
(* a row.  Audio captured while no socket is open goes to a bounded buffer *)
(* that is flushed when one opens.  The gateway admits every socket whose  *)
(* ticket is good and only then looks whether the session is free; it      *)
(* learns of a lost peer later than the client does, or never.             *)
(*                                                                         *)
(* Chunks are numbered in the order the microphone emits them.  A Conn     *)
(* stands for a socket and its handler, and is used again after both are   *)
(* done.                                                                   *)
(***************************************************************************)
EXTENDS Naturals, Sequences, FiniteSets

CONSTANTS
    Conn, NoConn,
    MaxAttempts,    \* failures in a row before the client gives up (6)
    MaxBuffered,    \* chunks held while disconnected (125)
    MaxChunks,      \* bound of the model: chunks captured
    MaxBreaks       \* bound of the model: connections that break

ASSUME ConnAssumption == NoConn \notin Conn
ASSUME ClientAssumption ==
    /\ MaxAttempts \in Nat /\ MaxBuffered \in Nat \ {0}
    /\ MaxChunks \in Nat /\ MaxBreaks \in Nat

VARIABLES
    \* the closure of startGatewayAudioUpload
    status,         \* what onStatusChange last said
    closedByCaller, attempt, buffered, totalDropped,
    socket,         \* the latest socket; NoConn is null
    tickets,        \* getUrl calls under way
    timers,         \* backoff timers running
    ws,             \* per socket, readyState; "done" once onclose has run
    \* between client and gateway
    link,           \* per socket, "up" or "down"
    wire,           \* per socket, the frames the handler has not read
    \* the gateway
    gw,             \* per socket, where its handler is
    holder,         \* the connection the session map names
    \* history
    captured,       \* chunks the microphone has emitted
    arrived,        \* chunks accepted by a handler, in order
    turnedAway,     \* chunks answered with accepted = false
    lostWithLink,   \* chunks in a connection that broke
    lostInRefusal,  \* chunks in a connection whose handler refused the session
    breaks

clientVars  == <<status, closedByCaller, attempt, buffered, totalDropped, socket,
                 tickets, timers, ws>>
gatewayVars == <<gw, holder>>
historyVars == <<captured, arrived, turnedAway, lostWithLink, lostInRefusal, breaks>>
vars == <<clientVars, link, wire, gatewayVars, historyVars>>

InSeq(k, s) == \E i \in 1 .. Len(s) : s[i] = k
SetOf(s)    == {s[i] : i \in 1 .. Len(s)}

Init ==
    /\ status = "connecting" /\ closedByCaller = FALSE
    /\ attempt = 0 /\ buffered = <<>> /\ totalDropped = 0
    /\ socket = NoConn /\ tickets = 1 /\ timers = 0
    /\ ws = [c \in Conn |-> "none"]
    /\ link = [c \in Conn |-> "up"]
    /\ wire = [c \in Conn |-> <<>>]
    /\ gw = [c \in Conn |-> "none"]
    /\ holder = NoConn
    /\ captured = 0 /\ arrived = <<>> /\ turnedAway = {}
    /\ lostWithLink = {} /\ lostInRefusal = {} /\ breaks = 0

-----------------------------------------------------------------------------
(* The client.                                                             *)

\* How often a failed socket calls retry: onclose does and onerror, which precedes
\* it, only reports.
ErrorAndClose == 2
CloseOnly == 1

\* retry: the next attempt, or give up.
Retry(calls) ==
    /\ attempt' = attempt + calls
    /\ IF attempt + calls > MaxAttempts
       THEN status' = "degraded" /\ UNCHANGED timers
       ELSE status' = "reconnecting" /\ timers' = timers + calls

\* An assumption on timing: the shortest backoff, half of baseDelayMs or 250 ms, and
\* the ticket's round trip after it outlast the scheduling of a task in the gateway,
\* so that the handler of the socket before has begun.
HandlersStarted == \A c \in Conn : gw[c] # "upgraded"

\* The timer fires: open() begins, unless the caller has closed.
BackoffElapsed ==
    /\ timers > 0 /\ timers' = timers - 1
    /\ HandlersStarted
    /\ IF closedByCaller
       THEN UNCHANGED <<tickets, status>>
       ELSE /\ tickets' = tickets + 1
            /\ status' = IF attempt = 0 THEN "connecting" ELSE "reconnecting"
    /\ UNCHANGED <<closedByCaller, attempt, buffered, totalDropped, socket, ws, link,
                   wire, gatewayVars, historyVars>>

\* getUrl rejects.
TicketFails ==
    /\ tickets > 0 /\ tickets' = tickets - 1
    /\ Retry(1)
    /\ UNCHANGED <<closedByCaller, buffered, totalDropped, socket, ws, link, wire,
                   gatewayVars, historyVars>>

\* open() looks again after its await.
NoLook == FALSE
ClosedMeanwhile == closedByCaller

\* getUrl resolves: a new socket, unless the caller has closed meanwhile.
TicketMinted ==
    /\ tickets > 0 /\ tickets' = tickets - 1
    /\ IF ClosedMeanwhile
       THEN UNCHANGED <<socket, ws, link, gw>>
       ELSE \E c \in Conn :
               /\ ws[c] \in {"none", "done"} /\ gw[c] \in {"none", "done"}
               /\ socket' = c
               /\ ws' = [ws EXCEPT ![c] = "connecting"]
               /\ link' = [link EXCEPT ![c] = "up"]
               /\ gw' = [gw EXCEPT ![c] = "none"]
    /\ UNCHANGED <<status, closedByCaller, attempt, buffered, totalDropped, timers, wire,
                   holder, historyVars>>

\* flush: everything buffered goes into the open socket, oldest first.
FlushKeeps == buffered
Flushed == <<>>

\* The upgrade succeeds and onopen runs.
SocketOpens(c) ==
    /\ ws[c] = "connecting"
    /\ ws' = [ws EXCEPT ![c] = "open"]
    /\ gw' = [gw EXCEPT ![c] = "upgraded"]
    /\ attempt' = 0
    /\ status' = "connected"
    /\ wire' = [wire EXCEPT ![socket] = @ \o buffered]
    /\ buffered' = Flushed
    /\ UNCHANGED <<closedByCaller, totalDropped, socket, tickets, timers, link, holder,
                   historyVars>>

\* The socket fails before it opens, or the client notices that an open one is
\* gone, or a closing one has closed: onclose runs.
SocketCloses(c) ==
    /\ \/ ws[c] \in {"connecting", "closing"}
       \/ ws[c] = "open" /\ (link[c] = "down" \/ gw[c] = "done")
    /\ ws' = [ws EXCEPT ![c] = "done"]
    /\ IF closedByCaller THEN status' = "closed" /\ UNCHANGED <<attempt, timers>>
                         ELSE Retry(CloseOnly)
    /\ UNCHANGED <<closedByCaller, buffered, totalDropped, socket, tickets, link, wire,
                   gatewayVars, historyVars>>

\* pushBoundedDropOldest.
DropsUncounted == 0
PushedAnyway(k) == Append(buffered, k)
Drops == IF Len(buffered) < MaxBuffered THEN 0 ELSE 1
Pushed(k) ==
    IF Len(buffered) < MaxBuffered THEN Append(buffered, k)
                                   ELSE Append(Tail(buffered), k)

\* The microphone emits a chunk and sendChunk takes it.  An open socket takes it
\* whatever has become of the other end.
Capture ==
    LET k == captured + 1
        sends == IF socket = NoConn THEN FALSE ELSE ws[socket] = "open"
    IN  /\ captured < MaxChunks /\ ~closedByCaller
        /\ captured' = k
        /\ IF ~sends
           THEN /\ buffered' = Pushed(k)
                /\ totalDropped' = totalDropped + Drops
                /\ UNCHANGED <<wire, lostWithLink, lostInRefusal>>
           ELSE /\ UNCHANGED <<buffered, totalDropped>>
                /\ CASE link[socket] = "down" ->
                          /\ lostWithLink' = lostWithLink \cup {k}
                          /\ UNCHANGED <<wire, lostInRefusal>>
                     [] link[socket] = "up" /\ gw[socket] = "done" ->
                          /\ lostInRefusal' = lostInRefusal \cup {k}
                          /\ UNCHANGED <<wire, lostWithLink>>
                     [] OTHER ->
                          /\ wire' = [wire EXCEPT ![socket] = Append(@, k)]
                          /\ UNCHANGED <<lostWithLink, lostInRefusal>>
        /\ UNCHANGED <<status, closedByCaller, attempt, socket, tickets, timers, ws, link,
                       gatewayVars, arrived, turnedAway, breaks>>

\* The caller closes.
CloseByCaller ==
    /\ ~closedByCaller /\ closedByCaller' = TRUE
    /\ status' = "closed"
    /\ ws' = [c \in Conn |-> IF c = socket /\ ws[c] \in {"connecting", "open"}
                             THEN "closing" ELSE ws[c]]
    /\ UNCHANGED <<attempt, buffered, totalDropped, socket, tickets, timers, link, wire,
                   gatewayVars, historyVars>>

-----------------------------------------------------------------------------
(* The network and the gateway.                                            *)

\* The connection breaks: what the handler's host had received can still be read.
Break(c) ==
    /\ breaks < MaxBreaks /\ breaks' = breaks + 1
    /\ gw[c] \in {"upgraded", "serving"} /\ link[c] = "up"
    /\ link' = [link EXCEPT ![c] = "down"]
    /\ \E n \in 0 .. Len(wire[c]) :
          /\ wire' = [wire EXCEPT ![c] = SubSeq(@, 1, n)]
          /\ lostWithLink' = lostWithLink \cup SetOf(SubSeq(wire[c], n + 1, Len(wire[c])))
    /\ UNCHANGED <<clientVars, gatewayVars, captured, arrived, turnedAway, lostInRefusal>>

\* start_session, under the write lock of the session map.
SessionUnchecked == TRUE
SessionFree == holder = NoConn

StartSession(c) ==
    /\ gw[c] = "upgraded" /\ SessionFree
    /\ gw' = [gw EXCEPT ![c] = "serving"]
    /\ holder' = c
    /\ UNCHANGED <<clientVars, link, wire, historyVars>>

\* SessionAlreadyExists: the handler says so once and returns; what the client has
\* sent is never read.
RefuseSession(c) ==
    /\ gw[c] = "upgraded" /\ ~SessionFree
    /\ gw' = [gw EXCEPT ![c] = "done"]
    /\ wire' = [wire EXCEPT ![c] = <<>>]
    /\ lostInRefusal' = lostInRefusal \cup SetOf(wire[c])
    /\ UNCHANGED <<clientVars, link, holder, captured, arrived, turnedAway, lostWithLink,
                   breaks>>

\* The handler reads a frame and accepts it, or refuses it: the channel is full.
ReceiveFrame(c) ==
    /\ gw[c] = "serving" /\ wire[c] # <<>>
    /\ wire' = [wire EXCEPT ![c] = Tail(@)]
    /\ \/ arrived' = Append(arrived, Head(wire[c])) /\ UNCHANGED turnedAway
       \/ turnedAway' = turnedAway \cup {Head(wire[c])} /\ UNCHANGED arrived
    /\ UNCHANGED <<clientVars, link, gatewayVars, captured, lostWithLink, lostInRefusal,
                   breaks>>

\* end_session gives the session up.
StillHeld == holder
Released == NoConn

\* recv or an ack fails, or the client's Close frame is read: the loop is left and
\* the session ended.
HandlerEnds(c) ==
    /\ gw[c] = "serving"
    /\ \/ link[c] = "down"
       \/ ws[c] \in {"closing", "done"} /\ wire[c] = <<>>
    /\ gw' = [gw EXCEPT ![c] = "done"]
    /\ holder' = Released
    /\ wire' = [wire EXCEPT ![c] = <<>>]
    /\ lostWithLink' = lostWithLink \cup SetOf(wire[c])
    /\ UNCHANGED <<clientVars, link, captured, arrived, turnedAway, lostInRefusal, breaks>>

-----------------------------------------------------------------------------
\* The caller has closed and nothing is under way.
Quiescent ==
    /\ closedByCaller /\ tickets = 0 /\ timers = 0
    /\ \A c \in Conn : ws[c] \in {"none", "done"} /\ gw[c] \in {"none", "done"}
    /\ UNCHANGED vars

Next ==
    \/ BackoffElapsed \/ TicketFails \/ TicketMinted \/ Capture \/ CloseByCaller
    \/ \E c \in Conn :
          \/ SocketOpens(c) \/ SocketCloses(c) \/ Break(c)
          \/ StartSession(c) \/ RefuseSession(c) \/ ReceiveFrame(c) \/ HandlerEnds(c)
    \/ Quiescent

Spec == Init /\ [][Next]_vars

\* Timers fire, getUrl answers one way or the other, the browser settles a socket
\* that is connecting and reports one that is gone, the handler's task is scheduled.
\* That a handler learns of a broken connection is not in it: it waits in recv
\* without a timeout.
Fairness ==
    /\ WF_vars(BackoffElapsed) /\ WF_vars(TicketMinted \/ TicketFails)
    /\ \A c \in Conn :
          /\ WF_vars(SocketOpens(c) \/ SocketCloses(c))
          /\ WF_vars(StartSession(c) \/ RefuseSession(c)) /\ WF_vars(ReceiveFrame(c))

FairSpec == Spec /\ Fairness

\* With a peer that is reset, or a network that reports it, handlers do learn.
NoticedSpec == FairSpec /\ \A c \in Conn : WF_vars(HandlerEnds(c))

-----------------------------------------------------------------------------
(* What is checked.                                                        *)

\* Every variable keeps its type; the buffer its bound.
TypeOK ==
    /\ status \in {"connecting", "connected", "reconnecting", "closed", "degraded"}
    /\ closedByCaller \in BOOLEAN
    /\ attempt \in 0 .. (MaxAttempts + 1)
    /\ buffered \in Seq(1 .. MaxChunks) /\ Len(buffered) <= MaxBuffered
    /\ totalDropped \in 0 .. MaxChunks
    /\ socket \in Conn \cup {NoConn}
    /\ tickets \in Nat /\ timers \in Nat
    /\ ws \in [Conn -> {"none", "connecting", "open", "closing", "done"}]
    /\ link \in [Conn -> {"up", "down"}]
    /\ wire \in [Conn -> Seq(1 .. MaxChunks)]
    /\ gw \in [Conn -> {"none", "upgraded", "serving", "done"}]
    /\ holder \in Conn \cup {NoConn}
    /\ captured \in 0 .. MaxChunks
    /\ arrived \in Seq(1 .. MaxChunks)
    /\ turnedAway \cup lostWithLink \cup lostInRefusal \subseteq 1 .. MaxChunks
    /\ breaks \in 0 .. MaxBreaks

\* The gateway reads audio in the order it was spoken, and none of it twice,
\* across reconnects, flushes and the leftovers of a broken connection: it numbers
\* and dates chunks by their arrival (handle_audio_socket, flush).
ArrivesInOrder ==
    \A i, j \in 1 .. Len(arrived) : i < j => arrived[i] < arrived[j]

\* One attempt is under way at a time: a ticket, a timer or a socket, never two of
\* them (onclose "owns the backoff").
OneAttemptAtATime ==
    tickets + timers + Cardinality({c \in Conn : ws[c] \in {"connecting", "open"}}) <= 1

\* The learner is told of every chunk that never got into a socket: the counter is
\* the number of chunks that are nowhere else (pushBoundedDropOldest, onBufferDrop).
DropsAreReported ==
    totalDropped =
        Cardinality({k \in 1 .. captured :
            /\ ~InSeq(k, buffered) /\ ~InSeq(k, arrived)
            /\ \A c \in Conn : ~InSeq(k, wire[c])
            /\ k \notin turnedAway \cup lostWithLink \cup lostInRefusal})

\* Once the caller has closed no socket is opened, whatever was under way then.
NoSocketAfterClose ==
    [][closedByCaller => \A c \in Conn : ws'[c] = "connecting" => ws[c] = "connecting"]_vars

\* The current socket's handler serves the session.
Served == socket # NoConn /\ holder = socket

\* A dropped client is served again or gives up; it does not try for ever
\* (liveRecitation.test.ts, "degrades to batch after the retry budget is exhausted,
\* instead of retrying forever").
RetryEnds ==
    (status = "reconnecting") ~> (Served \/ status = "degraded" \/ closedByCaller)
=============================================================================
