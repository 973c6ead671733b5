---------------------------- MODULE AudioPipeline ----------------------------
(***************************************************************************)
(* A learner's recitation on its way to storage.                           *)
(*                                                                         *)
(* One recitation session is carried by any number of websocket            *)
(* connections, one after another.  A connection has two tasks in the      *)
(* realtime gateway: the handler, which numbers each binary frame and puts *)
(* it on a bounded channel (handle_audio_socket), and the forwarder, which *)
(* drains that channel into ml-inference (POST /v1/audio-chunks) and then  *)
(* asks platform-api to index what was stored.  The forwarder outlives the *)
(* handler, so the forwarders of several connections of one session run    *)
(* side by side.                                                           *)
(*                                                                         *)
(* A frame's payload is a number, different for every frame: two frames    *)
(* are different audio, and equality is what ml-inference's sha-256 sees.  *)
(***************************************************************************)
EXTENDS Naturals, Sequences, FiniteSets

CONSTANTS
    Session,            \* recitation sessions
    Conn,               \* websocket connections; each is used once
    NoConn,             \* the session map has no entry
    ChunkCapacity,      \* bound of a connection's channel (8 in the code)
    MaxSessionChunks,   \* sequence numbers a session may use (15 000)
    MaxAttempts,        \* tries of one POST (3)
    SweepAbove,         \* cursors kept before old ones are dropped (1024)
    MaxFrames,          \* bound of the model: frames accepted in a behaviour
    MaxRestarts,        \* bound of the model: restarts of the gateway
    MaxFaults           \* bound of the model: POSTs that go wrong

ASSUME ConnAssumption == NoConn \notin Conn
ASSUME SizeAssumption ==
    /\ ChunkCapacity \in Nat \ {0}
    /\ MaxSessionChunks \in Nat \ {0}
    /\ MaxAttempts \in Nat \ {0}
    /\ SweepAbove \in Nat
    /\ MaxFrames \in Nat
    /\ MaxRestarts \in Nat
    /\ MaxFaults \in Nat

Audio   == 1 .. MaxFrames
NoAudio == 0                                  \* no such file
ChunkNo == 0 .. (MaxSessionChunks - 1)
ChunkId == Session \X ChunkNo                 \* `{session}-ws-{sequence:04}`
Chunk   == [session : Session, number : ChunkNo, audio : Audio]

IdOf(k)    == <<k.session, k.number>>
AudioOf(k) == k.audio

VARIABLES
    \* the handler of each connection
    pc,          \* where it is
    on,          \* the session it serves
    sock,        \* the socket: "up", or "down" when the peer is gone
    seq,         \* its local `sequence`
    pending,     \* the chunk its next ack accepts: a singleton, or {} for a refusal
    \* state of the gateway process
    sessions,    \* session -> the connection whose sender is in the map
    cursor,      \* session_next_sequence; 0 for a session without an entry
    tracked,     \* the sessions that have an entry there
    aged,        \* the entries not touched for six hours
    \* the forwarder of each connection
    chan,        \* its channel
    fpc,         \* where it is
    hand,        \* the chunk it is delivering, as a set of at most one
    att,         \* number of the attempt under way
    ticketLive,  \* the connection's ticket has not expired
    \* storage of ml-inference, and the rows of platform-api
    bin, meta,   \* per chunk id, the audio of the .bin and of the .meta.json
    late,        \* POSTs the gateway gave up on that may still be served
    indexed,     \* chunk ids with a row in audio_chunks
    \* history
    minted,      \* frames accepted so far
    accepted,    \* the chunks accepted (counter chunks_accepted)
    acked,       \* the chunks whose accepting ack was sent
    fwdFailed,   \* chunks counted in chunks_forward_failed
    idxFailed,   \* chunks counted in chunks_index_failed
    idxFaults,   \* chunks for which an index POST went wrong
    lost,        \* chunks in a channel or in hand when the gateway restarted
    stale,       \* sessions whose entry went untouched for six hours, or a restart
    restarts, faults

handlerVars == <<pc, on, sock, seq, pending>>
gatewayVars == <<sessions, cursor, tracked, aged>>
forwardVars == <<chan, fpc, hand, att, ticketLive>>
storeVars   == <<bin, meta, late, indexed>>
countVars   == <<fwdFailed, idxFailed, idxFaults, lost>>
historyVars == <<minted, accepted, acked, stale, restarts, faults>>
vars == <<handlerVars, gatewayVars, forwardVars, storeVars, countVars, historyVars>>

Max2(a, b) == IF a > b THEN a ELSE b

\* The handler owns its session's entry in the map.
Serving(c) == pc[c] \in {"resuming", "open", "acking", "closing", "ending"}

InChannel(k) == \E c \in Conn : \E i \in 1 .. Len(chan[c]) : chan[c][i] = k
InHand(k)    == \E c \in Conn : k \in hand[c]
Stored(k)    == meta[IdOf(k)] = k.audio

Init ==
    /\ pc = [c \in Conn |-> "idle"]
    /\ on \in [Conn -> Session]
    /\ sock = [c \in Conn |-> "up"]
    /\ seq = [c \in Conn |-> 0]
    /\ pending = [c \in Conn |-> {}]
    /\ sessions = [s \in Session |-> NoConn]
    /\ cursor = [s \in Session |-> 0]
    /\ tracked = {}
    /\ aged = {}
    /\ chan = [c \in Conn |-> <<>>]
    /\ fpc = [c \in Conn |-> "none"]
    /\ hand = [c \in Conn |-> {}]
    /\ att = [c \in Conn |-> 1]
    /\ ticketLive = [c \in Conn |-> TRUE]
    /\ bin = [i \in ChunkId |-> NoAudio]
    /\ meta = [i \in ChunkId |-> NoAudio]
    /\ late = {}
    /\ indexed = {}
    /\ minted = 0
    /\ accepted = {}
    /\ acked = {}
    /\ fwdFailed = {}
    /\ idxFailed = {}
    /\ idxFaults = {}
    /\ lost = {}
    /\ stale = {}
    /\ restarts = 0
    /\ faults = 0

-----------------------------------------------------------------------------
(* The world around the gateway.                                           *)

\* The peer closes the socket, or its network does.  The handler learns of it
\* when it next receives or sends.
ClientGone(c) ==
    /\ pc[c] # "idle" /\ pc[c] # "done" /\ sock[c] = "up"
    /\ sock' = [sock EXCEPT ![c] = "down"]
    /\ UNCHANGED <<pc, on, seq, pending, gatewayVars, forwardVars, storeVars,
                   countVars, historyVars>>

\* 300 seconds have passed since platform-api minted the ticket.
TicketExpires(c) ==
    /\ fpc[c] \in {"recv", "post", "index"} /\ ticketLive[c]
    /\ ticketLive' = [ticketLive EXCEPT ![c] = FALSE]
    /\ UNCHANGED <<handlerVars, gatewayVars, chan, fpc, hand, att, storeVars,
                   countVars, historyVars>>

\* Six hours pass in which no cursor is touched.  Ages matter only where there
\* can be enough entries for a sweep.
CursorsAge ==
    /\ Cardinality(Session) > SweepAbove /\ aged # tracked
    /\ aged' = tracked
    /\ stale' = stale \cup tracked
    /\ UNCHANGED <<handlerVars, sessions, cursor, tracked, forwardVars, storeVars,
                   countVars, minted, accepted, acked, restarts, faults>>

\* The process stops and starts: every task and every map of it is gone, and
\* the chunks it had accepted but not delivered are counted nowhere.
GatewayRestart ==
    /\ restarts < MaxRestarts
    /\ restarts' = restarts + 1
    /\ pc' = [c \in Conn |-> IF pc[c] = "idle" THEN "idle" ELSE "done"]
    /\ sock' = [c \in Conn |-> IF pc[c] = "idle" THEN sock[c] ELSE "down"]
    /\ seq' = [c \in Conn |-> 0]
    /\ pending' = [c \in Conn |-> {}]
    /\ sessions' = [s \in Session |-> NoConn]
    /\ cursor' = [s \in Session |-> 0]
    /\ tracked' = {}
    /\ aged' = {}
    /\ chan' = [c \in Conn |-> <<>>]
    /\ fpc' = [c \in Conn |-> IF fpc[c] = "none" THEN "none" ELSE "done"]
    /\ hand' = [c \in Conn |-> {}]
    /\ att' = [c \in Conn |-> 1]
    /\ lost' = lost \cup {k \in accepted : InChannel(k) \/ InHand(k)}
    /\ stale' = Session
    /\ UNCHANGED <<on, ticketLive, storeVars, fwdFailed, idxFailed, idxFaults,
                   minted, accepted, acked, faults>>

-----------------------------------------------------------------------------
(* The handler of connection c.                                            *)

\* The ticket was accepted (module TicketGate) and the upgrade completes.
Admit(c) ==
    /\ pc[c] = "idle"
    /\ pc' = [pc EXCEPT ![c] = "admitted"]
    /\ UNCHANGED <<on, sock, seq, pending, gatewayVars, forwardVars, storeVars,
                   countVars, historyVars>>

\* The check of start_session, under the write lock of the map.
SessionUnchecked(s) == TRUE
SessionFree(s) == sessions[s] = NoConn

\* start_session finds no sender for the session, puts this one there, and the
\* handler spawns the forwarder.
StartSession(c) ==
    /\ pc[c] = "admitted"
    /\ SessionFree(on[c])
    /\ sessions' = [sessions EXCEPT ![on[c]] = c]
    /\ pc' = [pc EXCEPT ![c] = "resuming"]
    /\ fpc' = [fpc EXCEPT ![c] = "recv"]
    /\ UNCHANGED <<on, sock, seq, pending, cursor, tracked, aged, chan, hand, att,
                   ticketLive, storeVars, countVars, historyVars>>

\* SessionAlreadyExists: one refusing ack, and the handler returns.
RefuseSession(c) ==
    /\ pc[c] = "admitted"
    /\ ~SessionFree(on[c])
    /\ pc' = [pc EXCEPT ![c] = "done"]
    /\ UNCHANGED <<on, sock, seq, pending, gatewayVars, forwardVars, storeVars,
                   countVars, historyVars>>

\* Where a connection starts counting: where an earlier one of its session got to.
StartOver(c) == 0
ResumePoint(c) == cursor[on[c]]

\* resume_sequence, read once the session is this connection's.
ResumeSequence(c) ==
    /\ pc[c] = "resuming"
    /\ seq' = [seq EXCEPT ![c] = ResumePoint(c)]
    /\ pc' = [pc EXCEPT ![c] = "open"]
    /\ UNCHANGED <<on, sock, pending, gatewayVars, forwardVars, storeVars,
                   countVars, historyVars>>

\* A binary frame arrives and send_chunk puts it on the channel that the session
\* map names.
AcceptFrame(c) ==
    LET target == sessions[on[c]]
        k == [session |-> on[c], number |-> seq[c], audio |-> minted + 1]
    IN  /\ pc[c] = "open" /\ sock[c] = "up"
        /\ minted < MaxFrames
        /\ seq[c] < MaxSessionChunks
        /\ target # NoConn
        /\ Len(chan[target]) < ChunkCapacity
        /\ minted' = minted + 1
        /\ chan' = [chan EXCEPT ![target] = Append(@, k)]
        /\ accepted' = accepted \cup {k}
        /\ pending' = [pending EXCEPT ![c] = {k}]
        /\ pc' = [pc EXCEPT ![c] = "acking"]
        /\ UNCHANGED <<on, sock, seq, gatewayVars, fpc, hand, att, ticketLive,
                       storeVars, countVars, acked, stale, restarts, faults>>

\* A frame is refused: the cap, no sender, a full channel, or a frame that is
\* empty or too large.  An invalid frame can always arrive, so this is always
\* possible; its ack says accepted = false.
RefuseFrame(c) ==
    /\ pc[c] = "open" /\ sock[c] = "up"
    /\ pc' = [pc EXCEPT ![c] = "acking"]
    /\ UNCHANGED <<on, sock, seq, pending, gatewayVars, forwardVars, storeVars,
                   countVars, historyVars>>

\* The sequence after a sent ack: only an accepting one moves it on.
SeqCountsRefusals(c) == IF seq[c] < MaxSessionChunks THEN seq[c] + 1 ELSE seq[c]
SeqAfterAck(c) == IF pending[c] = {} THEN seq[c] ELSE seq[c] + 1

SendAck(c) ==
    /\ pc[c] = "acking" /\ sock[c] = "up"
    /\ seq' = [seq EXCEPT ![c] = SeqAfterAck(c)]
    /\ acked' = acked \cup pending[c]
    /\ pending' = [pending EXCEPT ![c] = {}]
    /\ pc' = [pc EXCEPT ![c] = "open"]
    /\ UNCHANGED <<on, sock, gatewayVars, forwardVars, storeVars, countVars,
                   minted, accepted, stale, restarts, faults>>

\* Returning from the handler where the code breaks out of its loop.
AckFailsReturns(c) ==
    /\ pc[c] = "acking" /\ sock[c] = "down"
    /\ pending' = [pending EXCEPT ![c] = {}]
    /\ pc' = [pc EXCEPT ![c] = "done"]
    /\ UNCHANGED <<on, sock, seq, gatewayVars, forwardVars, storeVars, countVars,
                   historyVars>>

\* The ack cannot be sent: the loop is left with `sequence` as it was.
AckFails(c) ==
    /\ pc[c] = "acking" /\ sock[c] = "down"
    /\ pending' = [pending EXCEPT ![c] = {}]
    /\ pc' = [pc EXCEPT ![c] = "closing"]
    /\ UNCHANGED <<on, sock, seq, gatewayVars, forwardVars, storeVars, countVars,
                   historyVars>>

\* recv returns Close, an error or nothing.
LeaveLoop(c) ==
    /\ pc[c] = "open" /\ sock[c] = "down"
    /\ pc' = [pc EXCEPT ![c] = "closing"]
    /\ UNCHANGED <<on, sock, seq, pending, gatewayVars, forwardVars, storeVars,
                   countVars, historyVars>>

\* The entries that the sweep of record_sequence drops after touching s.
SweptEntirely(entries, s) ==
    IF Cardinality(entries) > SweepAbove THEN entries \ {s} ELSE {}
Swept(entries, s) ==
    IF Cardinality(entries) > SweepAbove THEN aged \ {s} ELSE {}

\* record_sequence: keep the larger value, touch the entry, and when there are
\* too many entries drop those six hours old.
RecordSequence(c) ==
    LET s       == on[c]
        entries == tracked \cup {s}
        swept   == Swept(entries, s)
    IN  /\ pc[c] = "closing"
        /\ cursor' = [x \in Session |->
                         IF x \in swept THEN 0
                         ELSE IF x = s THEN Max2(cursor[s], seq[c]) ELSE cursor[x]]
        /\ tracked' = entries \ swept
        /\ aged' = aged \ (swept \cup {s})
        /\ pc' = [pc EXCEPT ![c] = "ending"]
        /\ UNCHANGED <<on, sock, seq, pending, sessions, forwardVars, storeVars,
                       countVars, historyVars>>

\* end_session removes the session's entry, whoever's it is; the sender is
\* dropped with it.
EndSession(c) ==
    /\ pc[c] = "ending"
    /\ sessions' = [sessions EXCEPT ![on[c]] = NoConn]
    /\ pc' = [pc EXCEPT ![c] = "done"]
    /\ UNCHANGED <<on, sock, seq, pending, cursor, tracked, aged, forwardVars,
                   storeVars, countVars, historyVars>>

-----------------------------------------------------------------------------
(* The forwarder of connection c.                                          *)

ForwardRecv(c) ==
    /\ fpc[c] = "recv" /\ chan[c] # <<>>
    /\ hand' = [hand EXCEPT ![c] = {Head(chan[c])}]
    /\ chan' = [chan EXCEPT ![c] = Tail(@)]
    /\ att' = [att EXCEPT ![c] = 1]
    /\ fpc' = [fpc EXCEPT ![c] = "post"]
    /\ UNCHANGED <<handlerVars, gatewayVars, ticketLive, storeVars, countVars,
                   historyVars>>

\* recv() answers None only once a channel without a sender is empty.
SenderGone(c)    == sessions[on[c]] # c
DrainedAndClosed(c) == chan[c] = <<>> /\ SenderGone(c)

\* The channel is drained and its sender is gone.
ForwardExit(c) ==
    /\ fpc[c] = "recv"
    /\ DrainedAndClosed(c)
    /\ fpc' = [fpc EXCEPT ![c] = "done"]
    /\ UNCHANGED <<handlerVars, gatewayVars, chan, hand, att, ticketLive, storeVars,
                   countVars, historyVars>>

\* storeAudioChunk's check (describeChunkConflict): the metadata beside the
\* chunk id names other audio.
NoConflict(k) == FALSE
Conflict(k) == meta[IdOf(k)] \notin {NoAudio, k.audio}

\* storeAudioChunk's two writes, and a stop of the process between them.
WriteBoth(k) ==
    /\ bin'  = [bin  EXCEPT ![IdOf(k)] = k.audio]
    /\ meta' = [meta EXCEPT ![IdOf(k)] = k.audio]
WriteMetaOnly(k) == meta' = [meta EXCEPT ![IdOf(k)] = k.audio] /\ UNCHANGED bin
WriteFirst(k)    == bin'  = [bin  EXCEPT ![IdOf(k)] = k.audio] /\ UNCHANGED meta

\* The next chunk, after this one is settled.
TakeNext(c) ==
    /\ fpc' = [fpc EXCEPT ![c] = "recv"]
    /\ hand' = [hand EXCEPT ![c] = {}]
    /\ att' = [att EXCEPT ![c] = 1]

\* record_forward_failure, record_index_failure.
ForwardUncounted(k)    == UNCHANGED fwdFailed
CountForwardFailure(k) == fwdFailed' = fwdFailed \cup {k}
IndexUncounted(k)      == UNCHANGED idxFailed
CountIndexFailure(k)   == idxFailed' = idxFailed \cup {k}

\* The retry loop goes round again.
OneTooMany(c) == att[c] <= MaxAttempts
MayRetry(c)   == att[c] < MaxAttempts

\* What follows a chunk that could not be delivered: no index, the next chunk.
IndexAnyway(c) ==
    /\ fpc' = [fpc EXCEPT ![c] = "index"]
    /\ att' = [att EXCEPT ![c] = 1]
    /\ UNCHANGED hand
AfterForwardFailure(c) == TakeNext(c)

\* 200 from ml-inference: on to the index.
PostStored(c) ==
    \E k \in hand[c] :
        /\ fpc[c] = "post"
        /\ ~Conflict(k)
        /\ WriteBoth(k)
        /\ fpc' = [fpc EXCEPT ![c] = "index"]
        /\ att' = [att EXCEPT ![c] = 1]
        /\ UNCHANGED <<handlerVars, gatewayVars, chan, hand, ticketLive, late, indexed,
                       countVars, historyVars>>

\* 409 from ml-inference: permanent, counted, dropped.
PostRefused(c) ==
    \E k \in hand[c] :
        /\ fpc[c] = "post"
        /\ Conflict(k)
        /\ CountForwardFailure(k)
        /\ AfterForwardFailure(c)
        /\ UNCHANGED <<handlerVars, gatewayVars, chan, ticketLive, storeVars,
                       idxFailed, idxFaults, lost, historyVars>>

\* Any other 4xx, the 429 of its shared rate limit among them: the forwarder
\* takes every 4xx for permanent.
PostRejected(c) ==
    \E k \in hand[c] :
        /\ fpc[c] = "post"
        /\ faults < MaxFaults /\ faults' = faults + 1
        /\ CountForwardFailure(k)
        /\ AfterForwardFailure(c)
        /\ UNCHANGED <<handlerVars, gatewayVars, chan, ticketLive, storeVars,
                       idxFailed, idxFaults, lost, minted, accepted, acked, stale,
                       restarts>>

\* No usable answer: the request never arrived, or will be served later, or was
\* served and the answer lost, or ml-inference stopped between its two writes.
\* Tried again, up to MaxAttempts; then counted.
PostUnanswered(c) ==
    \E k \in hand[c] :
        /\ fpc[c] = "post"
        /\ faults < MaxFaults /\ faults' = faults + 1
        /\ \/ UNCHANGED <<bin, meta, late>>
           \/ late' = late \cup {k} /\ UNCHANGED <<bin, meta>>
           \/ ~Conflict(k) /\ WriteBoth(k) /\ UNCHANGED late
           \/ ~Conflict(k) /\ WriteFirst(k) /\ UNCHANGED late
        /\ \/ /\ MayRetry(c)
              /\ att' = [att EXCEPT ![c] = @ + 1]
              /\ UNCHANGED <<fpc, hand, fwdFailed>>
           \/ /\ ~MayRetry(c)
              /\ CountForwardFailure(k)
              /\ AfterForwardFailure(c)
        /\ UNCHANGED <<handlerVars, gatewayVars, chan, ticketLive, indexed,
                       idxFailed, idxFaults, lost, minted, accepted, acked,
                       stale, restarts>>

\* ml-inference serves a request whose sender has stopped waiting.
StoreLate ==
    \E k \in late :
        /\ late' = late \ {k}
        /\ IF Conflict(k) THEN UNCHANGED <<bin, meta>>
                          ELSE WriteBoth(k)
        /\ UNCHANGED <<handlerVars, gatewayVars, forwardVars, indexed, countVars,
                       historyVars>>

\* index_audio_chunk: the ticket is validated, the row inserted.
IndexStored(c) ==
    \E k \in hand[c] :
        /\ fpc[c] = "index" /\ ticketLive[c]
        /\ indexed' = indexed \cup {IdOf(k)}
        /\ TakeNext(c)
        /\ UNCHANGED <<handlerVars, gatewayVars, chan, ticketLive, bin, meta, late,
                       countVars, historyVars>>

\* 401: the ticket has expired.  Permanent, counted, dropped.
IndexRefused(c) ==
    \E k \in hand[c] :
        /\ fpc[c] = "index" /\ ~ticketLive[c]
        /\ CountIndexFailure(k)
        /\ TakeNext(c)
        /\ UNCHANGED <<handlerVars, gatewayVars, chan, ticketLive, storeVars,
                       fwdFailed, idxFaults, lost, historyVars>>

\* Any other 4xx, of a deleted session for one.
IndexRejected(c) ==
    \E k \in hand[c] :
        /\ fpc[c] = "index"
        /\ faults < MaxFaults /\ faults' = faults + 1
        /\ idxFaults' = idxFaults \cup {k}
        /\ CountIndexFailure(k)
        /\ TakeNext(c)
        /\ UNCHANGED <<handlerVars, gatewayVars, chan, ticketLive, storeVars,
                       fwdFailed, lost, minted, accepted, acked, stale, restarts>>

\* No usable answer from platform-api; the row may have been inserted.
IndexUnanswered(c) ==
    \E k \in hand[c] :
        /\ fpc[c] = "index"
        /\ faults < MaxFaults /\ faults' = faults + 1
        /\ \/ UNCHANGED indexed
           \/ ticketLive[c] /\ indexed' = indexed \cup {IdOf(k)}
        /\ idxFaults' = idxFaults \cup {k}
        /\ \/ /\ MayRetry(c)
              /\ att' = [att EXCEPT ![c] = @ + 1]
              /\ UNCHANGED <<fpc, hand, idxFailed>>
           \/ /\ ~MayRetry(c)
              /\ CountIndexFailure(k)
              /\ TakeNext(c)
        /\ UNCHANGED <<handlerVars, gatewayVars, chan, ticketLive, bin, meta, late,
                       fwdFailed, lost, minted, accepted, acked, stale,
                       restarts>>

-----------------------------------------------------------------------------
Handler(c) ==
    \/ StartSession(c) \/ RefuseSession(c) \/ ResumeSequence(c)
    \/ SendAck(c) \/ AckFails(c) \/ LeaveLoop(c) \/ RecordSequence(c) \/ EndSession(c)

Forwarder(c) ==
    \/ ForwardRecv(c) \/ ForwardExit(c)
    \/ PostStored(c) \/ PostRefused(c) \/ PostRejected(c) \/ PostUnanswered(c)
    \/ IndexStored(c) \/ IndexRefused(c) \/ IndexRejected(c) \/ IndexUnanswered(c)

Client(c) == Admit(c) \/ AcceptFrame(c) \/ RefuseFrame(c) \/ ClientGone(c)

\* Nothing is left to do: every connection was used and every task has ended.
Quiescent ==
    /\ \A c \in Conn : pc[c] = "done" /\ fpc[c] \in {"none", "done"}
    /\ late = {}
    /\ UNCHANGED vars

Next ==
    \/ \E c \in Conn : Handler(c) \/ Forwarder(c) \/ Client(c) \/ TicketExpires(c)
    \/ StoreLate \/ CursorsAge \/ GatewayRestart
    \/ Quiescent

Spec == Init /\ [][Next]_vars

\* Tokio runs both tasks of every connection; an HTTP attempt ends within its
\* five second timeout.  Nothing is assumed of the client or of the services.
Fairness == \A c \in Conn : WF_vars(Handler(c)) /\ WF_vars(Forwarder(c))

FairSpec == Spec /\ Fairness

-----------------------------------------------------------------------------
(* What is checked.                                                        *)

\* The types of the variables, task by task and process by process.
HandlerOK ==
    /\ pc \in [Conn -> {"idle", "admitted", "resuming", "open", "acking",
                        "closing", "ending", "done"}]
    /\ on \in [Conn -> Session]
    /\ sock \in [Conn -> {"up", "down"}]
    /\ seq \in [Conn -> 0 .. MaxSessionChunks]
    /\ pending \in [Conn -> SUBSET Chunk]

GatewayOK ==
    /\ sessions \in [Session -> Conn \cup {NoConn}]
    /\ cursor \in [Session -> 0 .. MaxSessionChunks]
    /\ tracked \subseteq Session /\ aged \subseteq tracked

ForwarderOK ==
    /\ chan \in [Conn -> Seq(Chunk)]
    /\ fpc \in [Conn -> {"none", "recv", "post", "index", "done"}]
    /\ hand \in [Conn -> SUBSET Chunk]
    /\ att \in [Conn -> 1 .. MaxAttempts]
    /\ ticketLive \in [Conn -> BOOLEAN]

StoreOK ==
    /\ bin \in [ChunkId -> Audio \cup {NoAudio}]
    /\ meta \in [ChunkId -> Audio \cup {NoAudio}]
    /\ late \subseteq Chunk /\ indexed \subseteq ChunkId

CountersOK ==
    /\ fwdFailed \subseteq Chunk /\ idxFailed \subseteq Chunk
    /\ idxFaults \subseteq Chunk /\ lost \subseteq Chunk

HistoryOK ==
    /\ minted \in 0 .. MaxFrames
    /\ accepted \subseteq Chunk /\ acked \subseteq Chunk
    /\ stale \subseteq Session
    /\ restarts \in 0 .. MaxRestarts /\ faults \in 0 .. MaxFaults

\* Every variable keeps its type; in it, that a sequence never passes the cap of
\* the session and an attempt never passes MaxAttempts.
TypeOK ==
    HandlerOK /\ GatewayOK /\ ForwarderOK /\ StoreOK /\ CountersOK /\ HistoryOK

\* A session is served by one connection at a time, and by the one whose sender
\* the map holds: a second handler would take the same numbers, and the
\* end_session of either would drop the other's sender (start_session,
\* end_session).
OneHandlerPerSession ==
    \A c, d \in Conn : Serving(c) /\ Serving(d) /\ on[c] = on[d] => c = d

\* A chunk id that the gateway acknowledged as accepted is never acknowledged
\* again for another frame, by this connection or a later one, unless the process
\* restarted or the session was left alone for six hours (resume_sequence,
\* record_sequence and its sweep).
AckedOnce ==
    \A j, k \in acked : IdOf(j) = IdOf(k) /\ j.session \notin stale => j = k

\* The accepted chunks of a session are numbered 0 .. n - 1 whatever was refused
\* in between: interiorSequenceGaps (ml-inference) takes a missing number for a
\* chunk that was accepted and lost.
NumbersWithoutGaps ==
    \A k \in accepted : \A n \in 0 .. (k.number - 1) :
        \E j \in accepted : j.session = k.session /\ j.number = n

\* An accepted chunk is on its way, or stored under its own id, or counted as a
\* forward failure, or went down with the process: never silently gone.
EveryChunkAccountedFor ==
    \A k \in accepted :
        InChannel(k) \/ InHand(k) \/ Stored(k) \/ k \in fwdFailed \/ k \in lost

\* The two files of a stored chunk agree, and hold audio that was accepted under
\* this id.
StoredIsAccepted ==
    \A i \in ChunkId : meta[i] # NoAudio =>
        /\ bin[i] = meta[i]
        /\ \E k \in accepted : IdOf(k) = i /\ k.audio = meta[i]

\* An index row never points at audio that was not stored (the order of the two
\* POSTs of the forwarder).
IndexedIsStored == \A i \in indexed : meta[i] # NoAudio

\* A stored chunk that nothing is working on any more has its index row, or one
\* of the failure counters (or the restart) tells of it.
OrphansAreCounted ==
    \A k \in accepted :
        Stored(k) /\ ~InChannel(k) /\ ~InHand(k)
            => IdOf(k) \in indexed \/ k \in idxFailed \cup fwdFailed \cup lost

\* Stored audio is never replaced by other audio, however many connections,
\* retries and late requests write to the same id (describeChunkConflict).
StoredNeverReplaced ==
    [][\A i \in ChunkId : meta[i] # NoAudio =>
            meta'[i] = meta[i] /\ bin'[i] = bin[i]]_vars

\* Every accepted frame ends up stored, counted or lost with the process: no
\* channel or forwarder holds one for ever.
EveryFrameSettles ==
    \A n \in Audio : (minted >= n) ~>
        (\E k \in accepted : /\ k.audio = n
                             /\ ~InChannel(k) /\ ~InHand(k)
                             /\ Stored(k) \/ k \in fwdFailed \cup lost)

\* A connection that is gone gives its session back, so that the learner can
\* resume it (handle_audio_socket reaches end_session on every path).
GoneFreesSession ==
    \A c \in Conn : (~SenderGone(c) /\ sock[c] = "down") ~> SenderGone(c)

\* The claim of storeAudioChunk's comment, that the gateway "mints ids from a
\* per-session cursor that never repeats": two accepted chunks have two ids.
IdsNeverRepeat ==
    \A j, k \in accepted : IdOf(j) = IdOf(k) /\ j.session \notin stale => j = k

\* The claim of check_ticket's comment, that the ticket kept for indexing
\* "expires with the session": only a failing platform-api makes an index fail.
IndexFailsOnlyOnFault == idxFailed \subseteq idxFaults

-----------------------------------------------------------------------------
\* The pipeline implements the write-once archive: its slots are the chunk ids
\* whose metadata is written, its write-offs what the forward counter and the
\* restarts account for.
Recording == INSTANCE WriteOnceArchive WITH
    Slot <- ChunkId, Item <- Audio, Empty <- NoAudio, Chunk <- Chunk,
    SlotOf <- IdOf, ItemOf <- AudioOf,
    taken <- accepted, archive <- meta, writtenOff <- fwdFailed \cup lost

ImplementsArchive == Recording!Spec
=============================================================================
