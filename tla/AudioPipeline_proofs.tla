------------------------ MODULE AudioPipeline_proofs ------------------------
(* Theorems about AudioPipeline, for every value of its constants: types, one *)
(* handler per session, numbers; that stored audio stays, that no chunk is    *)
(* silently gone, and that the pipeline implements the write-once archive.    *)
EXTENDS AudioPipeline, TLAPS

-----------------------------------------------------------------------------
(* Types.                                                                  *)

\* The chunk an accepting ack is about carries the handler's own session and
\* sequence number, and is the one that was counted as accepted.
PendingFits ==
    \A c \in Conn : \A k \in pending[c] :
        /\ pc[c] = "acking" /\ k \in accepted
        /\ k.session = on[c] /\ k.number = seq[c]

TypeInv == TypeOK /\ PendingFits

USE DEF vars, handlerVars, gatewayVars, forwardVars, storeVars, countVars, historyVars

\* A part of the type invariant holds as long as nothing of it changes.
LEMMA PartsKept ==
    /\ HandlerOK   /\ UNCHANGED handlerVars => HandlerOK'
    /\ GatewayOK   /\ UNCHANGED gatewayVars => GatewayOK'
    /\ ForwarderOK /\ UNCHANGED forwardVars => ForwarderOK'
    /\ StoreOK     /\ UNCHANGED storeVars   => StoreOK'
    /\ CountersOK  /\ UNCHANGED countVars   => CountersOK'
    /\ HistoryOK   /\ UNCHANGED historyVars => HistoryOK'
    /\ PendingFits /\ UNCHANGED <<pc, on, seq, pending, accepted>> => PendingFits'
<1>1. HandlerOK   /\ UNCHANGED handlerVars => HandlerOK'
  BY DEF HandlerOK
<1>2. GatewayOK   /\ UNCHANGED gatewayVars => GatewayOK'
  BY DEF GatewayOK
<1>3. ForwarderOK /\ UNCHANGED forwardVars => ForwarderOK'
  BY DEF ForwarderOK
<1>4. StoreOK     /\ UNCHANGED storeVars   => StoreOK'
  BY DEF StoreOK
<1>5. CountersOK  /\ UNCHANGED countVars   => CountersOK'
  BY DEF CountersOK
<1>6. HistoryOK   /\ UNCHANGED historyVars => HistoryOK'
  BY DEF HistoryOK
<1>7. PendingFits /\ UNCHANGED <<pc, on, seq, pending, accepted>> => PendingFits'
  BY DEF PendingFits
<1> QED
  BY <1>1, <1>2, <1>3, <1>4, <1>5, <1>6, <1>7

\* The id of a chunk is a chunk id, and its audio is audio.
LEMMA IdOfChunk ==
    ASSUME NEW k \in Chunk
    PROVE  IdOf(k) \in ChunkId /\ k.audio \in Audio /\ k.session \in Session
BY DEF IdOf, Chunk, ChunkId

\* The bounds that the types mention are numbers.
LEMMA Bounds == MaxSessionChunks \in Nat /\ MaxFrames \in Nat /\ MaxAttempts \in Nat
BY SizeAssumption

LEMMA TypeInit == Init => TypeInv
<1> SUFFICES ASSUME Init PROVE TypeInv
  OBVIOUS
<1> USE SizeAssumption
<1>1. HandlerOK /\ GatewayOK
  BY DEF Init, HandlerOK, GatewayOK
<1>2. ForwarderOK /\ StoreOK
  BY DEF Init, ForwarderOK, StoreOK
<1>3. CountersOK /\ HistoryOK /\ PendingFits
  BY DEF Init, CountersOK, HistoryOK, PendingFits
<1> QED
  BY <1>1, <1>2, <1>3 DEF TypeInv, TypeOK

-----------------------------------------------------------------------------
(* Every step keeps the types: first the handlers', then the forwarders'.  *)

LEMMA HandlerStepType ==
    ASSUME TypeInv, NEW c \in Conn, Handler(c)
    PROVE  TypeInv'
<1> USE PartsKept, Bounds DEF TypeInv, TypeOK
<1>1. CASE StartSession(c)
  <2>1. HandlerOK' /\ PendingFits'
    BY <1>1 DEF StartSession, HandlerOK, PendingFits
  <2>2. GatewayOK'
    BY <1>1 DEF StartSession, GatewayOK, HandlerOK
  <2>3. ForwarderOK'
    BY <1>1 DEF StartSession, ForwarderOK
  <2> QED
    BY <1>1, <2>1, <2>2, <2>3 DEF StartSession
<1>2. CASE RefuseSession(c)
  <2>1. HandlerOK' /\ PendingFits'
    BY <1>2 DEF RefuseSession, HandlerOK, PendingFits
  <2> QED
    BY <1>2, <2>1 DEF RefuseSession
<1>3. CASE ResumeSequence(c)
  <2>1. HandlerOK' /\ PendingFits'
    BY <1>3 DEF ResumeSequence, ResumePoint, HandlerOK, GatewayOK, PendingFits
  <2> QED
    BY <1>3, <2>1 DEF ResumeSequence
<1>4. CASE SendAck(c)
  <2>1. SeqAfterAck(c) \in 0 .. MaxSessionChunks
    BY DEF SeqAfterAck, HandlerOK, PendingFits, Chunk, ChunkNo
  <2>2. HandlerOK' /\ PendingFits'
    BY <1>4, <2>1 DEF SendAck, HandlerOK, PendingFits
  <2>3. HistoryOK'
    BY <1>4 DEF SendAck, HandlerOK, HistoryOK
  <2> QED
    BY <1>4, <2>2, <2>3 DEF SendAck
<1>5. CASE AckFails(c)
  <2>1. HandlerOK' /\ PendingFits'
    BY <1>5 DEF AckFails, HandlerOK, PendingFits
  <2> QED
    BY <1>5, <2>1 DEF AckFails
<1>6. CASE LeaveLoop(c)
  <2>1. HandlerOK' /\ PendingFits'
    BY <1>6 DEF LeaveLoop, HandlerOK, PendingFits
  <2> QED
    BY <1>6, <2>1 DEF LeaveLoop
<1>7. CASE RecordSequence(c)
  <2>1. HandlerOK' /\ PendingFits'
    BY <1>7 DEF RecordSequence, HandlerOK, PendingFits
  <2>2. Max2(cursor[on[c]], seq[c]) \in 0 .. MaxSessionChunks
    BY DEF Max2, HandlerOK, GatewayOK
  <2>3. GatewayOK'
    BY <1>7, <2>2 DEF RecordSequence, HandlerOK, GatewayOK
  <2> QED
    BY <1>7, <2>1, <2>3 DEF RecordSequence
<1>8. CASE EndSession(c)
  <2>1. HandlerOK' /\ PendingFits'
    BY <1>8 DEF EndSession, HandlerOK, PendingFits
  <2>2. GatewayOK'
    BY <1>8 DEF EndSession, GatewayOK
  <2> QED
    BY <1>8, <2>1, <2>2 DEF EndSession
<1> QED
  BY <1>1, <1>2, <1>3, <1>4, <1>5, <1>6, <1>7, <1>8 DEF Handler

\* Settling a chunk and storing it: what each does to the types.
LEMMA TakeNextType ==
    ASSUME ForwarderOK, NEW c \in Conn, TakeNext(c), UNCHANGED <<chan, ticketLive>>
    PROVE  ForwarderOK'
BY Bounds, SizeAssumption DEF ForwarderOK, TakeNext

LEMMA WriteType ==
    ASSUME StoreOK, NEW k \in Chunk, WriteBoth(k) \/ WriteFirst(k),
           late' \subseteq Chunk, UNCHANGED indexed
    PROVE  StoreOK'
BY IdOfChunk DEF StoreOK, WriteBoth, WriteFirst

LEMMA ForwarderStepType ==
    ASSUME TypeInv, NEW c \in Conn, Forwarder(c)
    PROVE  TypeInv'
<1> USE PartsKept, Bounds, SizeAssumption DEF TypeInv, TypeOK
<1>0. \A k \in hand[c] : k \in Chunk
  BY DEF ForwarderOK
<1>1. CASE ForwardRecv(c)
  <2>1. chan[c] \in Seq(Chunk) /\ chan[c] # <<>>
    BY <1>1 DEF ForwardRecv, ForwarderOK
  <2>2. Head(chan[c]) \in Chunk /\ Tail(chan[c]) \in Seq(Chunk)
    BY <2>1
  <2>3. ForwarderOK'
    BY <1>1, <2>2 DEF ForwardRecv, ForwarderOK
  <2> QED
    BY <1>1, <2>3 DEF ForwardRecv
<1>2. CASE ForwardExit(c)
  <2>1. ForwarderOK'
    BY <1>2 DEF ForwardExit, ForwarderOK
  <2> QED
    BY <1>2, <2>1 DEF ForwardExit
<1>3. CASE PostStored(c)
  <2>1. PICK k \in hand[c] : WriteBoth(k)
    BY <1>3 DEF PostStored
  <2>2. StoreOK'
    BY <1>0, <1>3, <2>1, WriteType DEF PostStored, StoreOK
  <2>3. ForwarderOK'
    BY <1>3 DEF PostStored, ForwarderOK
  <2> QED
    BY <1>3, <2>2, <2>3 DEF PostStored
<1>4. CASE PostRefused(c)
  <2>1. CountersOK'
    BY <1>0, <1>4 DEF PostRefused, CountForwardFailure, CountersOK
  <2>2. ForwarderOK'
    BY <1>4, TakeNextType DEF PostRefused, AfterForwardFailure
  <2> QED
    BY <1>4, <2>1, <2>2 DEF PostRefused
<1>5. CASE PostRejected(c)
  <2>1. CountersOK'
    BY <1>0, <1>5 DEF PostRejected, CountForwardFailure, CountersOK
  <2>2. ForwarderOK'
    BY <1>5, TakeNextType DEF PostRejected, AfterForwardFailure
  <2>3. HistoryOK'
    BY <1>5 DEF PostRejected, HistoryOK
  <2> QED
    BY <1>5, <2>1, <2>2, <2>3 DEF PostRejected
<1>6. CASE PostUnanswered(c)
  <2>1. PICK k \in hand[c] :
          /\ \/ UNCHANGED <<bin, meta, late>>
             \/ late' = late \cup {k} /\ UNCHANGED <<bin, meta>>
             \/ (WriteBoth(k) \/ WriteFirst(k)) /\ UNCHANGED late
          /\ \/ /\ MayRetry(c)
                /\ att' = [att EXCEPT ![c] = @ + 1]
                /\ UNCHANGED <<fpc, hand, fwdFailed>>
             \/ CountForwardFailure(k) /\ TakeNext(c)
    BY <1>6 DEF PostUnanswered, AfterForwardFailure
  <2>2. StoreOK'
    BY <1>0, <1>6, <2>1, WriteType DEF PostUnanswered, StoreOK
  <2>3. CountersOK'
    BY <1>0, <1>6, <2>1 DEF PostUnanswered, CountForwardFailure, CountersOK
  <2>4. ForwarderOK'
    <3>1. CASE TakeNext(c)
      BY <1>6, <3>1, TakeNextType DEF PostUnanswered
    <3>2. CASE /\ MayRetry(c) /\ att' = [att EXCEPT ![c] = @ + 1]
               /\ UNCHANGED <<fpc, hand>>
      BY <1>6, <3>2 DEF PostUnanswered, MayRetry, ForwarderOK
    <3> QED
      BY <2>1, <3>1, <3>2
  <2>5. HistoryOK'
    BY <1>6 DEF PostUnanswered, HistoryOK
  <2> QED
    BY <1>6, <2>2, <2>3, <2>4, <2>5 DEF PostUnanswered
<1>7. CASE IndexStored(c)
  <2>1. StoreOK'
    BY <1>0, <1>7, IdOfChunk DEF IndexStored, StoreOK
  <2>2. ForwarderOK'
    BY <1>7, TakeNextType DEF IndexStored
  <2> QED
    BY <1>7, <2>1, <2>2 DEF IndexStored
<1>8. CASE IndexRefused(c)
  <2>1. CountersOK'
    BY <1>0, <1>8 DEF IndexRefused, CountIndexFailure, CountersOK
  <2>2. ForwarderOK'
    BY <1>8, TakeNextType DEF IndexRefused
  <2> QED
    BY <1>8, <2>1, <2>2 DEF IndexRefused
<1>9. CASE IndexRejected(c)
  <2>1. CountersOK'
    BY <1>0, <1>9 DEF IndexRejected, CountIndexFailure, CountersOK
  <2>2. ForwarderOK'
    BY <1>9, TakeNextType DEF IndexRejected
  <2>3. HistoryOK'
    BY <1>9 DEF IndexRejected, HistoryOK
  <2> QED
    BY <1>9, <2>1, <2>2, <2>3 DEF IndexRejected
<1>10. CASE IndexUnanswered(c)
  <2>1. PICK k \in hand[c] :
          /\ indexed' \in {indexed, indexed \cup {IdOf(k)}}
          /\ idxFaults' = idxFaults \cup {k}
          /\ \/ /\ MayRetry(c)
                /\ att' = [att EXCEPT ![c] = @ + 1]
                /\ UNCHANGED <<fpc, hand, idxFailed>>
             \/ CountIndexFailure(k) /\ TakeNext(c)
    BY <1>10 DEF IndexUnanswered
  <2>2. StoreOK'
    BY <1>0, <1>10, <2>1, IdOfChunk DEF IndexUnanswered, StoreOK
  <2>3. CountersOK'
    BY <1>0, <1>10, <2>1 DEF IndexUnanswered, CountIndexFailure, CountersOK
  <2>4. ForwarderOK'
    <3>1. CASE TakeNext(c)
      BY <1>10, <3>1, TakeNextType DEF IndexUnanswered
    <3>2. CASE /\ MayRetry(c) /\ att' = [att EXCEPT ![c] = @ + 1]
               /\ UNCHANGED <<fpc, hand>>
      BY <1>10, <3>2 DEF IndexUnanswered, MayRetry, ForwarderOK
    <3> QED
      BY <2>1, <3>1, <3>2
  <2>5. HistoryOK'
    BY <1>10 DEF IndexUnanswered, HistoryOK
  <2> QED
    BY <1>10, <2>2, <2>3, <2>4, <2>5 DEF IndexUnanswered
<1> QED
  BY <1>1, <1>2, <1>3, <1>4, <1>5, <1>6, <1>7, <1>8, <1>9, <1>10 DEF Forwarder

LEMMA ClientStepType ==
    ASSUME TypeInv, NEW c \in Conn, Client(c)
    PROVE  TypeInv'
<1> USE PartsKept, Bounds DEF TypeInv, TypeOK
<1>1. CASE Admit(c)
  <2>1. HandlerOK' /\ PendingFits'
    BY <1>1 DEF Admit, HandlerOK, PendingFits
  <2> QED
    BY <1>1, <2>1 DEF Admit
<1>2. CASE AcceptFrame(c)
  <2> DEFINE k == [session |-> on[c], number |-> seq[c], audio |-> minted + 1]
             target == sessions[on[c]]
  <2>1. k \in Chunk
    BY <1>2 DEF AcceptFrame, Chunk, ChunkNo, Audio, HandlerOK, HistoryOK
  <2>2. target \in Conn
    BY <1>2 DEF AcceptFrame, HandlerOK, GatewayOK
  <2> HIDE DEF target
  <2>3. /\ chan' = [chan EXCEPT ![target] = Append(@, k)]
        /\ UNCHANGED <<fpc, hand, att, ticketLive>>
    BY <1>2 DEF AcceptFrame, target
  <2>4. ForwarderOK'
    BY <2>1, <2>2, <2>3 DEF ForwarderOK
  <2>5. HistoryOK'
    BY <1>2, <2>1 DEF AcceptFrame, HistoryOK
  <2>6. HandlerOK' /\ PendingFits'
    BY <1>2, <2>1 DEF AcceptFrame, HandlerOK, PendingFits
  <2> QED
    BY <1>2, <2>4, <2>5, <2>6 DEF AcceptFrame
<1>3. CASE RefuseFrame(c)
  <2>1. HandlerOK' /\ PendingFits'
    BY <1>3 DEF RefuseFrame, HandlerOK, PendingFits
  <2> QED
    BY <1>3, <2>1 DEF RefuseFrame
<1>4. CASE ClientGone(c)
  <2>1. HandlerOK' /\ PendingFits'
    BY <1>4 DEF ClientGone, HandlerOK, PendingFits
  <2> QED
    BY <1>4, <2>1 DEF ClientGone
<1> QED
  BY <1>1, <1>2, <1>3, <1>4 DEF Client

LEMMA TypeStep == TypeInv /\ [Next]_vars => TypeInv'
<1> SUFFICES ASSUME TypeInv, [Next]_vars PROVE TypeInv'
  OBVIOUS
<1> USE PartsKept, Bounds DEF TypeInv, TypeOK
<1>1. ASSUME NEW c \in Conn, TicketExpires(c) PROVE TypeInv'
  <2>1. ForwarderOK'
    BY <1>1 DEF TicketExpires, ForwarderOK
  <2> QED
    BY <1>1, <2>1 DEF TicketExpires
<1>2. CASE StoreLate
  <2>1. PICK k \in late : /\ late' = late \ {k}
                          /\ WriteBoth(k) \/ UNCHANGED <<bin, meta>>
                          /\ UNCHANGED indexed
    BY <1>2 DEF StoreLate
  <2>2. k \in Chunk /\ late' \subseteq Chunk
    BY <2>1 DEF StoreOK
  <2>3. StoreOK'
    BY <2>1, <2>2, WriteType DEF StoreOK
  <2> QED
    BY <1>2, <2>3 DEF StoreLate
<1>3. CASE CursorsAge
  <2>1. GatewayOK' /\ HistoryOK'
    BY <1>3 DEF CursorsAge, GatewayOK, HistoryOK
  <2> QED
    BY <1>3, <2>1 DEF CursorsAge
<1>4. CASE GatewayRestart
  <2>1. HandlerOK' /\ PendingFits'
    BY <1>4 DEF GatewayRestart, HandlerOK, PendingFits
  <2>2. GatewayOK'
    BY <1>4 DEF GatewayRestart, GatewayOK
  <2>3. ForwarderOK'
    BY <1>4, SizeAssumption DEF GatewayRestart, ForwarderOK
  <2>4. CountersOK' /\ HistoryOK'
    BY <1>4, SizeAssumption DEF GatewayRestart, CountersOK, HistoryOK
  <2> QED
    BY <1>4, <2>1, <2>2, <2>3, <2>4 DEF GatewayRestart
<1>5. CASE UNCHANGED vars
  BY <1>5
<1> QED
  BY <1>1, <1>2, <1>3, <1>4, <1>5, HandlerStepType, ForwarderStepType, ClientStepType
  DEF Next, Quiescent

\* Every variable keeps its type, whatever the constants are.
THEOREM TypeCorrect == Spec => []TypeOK
<1>1. Spec => []TypeInv
  BY TypeInit, TypeStep, PTL DEF Spec
<1>2. TypeInv => TypeOK
  BY DEF TypeInv
<1> QED
  BY <1>1, <1>2, PTL

-----------------------------------------------------------------------------
(* One handler per session.                                                *)

\* The session map and the handlers agree on who serves what.
Owned ==
    /\ \A c \in Conn : Serving(c) => sessions[on[c]] = c
    /\ \A s \in Session : sessions[s] # NoConn =>
            Serving(sessions[s]) /\ on[sessions[s]] = s

LEMMA OwnedInit == Init => Owned
BY DEF Init, Owned, Serving

LEMMA OwnedStep == TypeInv /\ Owned /\ [Next]_vars => Owned'
<1> SUFFICES ASSUME TypeInv, Owned, [Next]_vars PROVE Owned'
  OBVIOUS
<1> USE ConnAssumption DEF TypeInv, TypeOK, HandlerOK, GatewayOK, Owned, Serving
<1>1. ASSUME UNCHANGED <<pc, on, sessions>> PROVE Owned'
  BY <1>1
<1>2. ASSUME NEW c \in Conn, StartSession(c) PROVE Owned'
  BY <1>2 DEF StartSession, SessionFree
<1>3. ASSUME NEW c \in Conn, EndSession(c) PROVE Owned'
  BY <1>3 DEF EndSession
<1>4. ASSUME NEW c \in Conn, Handler(c) PROVE Owned'
  BY <1>2, <1>3, <1>4 DEF Handler, RefuseSession, ResumeSequence, SendAck, AckFails,
                          LeaveLoop, RecordSequence
<1>5. ASSUME NEW c \in Conn, Forwarder(c) PROVE Owned'
  BY <1>1, <1>5 DEF Forwarder, ForwardRecv, ForwardExit, PostStored, PostRefused,
                    PostRejected, PostUnanswered, IndexStored, IndexRefused,
                    IndexRejected, IndexUnanswered
<1>6. ASSUME NEW c \in Conn, Client(c) PROVE Owned'
  <2>1. CASE AcceptFrame(c) \/ RefuseFrame(c)
    <3>1. /\ pc[c] = "open" /\ pc' = [pc EXCEPT ![c] = "acking"]
          /\ UNCHANGED <<on, sessions>>
      BY <2>1 DEF AcceptFrame, RefuseFrame
    <3> QED
      BY <3>1
  <2>2. CASE Admit(c) \/ ClientGone(c)
    BY <2>2 DEF Admit, ClientGone
  <2> QED
    BY <1>6, <2>1, <2>2 DEF Client
<1>7. CASE GatewayRestart
  BY <1>7 DEF GatewayRestart
<1>8. CASE StoreLate \/ CursorsAge \/ UNCHANGED vars
           \/ \E c \in Conn : TicketExpires(c)
  BY <1>1, <1>8 DEF StoreLate, CursorsAge, TicketExpires
<1> QED
  BY <1>4, <1>5, <1>6, <1>7, <1>8 DEF Next, Quiescent

\* Two connections never serve one session at the same time.
THEOREM SingleHandler == Spec => []OneHandlerPerSession
<1>1. Init => TypeInv /\ Owned
  BY TypeInit, OwnedInit
<1>2. TypeInv /\ Owned /\ [Next]_vars => (TypeInv /\ Owned)'
  BY TypeStep, OwnedStep
<1>3. TypeInv /\ Owned => OneHandlerPerSession
  BY DEF Owned, OneHandlerPerSession
<1> QED
  BY <1>1, <1>2, <1>3, PTL DEF Spec

-----------------------------------------------------------------------------
(* An id is acknowledged once.                                             *)

\* The handler's sequence is in use: read from the cursor, not yet recorded.
Counting(c) == pc[c] \in {"open", "acking", "closing"}

\* The next number of a session is above every number acknowledged: the sequence
\* of the connection that counts, or the cursor while none does.
AckedBelow ==
    \A k \in acked : k.session \notin stale =>
        /\ \A c \in Conn : on[c] = k.session /\ Counting(c) => k.number < seq[c]
        /\ (\A c \in Conn : on[c] = k.session => ~Counting(c))
               => k.number < cursor[k.session]

\* An ack is about one chunk.
SinglePending == \A c \in Conn : \A j, k \in pending[c] : j = k

AckInv ==
    /\ Owned
    /\ SinglePending
    /\ AckedBelow
    /\ aged \subseteq stale
    /\ AckedOnce

LEMMA AckInit == Init => AckInv
BY OwnedInit DEF Init, AckInv, SinglePending, AckedBelow, AckedOnce

\* A connection that counts is the only one of its session that does.
LEMMA OneCounts ==
    ASSUME Owned, NEW c \in Conn, NEW d \in Conn, on[c] = on[d],
           Serving(c), Serving(d)
    PROVE  c = d
BY DEF Owned

LEMMA AckStep == TypeInv /\ AckInv /\ [Next]_vars => AckInv'
<1> SUFFICES ASSUME TypeInv, AckInv, [Next]_vars PROVE AckInv'
  OBVIOUS
<1>0. Owned'
  BY OwnedStep DEF AckInv
<1>t. /\ TypeInv /\ TypeOK /\ HandlerOK /\ GatewayOK /\ PendingFits
      /\ acked \subseteq Chunk
      /\ Owned /\ SinglePending /\ AckedBelow /\ AckedOnce /\ aged \subseteq stale
  BY DEF TypeInv, TypeOK, HistoryOK, AckInv
<1>1. ASSUME UNCHANGED <<pc, on, seq, pending, sessions, cursor, aged, acked, stale>>
      PROVE  AckInv'
  BY <1>0, <1>1, <1>t DEF AckInv, SinglePending, AckedBelow, AckedOnce, Counting
<1>2. ASSUME NEW c \in Conn, ResumeSequence(c) PROVE AckInv'
  <2>1. \A d \in Conn : on[d] = on[c] => ~Counting(d)
    BY <1>2, <1>t, OneCounts DEF ResumeSequence, Serving, Counting
  <2>2. AckedBelow'
    BY <1>2, <1>t, <2>1 DEF ResumeSequence, ResumePoint, AckedBelow, Counting, HandlerOK
  <2> QED
    BY <1>0, <1>2, <1>t, <2>2 DEF ResumeSequence, AckInv, SinglePending, AckedOnce
<1>3. ASSUME NEW c \in Conn, SendAck(c) PROVE AckInv'
  <2>1. \A d \in Conn : on[d] = on[c] /\ Counting(d) => d = c
    BY <1>3, <1>t, OneCounts DEF SendAck, Serving, Counting
  <2>2. \A k \in pending[c] : k.session = on[c] /\ k.number = seq[c] /\ k \in Chunk
    BY <1>t DEF PendingFits, HandlerOK
  <2>3. /\ acked' = acked \cup pending[c]
        /\ seq' = [seq EXCEPT ![c] = SeqAfterAck(c)]
        /\ pc' = [pc EXCEPT ![c] = "open"]
        /\ UNCHANGED <<on, cursor, stale, aged>>
        /\ Counting(c)
    BY <1>3 DEF SendAck, Counting
  <2>4. SeqAfterAck(c) \in Nat /\ SeqAfterAck(c) >= seq[c]
        /\ (pending[c] # {} => SeqAfterAck(c) = seq[c] + 1)
    BY <1>t, SizeAssumption DEF SeqAfterAck, HandlerOK
  <2>5. \A k \in acked : k.session = on[c] /\ k.session \notin stale => k.number < seq[c]
    BY <1>t, <2>3 DEF AckedBelow
  <2>6. AckedBelow'
    <3> SUFFICES ASSUME NEW k \in acked', k.session \notin stale
                 PROVE  /\ \A d \in Conn : on[d] = k.session /\ Counting(d)' => k.number < seq'[d]
                        /\ (\A d \in Conn : on[d] = k.session => ~Counting(d)')
                               => k.number < cursor[k.session]
      BY <2>3 DEF AckedBelow
    <3>1. \A d \in Conn : Counting(d)' <=> Counting(d)
      BY <2>3, <1>t DEF Counting, HandlerOK
    <3>2. CASE k.session = on[c]
      <4>1. k.number < SeqAfterAck(c)
        BY <1>t, <2>2, <2>3, <2>4, <2>5, <3>2, SizeAssumption DEF HandlerOK, Chunk, ChunkNo
      <4> QED
        BY <1>t, <2>1, <2>3, <3>1, <3>2, <4>1 DEF HandlerOK
    <3>3. CASE k.session # on[c]
      BY <1>t, <2>2, <2>3, <3>1, <3>3 DEF HandlerOK, AckedBelow
    <3> QED
      BY <3>2, <3>3
  <2>7. AckedOnce'
    <3> SUFFICES ASSUME NEW j \in acked', NEW k \in acked', IdOf(j) = IdOf(k),
                        j.session \notin stale
                 PROVE  j = k
      BY <2>3 DEF AckedOnce
    <3>1. j.session = k.session /\ j.number = k.number
      BY DEF IdOf
    <3>2. CASE j \in acked /\ k \in acked
      BY <1>t, <3>2 DEF AckedOnce
    <3>3. CASE j \in pending[c] /\ k \in pending[c]
      BY <1>t, <3>3 DEF SinglePending
    <3>4. CASE j \in acked /\ k \in pending[c]
      BY <1>t, <2>2, <2>5, <3>1, <3>4 DEF HandlerOK
    <3>5. CASE j \in pending[c] /\ k \in acked
      BY <1>t, <2>2, <2>5, <3>1, <3>5 DEF HandlerOK
    <3> QED
      BY <2>3, <3>2, <3>3, <3>4, <3>5
  <2>8. SinglePending'
    BY <1>3, <1>t DEF SendAck, SinglePending, HandlerOK
  <2> QED
    BY <1>0, <1>t, <2>3, <2>6, <2>7, <2>8 DEF AckInv
<1>4. ASSUME NEW c \in Conn, RecordSequence(c) PROVE AckInv'
  <2>1. \A d \in Conn : on[d] = on[c] /\ Counting(d) => d = c
    BY <1>4, <1>t, OneCounts DEF RecordSequence, Serving, Counting
  <2>2. Swept(tracked \cup {on[c]}, on[c]) \subseteq aged \ {on[c]}
    BY DEF Swept
  <2>3. \A s \in Session : s \notin stale =>
            cursor'[s] = IF s = on[c] THEN Max2(cursor[s], seq[c]) ELSE cursor[s]
    BY <1>4, <1>t, <2>2 DEF RecordSequence
  <2>4. /\ Counting(c) /\ pc' = [pc EXCEPT ![c] = "ending"]
        /\ UNCHANGED <<on, seq, acked, stale, pending>>
        /\ aged' \subseteq aged
    BY <1>4 DEF RecordSequence, Counting
  <2>5. Max2(cursor[on[c]], seq[c]) \in Nat /\ Max2(cursor[on[c]], seq[c]) >= seq[c]
    BY <1>t, SizeAssumption DEF Max2, HandlerOK, GatewayOK
  <2>6. AckedBelow'
    <3> SUFFICES ASSUME NEW k \in acked, k.session \notin stale
                 PROVE  /\ \A d \in Conn : on[d] = k.session /\ Counting(d)' => k.number < seq[d]
                        /\ (\A d \in Conn : on[d] = k.session => ~Counting(d)')
                               => k.number < cursor'[k.session]
      BY <2>4 DEF AckedBelow
    <3>1. k.session \in Session /\ k.number \in Nat
      BY <1>t, SizeAssumption DEF Chunk, ChunkNo
    <3>2. \A d \in Conn : Counting(d)' <=> Counting(d) /\ d # c
      BY <1>t, <2>4 DEF Counting, HandlerOK
    <3>3. CASE k.session = on[c]
      <4>1. k.number < seq[c]
        BY <1>t, <2>4, <3>3 DEF AckedBelow
      <4>2. cursor'[k.session] = Max2(cursor[on[c]], seq[c])
        BY <2>3, <3>1, <3>3
      <4>3. k.number < cursor'[k.session]
        BY <1>t, <2>5, <3>1, <4>1, <4>2, SizeAssumption DEF HandlerOK
      <4> QED
        BY <2>1, <3>2, <3>3, <4>3
    <3>4. CASE k.session # on[c]
      BY <1>t, <2>3, <3>1, <3>2, <3>4 DEF AckedBelow
    <3> QED
      BY <3>3, <3>4
  <2> QED
    BY <1>0, <1>t, <2>4, <2>6 DEF AckInv, SinglePending, AckedOnce
<1>5. ASSUME NEW c \in Conn, Handler(c) PROVE AckInv'
  <2> USE DEF AckInv, SinglePending, AckedBelow, AckedOnce, Counting, HandlerOK
  <2>1. CASE StartSession(c)
    BY <1>0, <1>t, <2>1 DEF StartSession
  <2>2. CASE RefuseSession(c)
    BY <1>0, <1>t, <2>2 DEF RefuseSession
  <2>3. CASE AckFails(c)
    BY <1>0, <1>t, <2>3 DEF AckFails
  <2>4. CASE LeaveLoop(c)
    BY <1>0, <1>t, <2>4 DEF LeaveLoop
  <2>5. CASE EndSession(c)
    BY <1>0, <1>t, <2>5 DEF EndSession
  <2> QED
    BY <1>2, <1>3, <1>4, <1>5, <2>1, <2>2, <2>3, <2>4, <2>5 DEF Handler
<1>6. ASSUME NEW c \in Conn, Forwarder(c) PROVE AckInv'
  BY <1>1, <1>6 DEF Forwarder, ForwardRecv, ForwardExit, PostStored, PostRefused,
                    PostRejected, PostUnanswered, IndexStored, IndexRefused,
                    IndexRejected, IndexUnanswered
<1>7. ASSUME NEW c \in Conn, Client(c) PROVE AckInv'
  <2> USE DEF AckInv, SinglePending, AckedBelow, AckedOnce, Counting, HandlerOK
  <2>1. CASE Admit(c)
    BY <1>0, <1>t, <2>1 DEF Admit
  <2>2. CASE AcceptFrame(c)
    BY <1>0, <1>t, <2>2 DEF AcceptFrame
  <2>3. CASE RefuseFrame(c)
    BY <1>0, <1>t, <2>3 DEF RefuseFrame
  <2>4. CASE ClientGone(c)
    BY <1>0, <1>t, <2>4 DEF ClientGone
  <2> QED
    BY <1>7, <2>1, <2>2, <2>3, <2>4 DEF Client
<1>8. CASE CursorsAge
  BY <1>0, <1>8, <1>t DEF CursorsAge, AckInv, SinglePending, AckedBelow, AckedOnce, Counting,
                          HandlerOK
<1>9. CASE GatewayRestart
  <2>1. \A k \in acked : k.session \in Session
    BY <1>t DEF Chunk
  <2> QED
    BY <1>0, <1>9, <1>t, <2>1 DEF GatewayRestart, AckInv, SinglePending, AckedBelow, AckedOnce
<1>10. CASE StoreLate \/ UNCHANGED vars \/ \E c \in Conn : TicketExpires(c)
  BY <1>1, <1>10 DEF StoreLate, TicketExpires
<1> QED
  BY <1>5, <1>6, <1>7, <1>8, <1>9, <1>10 DEF Next, Quiescent

\* Over any number of reconnects, an id that was acknowledged as accepted is never
\* acknowledged for another frame.
THEOREM AcknowledgedOnce == Spec => []AckedOnce
<1>1. Init => TypeInv /\ AckInv
  BY TypeInit, AckInit
<1>2. TypeInv /\ AckInv /\ [Next]_vars => (TypeInv /\ AckInv)'
  BY TypeStep, AckStep
<1>3. AckInv => AckedOnce
  BY DEF AckInv
<1> QED
  BY <1>1, <1>2, <1>3, PTL DEF Spec

-----------------------------------------------------------------------------
(* Numbers have no gaps.                                                   *)

\* Number n of session s was given to an accepted chunk.
GivenOut(s, n) == \E k \in accepted : k.session = s /\ k.number = n

\* Every number below a sequence in use, or below a cursor, was given out.
BelowGiven ==
    /\ \A c \in Conn : Counting(c) => \A n \in 0 .. (seq[c] - 1) : GivenOut(on[c], n)
    /\ \A s \in Session : \A n \in 0 .. (cursor[s] - 1) : GivenOut(s, n)

GapInv == BelowGiven /\ NumbersWithoutGaps

LEMMA GapInit == Init => GapInv
BY DEF Init, GapInv, BelowGiven, NumbersWithoutGaps, Counting

LEMMA GapStep == TypeInv /\ GapInv /\ [Next]_vars => GapInv'
<1> SUFFICES ASSUME TypeInv, GapInv, [Next]_vars PROVE GapInv'
  OBVIOUS
<1>t. /\ HandlerOK /\ GatewayOK /\ PendingFits /\ accepted \subseteq Chunk
      /\ BelowGiven /\ NumbersWithoutGaps
  BY DEF TypeInv, TypeOK, HistoryOK, GapInv
<1>1. ASSUME UNCHANGED <<on, accepted>>, \A c \in Conn : Counting(c)' => Counting(c),
             UNCHANGED <<seq, cursor>>
      PROVE  GapInv'
  BY <1>1, <1>t DEF GapInv, BelowGiven, NumbersWithoutGaps, GivenOut
<1>2. ASSUME NEW c \in Conn, ResumeSequence(c) PROVE GapInv'
  BY <1>2, <1>t DEF ResumeSequence, ResumePoint, HandlerOK,
                    GapInv, BelowGiven, NumbersWithoutGaps, GivenOut, Counting
<1>3. ASSUME NEW c \in Conn, SendAck(c) PROVE GapInv'
  <2>1. /\ seq' = [seq EXCEPT ![c] = SeqAfterAck(c)]
        /\ pending' = [pending EXCEPT ![c] = {}]
        /\ \A d \in Conn : Counting(d)' => Counting(d)
        /\ Counting(c) /\ UNCHANGED <<on, cursor, accepted>>
    BY <1>3, <1>t DEF SendAck, Counting, HandlerOK
  <2>2. \A n \in 0 .. (SeqAfterAck(c) - 1) : GivenOut(on[c], n)
    <3> SUFFICES ASSUME NEW n \in 0 .. (SeqAfterAck(c) - 1) PROVE GivenOut(on[c], n)
      OBVIOUS
    <3>1. seq[c] \in Nat
      BY <1>t, SizeAssumption DEF HandlerOK
    <3>2. CASE n \in 0 .. (seq[c] - 1)
      BY <1>t, <2>1, <3>2 DEF BelowGiven
    <3>3. CASE n \notin 0 .. (seq[c] - 1)
      <4>1. pending[c] # {} /\ n = seq[c]
        BY <3>1, <3>3 DEF SeqAfterAck
      <4> QED
        BY <1>t, <4>1 DEF PendingFits, BelowGiven, GivenOut
    <3> QED
      BY <3>2, <3>3
  <2> QED
    BY <1>t, <2>1, <2>2 DEF HandlerOK, GapInv, BelowGiven, NumbersWithoutGaps, GivenOut
<1>4. ASSUME NEW c \in Conn, RecordSequence(c) PROVE GapInv'
  <2>1. /\ Counting(c) /\ UNCHANGED <<on, seq, pending, accepted>>
        /\ \A d \in Conn : Counting(d)' => Counting(d)
        /\ \A s \in Session :
              \/ cursor'[s] = 0 \/ cursor'[s] = cursor[s]
              \/ s = on[c] /\ cursor'[s] = Max2(cursor[s], seq[c])
    BY <1>4, <1>t DEF RecordSequence, Counting, HandlerOK
  <2>2. \A s \in Session :
           \/ cursor'[s] = 0 \/ cursor'[s] = cursor[s]
           \/ s = on[c] /\ cursor'[s] = seq[c]
    BY <2>1 DEF Max2
  <2>3. \A s \in Session : \A n \in 0 .. (cursor'[s] - 1) : GivenOut(s, n)
    <3> SUFFICES ASSUME NEW s \in Session, NEW n \in 0 .. (cursor'[s] - 1)
                 PROVE  GivenOut(s, n)
      OBVIOUS
    <3>1. CASE cursor'[s] = 0
      BY <3>1
    <3>2. CASE cursor'[s] = cursor[s]
      BY <1>t, <3>2 DEF BelowGiven
    <3>3. CASE s = on[c] /\ cursor'[s] = seq[c]
      BY <1>t, <2>1, <3>3 DEF BelowGiven
    <3> QED
      BY <2>2, <3>1, <3>2, <3>3
  <2> QED
    BY <1>t, <2>1, <2>3 DEF GapInv, BelowGiven, NumbersWithoutGaps, GivenOut
<1>5. ASSUME NEW c \in Conn, AcceptFrame(c) PROVE GapInv'
  <2> DEFINE k == [session |-> on[c], number |-> seq[c], audio |-> minted + 1]
  <2>1. /\ accepted' = accepted \cup {k}
        /\ pending' = [pending EXCEPT ![c] = {k}]
        /\ Counting(c) /\ UNCHANGED <<on, seq, cursor>>
        /\ \A d \in Conn : Counting(d)' => Counting(d)
    BY <1>5, <1>t DEF AcceptFrame, Counting, HandlerOK
  <2>2. \A s, n : GivenOut(s, n) => GivenOut(s, n)'
    BY <2>1 DEF GivenOut
  <2>3. BelowGiven'
    BY <1>t, <2>1, <2>2 DEF BelowGiven, HandlerOK
  <2>4. \A n \in 0 .. (k.number - 1) : GivenOut(k.session, n)
    BY <1>t, <2>1 DEF BelowGiven
  <2>5. NumbersWithoutGaps'
    BY <1>t, <2>1, <2>4 DEF NumbersWithoutGaps, GivenOut
  <2> QED
    BY <2>3, <2>5 DEF GapInv
<1>6. ASSUME NEW c \in Conn, Handler(c) PROVE GapInv'
  <2>1. CASE StartSession(c) \/ RefuseSession(c) \/ AckFails(c) \/ LeaveLoop(c)
             \/ EndSession(c)
    BY <1>1, <1>t, <2>1 DEF StartSession, RefuseSession, AckFails, LeaveLoop, EndSession,
                            Counting, HandlerOK
  <2> QED
    BY <1>2, <1>3, <1>4, <1>6, <2>1 DEF Handler
<1>7. ASSUME NEW c \in Conn, Forwarder(c) PROVE GapInv'
  BY <1>1, <1>7 DEF Forwarder, ForwardRecv, ForwardExit, PostStored, PostRefused,
                    PostRejected, PostUnanswered, IndexStored, IndexRefused,
                    IndexRejected, IndexUnanswered,
                    Counting
<1>8. ASSUME NEW c \in Conn, Client(c) PROVE GapInv'
  <2>1. CASE Admit(c) \/ RefuseFrame(c) \/ ClientGone(c)
    BY <1>1, <1>t, <2>1 DEF Admit, RefuseFrame, ClientGone, Counting, HandlerOK
  <2> QED
    BY <1>5, <1>8, <2>1 DEF Client
<1>9. CASE GatewayRestart
  BY <1>9, <1>t DEF GatewayRestart, HandlerOK, Counting, GapInv, BelowGiven,
                    NumbersWithoutGaps, GivenOut
<1>10. CASE StoreLate \/ CursorsAge \/ UNCHANGED vars \/ \E c \in Conn : TicketExpires(c)
  BY <1>1, <1>10 DEF StoreLate, CursorsAge, TicketExpires, Counting
<1> QED
  BY <1>6, <1>7, <1>8, <1>9, <1>10 DEF Next, Quiescent

\* The accepted chunks of a session are numbered without gaps, whatever was refused,
\* lost with its ack, swept or restarted in between.
THEOREM NoGaps == Spec => []NumbersWithoutGaps
<1>1. GapInv => NumbersWithoutGaps
  BY DEF GapInv
<1>2. TypeInv /\ GapInv /\ [Next]_vars => (TypeInv /\ GapInv)'
  BY TypeStep, GapStep
<1> QED
  BY TypeInit, GapInit, <1>1, <1>2, PTL DEF Spec

-----------------------------------------------------------------------------
(* What becomes of the chunks that were accepted: the invariant.            *)

\* Everything in flight was accepted, and a forwarder that waits for its channel
\* holds nothing; there is no forwarder before the session is started.
InFlight ==
    /\ \A c \in Conn : \A i \in 1 .. Len(chan[c]) : chan[c][i] \in accepted
    /\ \A c \in Conn : hand[c] \subseteq accepted
    /\ \A c \in Conn : fpc[c] \notin {"post", "index"} => hand[c] = {}
    /\ \A c \in Conn : \A j, k \in hand[c] : j = k
    /\ late \subseteq accepted
    /\ \A c \in Conn : pc[c] \in {"idle", "admitted"} => fpc[c] = "none"

\* Every accepted chunk has audio of its own.
OwnAudio ==
    /\ \A k \in accepted : k.audio <= minted
    /\ \A j, k \in accepted : j.audio = k.audio => j = k

\* The chunk being indexed is stored, and so is one whose index failed.
StoredFirst ==
    /\ \A c \in Conn : fpc[c] = "index" => \A k \in hand[c] : Stored(k)
    /\ \A k \in idxFailed : Stored(k)

\* Only accepted chunks are written off.
WrittenOffAccepted == fwdFailed \cup lost \subseteq accepted

\* Where an accepted chunk is: on its way, stored with its row, or in a counter.
Traced ==
    \A k \in accepted :
        \/ InChannel(k) \/ InHand(k)
        \/ Stored(k) /\ IdOf(k) \in indexed
        \/ k \in fwdFailed \/ k \in idxFailed \/ k \in lost

DeliveryInv ==
    /\ InFlight
    /\ OwnAudio
    /\ StoredFirst
    /\ WrittenOffAccepted
    /\ Traced
    /\ StoredIsAccepted
    /\ IndexedIsStored

LEMMA DeliveryImplies ==
    DeliveryInv => EveryChunkAccountedFor /\ OrphansAreCounted
BY DEF DeliveryInv, StoredFirst, Traced, EveryChunkAccountedFor, OrphansAreCounted

LEMMA DeliveryInit == Init => DeliveryInv
<1> SUFFICES ASSUME Init PROVE DeliveryInv
  OBVIOUS
<1>1. InFlight
  BY DEF Init, InFlight
<1>2. StoredFirst
  BY DEF Init, StoredFirst
<1>3. StoredIsAccepted /\ IndexedIsStored
  BY DEF Init, StoredIsAccepted, IndexedIsStored
<1>4. OwnAudio /\ WrittenOffAccepted /\ Traced
  BY DEF Init, OwnAudio, WrittenOffAccepted, Traced
<1> QED
  BY <1>1, <1>2, <1>3, <1>4 DEF DeliveryInv

-----------------------------------------------------------------------------
(* The store.                                                              *)

\* What any write does, whole or cut in the middle, when the check found no
\* conflict: stored audio stays, and only the chunk's own slot changes.
LEMMA WriteKeeps ==
    ASSUME TypeInv, StoredIsAccepted, NEW k \in accepted, ~Conflict(k),
           WriteBoth(k) \/ WriteFirst(k)
    PROVE  /\ \A i \in ChunkId : meta[i] # NoAudio => meta'[i] = meta[i] /\ bin'[i] = bin[i]
           /\ \A i \in ChunkId : meta'[i] # NoAudio =>
                 /\ bin'[i] = meta'[i]
                 /\ \E j \in accepted : IdOf(j) = i /\ j.audio = meta'[i]
           /\ WriteBoth(k) => Stored(k)'
           /\ \/ meta' = meta
              \/ /\ meta[IdOf(k)] = NoAudio
                 /\ meta' = [meta EXCEPT ![IdOf(k)] = k.audio]
<1>1. k \in Chunk /\ IdOf(k) \in ChunkId /\ k.audio \in Audio
  BY IdOfChunk DEF TypeInv, TypeOK, HistoryOK
<1>2. k.audio # NoAudio
  BY <1>1 DEF Audio, NoAudio
<1>3. /\ bin \in [ChunkId -> Audio \cup {NoAudio}]
      /\ meta \in [ChunkId -> Audio \cup {NoAudio}]
  BY DEF TypeInv, TypeOK, StoreOK
<1>4. meta[IdOf(k)] = NoAudio \/ meta[IdOf(k)] = k.audio
  BY DEF Conflict
<1>5. /\ bin' = [bin EXCEPT ![IdOf(k)] = k.audio]
      /\ meta' = meta \/ meta' = [meta EXCEPT ![IdOf(k)] = k.audio]
      /\ WriteBoth(k) => meta' = [meta EXCEPT ![IdOf(k)] = k.audio]
      /\ WriteFirst(k) => meta' = meta
  BY DEF WriteBoth, WriteFirst
<1>6. \A i \in ChunkId : meta[i] # NoAudio => bin[i] = meta[i]
  BY DEF StoredIsAccepted
<1>7. \A i \in ChunkId : meta[i] # NoAudio => meta'[i] = meta[i] /\ bin'[i] = bin[i]
  BY <1>1, <1>3, <1>4, <1>5, <1>6
<1>8. ASSUME NEW i \in ChunkId, meta'[i] # NoAudio
      PROVE  /\ bin'[i] = meta'[i]
             /\ \E j \in accepted : IdOf(j) = i /\ j.audio = meta'[i]
  <2>1. CASE i = IdOf(k)
    BY <1>1, <1>3, <1>4, <1>5, <1>8, <2>1
  <2>2. CASE i # IdOf(k)
    BY <1>1, <1>3, <1>5, <1>8, <2>2 DEF StoredIsAccepted
  <2> QED
    BY <2>1, <2>2
<1>9. WriteBoth(k) => meta'[IdOf(k)] = k.audio
  BY <1>1, <1>3, <1>5
<1>10. \/ meta' = meta
       \/ /\ meta[IdOf(k)] = NoAudio
          /\ meta' = [meta EXCEPT ![IdOf(k)] = k.audio]
  BY <1>1, <1>3, <1>4, <1>5
<1> QED
  BY <1>7, <1>8, <1>9, <1>10 DEF Stored

USE DEF vars, handlerVars, gatewayVars, forwardVars, storeVars, countVars, historyVars

\* Only accepted chunks are written, and only where there is no conflict.
LEMMA StoreMoves ==
    ASSUME InFlight, [Next]_vars
    PROVE  /\ accepted \subseteq accepted'
           /\ \/ UNCHANGED <<bin, meta>>
              \/ \E k \in accepted : ~Conflict(k) /\ (WriteBoth(k) \/ WriteFirst(k))
<1> DEFINE Moves == /\ accepted \subseteq accepted'
                    /\ \/ UNCHANGED <<bin, meta>>
                       \/ \E k \in accepted : ~Conflict(k) /\ (WriteBoth(k) \/ WriteFirst(k))
<1>1. ASSUME NEW c \in Conn, Handler(c) PROVE Moves
  BY <1>1 DEF Handler, StartSession, RefuseSession, ResumeSequence, SendAck, AckFails,
              LeaveLoop, RecordSequence, EndSession
<1>2. ASSUME NEW c \in Conn, Client(c) PROVE Moves
  BY <1>2 DEF Client, Admit, AcceptFrame, RefuseFrame, ClientGone
<1>3. ASSUME NEW c \in Conn, Forwarder(c) PROVE Moves
  <2>0. hand[c] \subseteq accepted
    BY DEF InFlight
  <2>1. CASE PostStored(c) \/ PostUnanswered(c)
    BY <2>0, <2>1 DEF PostStored, PostUnanswered
  <2>2. CASE PostRefused(c) \/ PostRejected(c)
    BY <2>2 DEF PostRefused, PostRejected
  <2>3. CASE IndexStored(c) \/ IndexRefused(c) \/ IndexRejected(c) \/ IndexUnanswered(c)
    BY <2>3 DEF IndexStored, IndexRefused, IndexRejected, IndexUnanswered
  <2>4. CASE ForwardRecv(c) \/ ForwardExit(c)
    BY <2>4 DEF ForwardRecv, ForwardExit
  <2> QED
    BY <1>3, <2>1, <2>2, <2>3, <2>4 DEF Forwarder
<1>4. CASE StoreLate
  BY <1>4 DEF StoreLate, InFlight
<1>5. CASE CursorsAge \/ GatewayRestart \/ UNCHANGED vars \/ \E c \in Conn : TicketExpires(c)
  BY <1>5 DEF CursorsAge, GatewayRestart, TicketExpires
<1> QED
  BY <1>1, <1>2, <1>3, <1>4, <1>5 DEF Next, Quiescent

\* Every step keeps what is stored, and fills at most one empty slot.
LEMMA StoreStep ==
    ASSUME TypeInv, InFlight, StoredIsAccepted, [Next]_vars
    PROVE  /\ StoredIsAccepted'
           /\ \A i \in ChunkId : meta[i] # NoAudio => meta'[i] = meta[i] /\ bin'[i] = bin[i]
           /\ \A k \in Chunk : Stored(k) => Stored(k)'
           /\ \/ meta' = meta
              \/ \E k \in accepted :
                    /\ meta[IdOf(k)] = NoAudio
                    /\ meta' = [meta EXCEPT ![IdOf(k)] = k.audio]
<1>1. accepted \subseteq accepted'
  BY StoreMoves
<1>2. CASE UNCHANGED <<bin, meta>>
  <2>1. StoredIsAccepted'
    BY <1>1, <1>2 DEF StoredIsAccepted
  <2> QED
    BY <1>2, <2>1 DEF Stored
<1>3. CASE \E k \in accepted : ~Conflict(k) /\ (WriteBoth(k) \/ WriteFirst(k))
  <2>1. PICK k \in accepted : ~Conflict(k) /\ (WriteBoth(k) \/ WriteFirst(k))
    BY <1>3
  <2>2. /\ \A i \in ChunkId : meta[i] # NoAudio => meta'[i] = meta[i] /\ bin'[i] = bin[i]
        /\ \A i \in ChunkId : meta'[i] # NoAudio =>
              /\ bin'[i] = meta'[i]
              /\ \E j \in accepted : IdOf(j) = i /\ j.audio = meta'[i]
        /\ \/ meta' = meta
           \/ /\ meta[IdOf(k)] = NoAudio
              /\ meta' = [meta EXCEPT ![IdOf(k)] = k.audio]
    BY <2>1, WriteKeeps
  <2>3. StoredIsAccepted'
    BY <1>1, <2>2 DEF StoredIsAccepted
  <2>4. ASSUME NEW j \in Chunk, Stored(j) PROVE Stored(j)'
    <3>1. IdOf(j) \in ChunkId /\ j.audio # NoAudio
      BY IdOfChunk DEF Audio, NoAudio
    <3> QED
      BY <2>2, <2>4, <3>1 DEF Stored
  <2> QED
    BY <2>1, <2>2, <2>3, <2>4
<1> QED
  BY <1>2, <1>3, StoreMoves

-----------------------------------------------------------------------------
(* Channels and hands.                                                     *)

LEMMA InFlightStep == TypeInv /\ InFlight /\ [Next]_vars => InFlight'
<1> SUFFICES ASSUME TypeInv, InFlight, [Next]_vars PROVE InFlight'
  OBVIOUS
<1>t. /\ pc \in [Conn -> {"idle", "admitted", "resuming", "open", "acking",
                          "closing", "ending", "done"}]
      /\ chan \in [Conn -> Seq(Chunk)] /\ hand \in [Conn -> SUBSET Chunk]
      /\ fpc \in [Conn -> {"none", "recv", "post", "index", "done"}]
      /\ accepted \subseteq Chunk
  BY DEF TypeInv, TypeOK, HandlerOK, ForwarderOK, HistoryOK
<1>1. ASSUME UNCHANGED <<chan, hand, fpc, accepted>>, late' \subseteq accepted,
             \A c \in Conn : pc'[c] \in {"idle", "admitted"} => pc[c] \in {"idle", "admitted"}
      PROVE  InFlight'
  BY <1>1 DEF InFlight
<1>2. ASSUME NEW c \in Conn, TakeNext(c), UNCHANGED <<pc, chan, accepted>>,
             late' \subseteq accepted, fpc[c] # "none"
      PROVE  InFlight'
  BY <1>2, <1>t DEF InFlight, TakeNext
<1>3. ASSUME NEW c \in Conn, StartSession(c) PROVE InFlight'
  BY <1>3, <1>t DEF StartSession, InFlight
<1>4. ASSUME NEW c \in Conn, Handler(c) PROVE InFlight'
  <2>1. CASE StartSession(c)
    BY <1>3, <2>1
  <2>2. CASE ~StartSession(c)
    <3>1. UNCHANGED <<chan, hand, fpc, accepted, late>>
      BY <1>4, <2>2 DEF Handler, RefuseSession, ResumeSequence, SendAck, AckFails,
                        LeaveLoop, RecordSequence, EndSession
    <3>2. \E v \in {"done", "open", "closing", "ending"} : pc' = [pc EXCEPT ![c] = v]
      BY <1>4, <2>2 DEF Handler, RefuseSession, ResumeSequence, SendAck, AckFails,
                        LeaveLoop, RecordSequence, EndSession
    <3> QED
      BY <1>1, <1>t, <3>1, <3>2 DEF InFlight
  <2> QED
    BY <2>1, <2>2
<1>5. ASSUME NEW c \in Conn, Client(c) PROVE InFlight'
  <2>1. CASE AcceptFrame(c)
    <3> DEFINE k == [session |-> on[c], number |-> seq[c], audio |-> minted + 1]
               target == sessions[on[c]]
    <3>1. /\ chan' = [chan EXCEPT ![target] = Append(@, k)]
          /\ accepted' = accepted \cup {k}
          /\ pc' = [pc EXCEPT ![c] = "acking"]
          /\ UNCHANGED <<fpc, hand, late>>
      BY <2>1 DEF AcceptFrame
    <3> HIDE DEF k, target
    <3>2. \A d \in Conn : \A i \in 1 .. Len(chan'[d]) : chan'[d][i] \in accepted'
      <4> SUFFICES ASSUME NEW d \in Conn, NEW i \in 1 .. Len(chan'[d])
                   PROVE  chan'[d][i] \in accepted'
        OBVIOUS
      <4>1. chan[d] \in Seq(Chunk) /\ chan'[d] \in {chan[d], Append(chan[d], k)}
        BY <1>t, <3>1
      <4>2. CASE chan'[d] = chan[d]
        BY <3>1, <4>2 DEF InFlight
      <4>3. CASE chan'[d] = Append(chan[d], k)
        <5>1. CASE i \in 1 .. Len(chan[d])
          BY <3>1, <4>1, <4>3, <5>1 DEF InFlight
        <5>2. CASE i = Len(chan[d]) + 1
          BY <3>1, <4>1, <4>3, <5>2
        <5> QED
          BY <4>1, <4>3, <5>1, <5>2
      <4> QED
        BY <4>1, <4>2, <4>3
    <3> QED
      BY <1>t, <3>1, <3>2 DEF InFlight
  <2>2. CASE Admit(c) \/ RefuseFrame(c) \/ ClientGone(c)
    BY <1>t, <2>2 DEF Admit, RefuseFrame, ClientGone, InFlight
  <2> QED
    BY <1>5, <2>1, <2>2 DEF Client
<1>6. ASSUME NEW c \in Conn, Forwarder(c) PROVE InFlight'
  <2>0. late \subseteq accepted /\ hand[c] \subseteq accepted
    BY DEF InFlight
  <2>1. CASE ForwardRecv(c)
    <3>1. /\ chan[c] \in Seq(Chunk) /\ chan[c] # <<>>
          /\ chan' = [chan EXCEPT ![c] = Tail(chan[c])]
          /\ hand' = [hand EXCEPT ![c] = {Head(chan[c])}]
          /\ fpc' = [fpc EXCEPT ![c] = "post"]
          /\ fpc[c] = "recv"
          /\ UNCHANGED <<pc, accepted, late>>
      BY <1>t, <2>1 DEF ForwardRecv
    <3>2. Head(chan[c]) \in accepted
      BY <3>1 DEF InFlight
    <3>3. \A i \in 1 .. Len(Tail(chan[c])) : Tail(chan[c])[i] \in accepted
      BY <3>1 DEF InFlight
    <3> QED
      BY <1>t, <3>1, <3>2, <3>3 DEF InFlight
  <2>2. CASE ForwardExit(c)
    BY <1>t, <2>2 DEF ForwardExit, InFlight
  <2>3. CASE PostStored(c)
    BY <1>t, <2>3 DEF PostStored, InFlight
  <2>4. CASE PostRefused(c) \/ PostRejected(c)
    BY <1>2, <2>0, <2>4 DEF PostRefused, PostRejected, AfterForwardFailure
  <2>5. CASE PostUnanswered(c)
    <3>1. /\ late' \subseteq accepted
          /\ UNCHANGED <<pc, chan, accepted>> /\ fpc[c] = "post"
          /\ TakeNext(c) \/ UNCHANGED <<fpc, hand>>
      BY <2>0, <2>5 DEF PostUnanswered, AfterForwardFailure
    <3> QED
      BY <1>1, <1>2, <3>1
  <2>6. CASE IndexStored(c) \/ IndexRefused(c) \/ IndexRejected(c)
    BY <1>2, <2>0, <2>6 DEF IndexStored, IndexRefused, IndexRejected
  <2>7. CASE IndexUnanswered(c)
    <3>1. /\ late' \subseteq accepted
          /\ UNCHANGED <<pc, chan, accepted>> /\ fpc[c] = "index"
          /\ TakeNext(c) \/ UNCHANGED <<fpc, hand>>
      BY <2>0, <2>7 DEF IndexUnanswered
    <3> QED
      BY <1>1, <1>2, <3>1
  <2> QED
    BY <1>6, <2>1, <2>2, <2>3, <2>4, <2>5, <2>6, <2>7 DEF Forwarder
<1>7. CASE StoreLate \/ CursorsAge \/ UNCHANGED vars \/ \E c \in Conn : TicketExpires(c)
  BY <1>1, <1>7 DEF StoreLate, CursorsAge, TicketExpires, InFlight
<1>8. CASE GatewayRestart
  BY <1>8, <1>t DEF GatewayRestart, InFlight
<1> QED
  BY <1>4, <1>5, <1>6, <1>7, <1>8 DEF Next, Quiescent

\* A new chunk has audio of its own.
LEMMA OwnAudioStep == TypeInv /\ OwnAudio /\ [Next]_vars => OwnAudio'
<1> SUFFICES ASSUME TypeInv, OwnAudio, [Next]_vars PROVE OwnAudio'
  OBVIOUS
<1>1. CASE UNCHANGED <<accepted, minted>>
  BY <1>1 DEF OwnAudio
<1>2. ASSUME NEW c \in Conn, AcceptFrame(c) PROVE OwnAudio'
  <2> DEFINE k == [session |-> on[c], number |-> seq[c], audio |-> minted + 1]
  <2>1. accepted' = accepted \cup {k} /\ minted' = minted + 1
    BY <1>2 DEF AcceptFrame
  <2>2. minted \in Nat /\ accepted \subseteq Chunk /\ k.audio = minted + 1
    BY SizeAssumption DEF TypeInv, TypeOK, HistoryOK
  <2>3. \A j \in accepted : j.audio \in Nat /\ j.audio <= minted
    BY <2>2, SizeAssumption DEF OwnAudio, Chunk, Audio
  <2> QED
    BY <2>1, <2>2, <2>3 DEF OwnAudio
<1>3. ASSUME NEW c \in Conn, Client(c), ~AcceptFrame(c) PROVE OwnAudio'
  BY <1>1, <1>3 DEF Client, Admit, RefuseFrame, ClientGone
<1>4. ASSUME NEW c \in Conn, Handler(c) PROVE OwnAudio'
  BY <1>1, <1>4 DEF Handler, StartSession, RefuseSession, ResumeSequence, SendAck, AckFails,
                    LeaveLoop, RecordSequence, EndSession
<1>5. ASSUME NEW c \in Conn, Forwarder(c) PROVE OwnAudio'
  BY <1>1, <1>5 DEF Forwarder, ForwardRecv, ForwardExit, PostStored, PostRefused,
                    PostRejected, PostUnanswered, IndexStored, IndexRefused,
                    IndexRejected, IndexUnanswered
<1>6. CASE StoreLate \/ CursorsAge \/ GatewayRestart \/ UNCHANGED vars
           \/ \E c \in Conn : TicketExpires(c)
  BY <1>1, <1>6 DEF StoreLate, CursorsAge, GatewayRestart, TicketExpires
<1> QED
  BY <1>2, <1>3, <1>4, <1>5, <1>6 DEF Next, Quiescent

\* Only what a forwarder holds, or what a restart takes down, is written off.
LEMMA WrittenOffStep ==
    TypeInv /\ InFlight /\ WrittenOffAccepted /\ [Next]_vars => WrittenOffAccepted'
<1> SUFFICES ASSUME TypeInv, InFlight, WrittenOffAccepted, [Next]_vars
             PROVE  WrittenOffAccepted'
  OBVIOUS
<1>1. accepted \subseteq accepted'
  BY StoreMoves
<1>2. CASE UNCHANGED <<fwdFailed, lost>>
  BY <1>1, <1>2 DEF WrittenOffAccepted
<1>3. ASSUME NEW c \in Conn, Forwarder(c) PROVE WrittenOffAccepted'
  <2>0. hand[c] \subseteq accepted
    BY DEF InFlight
  <2>1. CASE PostRefused(c)
    BY <1>1, <2>0, <2>1 DEF PostRefused, CountForwardFailure, WrittenOffAccepted
  <2>2. CASE PostRejected(c)
    BY <1>1, <2>0, <2>2 DEF PostRejected, CountForwardFailure, WrittenOffAccepted
  <2>3. CASE PostUnanswered(c)
    BY <1>1, <2>0, <2>3 DEF PostUnanswered, CountForwardFailure, WrittenOffAccepted
  <2>4. CASE ForwardRecv(c) \/ ForwardExit(c) \/ PostStored(c) \/ IndexStored(c)
             \/ IndexRefused(c) \/ IndexRejected(c) \/ IndexUnanswered(c)
    BY <1>2, <2>4 DEF ForwardRecv, ForwardExit, PostStored, IndexStored, IndexRefused,
                      IndexRejected, IndexUnanswered
  <2> QED
    BY <1>3, <2>1, <2>2, <2>3, <2>4 DEF Forwarder
<1>4. ASSUME NEW c \in Conn, Handler(c) PROVE WrittenOffAccepted'
  BY <1>2, <1>4 DEF Handler, StartSession, RefuseSession, ResumeSequence, SendAck, AckFails,
                    LeaveLoop, RecordSequence, EndSession
<1>5. ASSUME NEW c \in Conn, Client(c) PROVE WrittenOffAccepted'
  BY <1>2, <1>5 DEF Client, Admit, AcceptFrame, RefuseFrame, ClientGone
<1>6. CASE GatewayRestart
  BY <1>6 DEF GatewayRestart, WrittenOffAccepted
<1>7. CASE StoreLate \/ CursorsAge \/ UNCHANGED vars \/ \E c \in Conn : TicketExpires(c)
  BY <1>2, <1>7 DEF StoreLate, CursorsAge, TicketExpires
<1> QED
  BY <1>3, <1>4, <1>5, <1>6, <1>7 DEF Next, Quiescent

\* A forwarder indexes after it stored, and what it indexes stays stored.
LEMMA IndexStep ==
    ASSUME TypeInv, InFlight, StoredIsAccepted, StoredFirst, IndexedIsStored, [Next]_vars
    PROVE  StoredFirst' /\ IndexedIsStored'
<1>s. /\ \A k \in Chunk : Stored(k) => Stored(k)'
      /\ \A i \in ChunkId : meta[i] # NoAudio => meta'[i] # NoAudio
  BY StoreStep
<1>t. /\ hand \in [Conn -> SUBSET Chunk]
      /\ fpc \in [Conn -> {"none", "recv", "post", "index", "done"}]
      /\ idxFailed \subseteq Chunk /\ indexed \subseteq ChunkId
  BY DEF TypeInv, TypeOK, ForwarderOK, CountersOK, StoreOK
<1>1. ASSUME UNCHANGED <<hand, fpc, idxFailed, indexed>>
      PROVE  StoredFirst' /\ IndexedIsStored'
  BY <1>1, <1>s, <1>t DEF StoredFirst, IndexedIsStored
<1> DEFINE Settled(c) == /\ hand' = [hand EXCEPT ![c] = {}]
                         /\ fpc' = [fpc EXCEPT ![c] = "recv"]
<1>2. ASSUME NEW c \in Conn, Settled(c), UNCHANGED idxFailed
      PROVE  StoredFirst'
  BY <1>2, <1>s, <1>t DEF StoredFirst
<1>2b. ASSUME NEW c \in Conn, Settled(c), NEW k \in Chunk, Stored(k),
              idxFailed' = idxFailed \cup {k}
       PROVE  StoredFirst'
  BY <1>2b, <1>s, <1>t DEF StoredFirst
<1>3. ASSUME NEW k \in Chunk, Stored(k), indexed' \subseteq indexed \cup {IdOf(k)}
      PROVE  IndexedIsStored'
  <2>1. IdOf(k) \in ChunkId /\ meta[IdOf(k)] # NoAudio
    BY <1>3, IdOfChunk DEF Stored, Audio, NoAudio
  <2> QED
    BY <1>3, <1>s, <1>t, <2>1 DEF IndexedIsStored
<1>4. ASSUME UNCHANGED indexed PROVE IndexedIsStored'
  BY <1>4, <1>s, <1>t DEF IndexedIsStored
<1>5. ASSUME NEW c \in Conn, Forwarder(c) PROVE StoredFirst' /\ IndexedIsStored'
  <2>1. CASE ForwardRecv(c)
    BY <1>4, <1>s, <1>t, <2>1 DEF ForwardRecv, StoredFirst
  <2>2. CASE ForwardExit(c)
    BY <1>4, <1>s, <1>t, <2>2 DEF ForwardExit, StoredFirst
  <2>3. CASE PostStored(c)
    <3>1. PICK k \in hand[c] : WriteBoth(k) /\ ~Conflict(k)
      BY <2>3 DEF PostStored
    <3>2. Stored(k)' /\ k \in accepted
      BY <3>1, WriteKeeps DEF InFlight
    <3>3. \A j \in hand[c] : j = k
      BY DEF InFlight
    <3>4. /\ UNCHANGED <<hand, idxFailed, indexed>>
          /\ fpc' = [fpc EXCEPT ![c] = "index"]
      BY <2>3 DEF PostStored
    <3>5. StoredFirst'
      BY <1>s, <1>t, <3>2, <3>3, <3>4 DEF StoredFirst
    <3> QED
      BY <1>4, <3>4, <3>5
  <2>4. CASE PostRefused(c) \/ PostRejected(c)
    <3>1. Settled(c) /\ UNCHANGED <<idxFailed, indexed>>
      BY <2>4 DEF PostRefused, PostRejected, AfterForwardFailure, TakeNext
    <3> QED
      BY <1>2, <1>4, <3>1
  <2>5. CASE PostUnanswered(c)
    <3>1. /\ UNCHANGED <<idxFailed, indexed>>
          /\ \/ UNCHANGED <<hand, fpc>>
             \/ Settled(c)
      BY <2>5 DEF PostUnanswered, AfterForwardFailure, TakeNext
    <3> QED
      BY <1>1, <1>2, <1>4, <3>1
  <2>6. CASE fpc[c] = "index"
    <3>1. \A k \in hand[c] : k \in Chunk /\ Stored(k)
      BY <1>t, <2>6 DEF StoredFirst
    <3>2. CASE IndexStored(c)
      <4>1. PICK k \in hand[c] : indexed' = indexed \cup {IdOf(k)}
        BY <3>2 DEF IndexStored
      <4>2. Settled(c) /\ UNCHANGED idxFailed
        BY <3>2 DEF IndexStored, TakeNext
      <4>3. StoredFirst'
        BY <1>2, <4>2
      <4>4. IndexedIsStored'
        BY <1>3, <3>1, <4>1
      <4> QED
        BY <4>3, <4>4
    <3>3. CASE IndexRefused(c) \/ IndexRejected(c)
      <4>1. PICK k \in hand[c] : idxFailed' = idxFailed \cup {k}
        BY <3>3 DEF IndexRefused, IndexRejected, CountIndexFailure
      <4>2. Settled(c) /\ UNCHANGED indexed
        BY <3>3 DEF IndexRefused, IndexRejected, TakeNext
      <4>3. StoredFirst'
        BY <1>2b, <3>1, <4>1, <4>2
      <4> QED
        BY <1>4, <4>2, <4>3
    <3>4. CASE IndexUnanswered(c)
      <4>1. PICK k \in hand[c] :
               /\ indexed' \in {indexed, indexed \cup {IdOf(k)}}
               /\ \/ UNCHANGED <<fpc, hand, idxFailed>>
                  \/ idxFailed' = idxFailed \cup {k} /\ Settled(c)
        BY <3>4 DEF IndexUnanswered, CountIndexFailure, TakeNext
      <4>2. IndexedIsStored'
        BY <1>3, <3>1, <4>1
      <4>3. CASE UNCHANGED <<fpc, hand, idxFailed>>
        BY <1>s, <1>t, <4>2, <4>3 DEF StoredFirst
      <4>4. CASE idxFailed' = idxFailed \cup {k} /\ Settled(c)
        BY <1>2b, <3>1, <4>2, <4>4
      <4> QED
        BY <4>1, <4>3, <4>4
    <3>5. CASE ~(IndexStored(c) \/ IndexRefused(c) \/ IndexRejected(c) \/ IndexUnanswered(c))
      BY <1>5, <2>1, <2>2, <2>3, <2>4, <2>5, <3>5 DEF Forwarder
    <3> QED
      BY <3>2, <3>3, <3>4, <3>5
  <2>7. CASE fpc[c] # "index"
    <3>1. ~(IndexStored(c) \/ IndexRefused(c) \/ IndexRejected(c) \/ IndexUnanswered(c))
      BY <2>7 DEF IndexStored, IndexRefused, IndexRejected, IndexUnanswered
    <3> QED
      BY <1>5, <2>1, <2>2, <2>3, <2>4, <2>5, <3>1 DEF Forwarder
  <2> QED
    BY <2>6, <2>7
<1>6. ASSUME NEW c \in Conn, Handler(c) PROVE StoredFirst' /\ IndexedIsStored'
  <2>1. CASE StartSession(c)
    <3>1. /\ UNCHANGED <<hand, idxFailed, indexed>>
          /\ fpc' = [fpc EXCEPT ![c] = "recv"]
      BY <2>1 DEF StartSession
    <3> QED
      BY <1>4, <1>s, <1>t, <3>1 DEF StoredFirst
  <2>2. CASE ~StartSession(c)
    BY <1>1, <1>6, <2>2 DEF Handler, RefuseSession, ResumeSequence, SendAck, AckFails,
                            LeaveLoop, RecordSequence, EndSession
  <2> QED
    BY <2>1, <2>2
<1>7. ASSUME NEW c \in Conn, Client(c) PROVE StoredFirst' /\ IndexedIsStored'
  BY <1>1, <1>7 DEF Client, Admit, AcceptFrame, RefuseFrame, ClientGone
<1>8. CASE GatewayRestart
  <2>1. /\ hand' = [c \in Conn |-> {}] /\ UNCHANGED <<idxFailed, indexed>>
    BY <1>8 DEF GatewayRestart
  <2> QED
    BY <1>4, <1>s, <1>t, <2>1 DEF StoredFirst
<1>9. CASE StoreLate \/ CursorsAge \/ UNCHANGED vars \/ \E c \in Conn : TicketExpires(c)
  BY <1>1, <1>9 DEF StoreLate, CursorsAge, TicketExpires
<1> QED
  BY <1>5, <1>6, <1>7, <1>8, <1>9 DEF Next, Quiescent

\* Rows and counters are never taken back.
LEMMA OnlyGrow ==
    ASSUME [Next]_vars
    PROVE  /\ indexed \subseteq indexed' /\ fwdFailed \subseteq fwdFailed'
           /\ idxFailed \subseteq idxFailed' /\ lost \subseteq lost'
<1> DEFINE Grown == /\ indexed \subseteq indexed' /\ fwdFailed \subseteq fwdFailed'
                    /\ idxFailed \subseteq idxFailed' /\ lost \subseteq lost'
<1>1. ASSUME NEW c \in Conn, Handler(c) PROVE Grown
  BY <1>1 DEF Handler, StartSession, RefuseSession, ResumeSequence, SendAck, AckFails,
              LeaveLoop, RecordSequence, EndSession
<1>2. ASSUME NEW c \in Conn, Client(c) PROVE Grown
  BY <1>2 DEF Client, Admit, AcceptFrame, RefuseFrame, ClientGone
<1>3. ASSUME NEW c \in Conn, Forwarder(c) PROVE Grown
  <2>1. CASE ForwardRecv(c) \/ ForwardExit(c) \/ PostStored(c)
    BY <2>1 DEF ForwardRecv, ForwardExit, PostStored
  <2>2. CASE PostRefused(c) \/ PostRejected(c) \/ PostUnanswered(c)
    BY <2>2 DEF PostRefused, PostRejected, PostUnanswered, CountForwardFailure
  <2>3. CASE IndexStored(c) \/ IndexRefused(c) \/ IndexRejected(c) \/ IndexUnanswered(c)
    BY <2>3 DEF IndexStored, IndexRefused, IndexRejected, IndexUnanswered, CountIndexFailure
  <2> QED
    BY <1>3, <2>1, <2>2, <2>3 DEF Forwarder
<1>4. CASE StoreLate \/ CursorsAge \/ GatewayRestart \/ UNCHANGED vars
           \/ \E c \in Conn : TicketExpires(c)
  BY <1>4 DEF StoreLate, CursorsAge, GatewayRestart, TicketExpires
<1> QED
  BY <1>1, <1>2, <1>3, <1>4 DEF Next, Quiescent

\* A chunk leaves its channel for a hand, and a hand for the store or a counter.
LEMMA TracedStep ==
    ASSUME TypeInv, InFlight, StoredIsAccepted, StoredFirst, Traced, [Next]_vars
    PROVE  Traced'
<1>t. /\ chan \in [Conn -> Seq(Chunk)] /\ hand \in [Conn -> SUBSET Chunk]
      /\ accepted \subseteq Chunk
  BY DEF TypeInv, TypeOK, ForwarderOK, HistoryOK
<1>s. ASSUME NEW j \in accepted, ~InChannel(j), ~InHand(j)
      PROVE  \/ Stored(j)' /\ IdOf(j) \in indexed'
             \/ j \in fwdFailed' \/ j \in idxFailed' \/ j \in lost'
  BY <1>s, <1>t, OnlyGrow, StoreStep DEF Traced
<1>1. ASSUME UNCHANGED <<chan, hand, accepted>> PROVE Traced'
  BY <1>1, <1>s DEF Traced, InChannel, InHand
<1>2. ASSUME NEW c \in Conn, hand' = [hand EXCEPT ![c] = {}], UNCHANGED <<chan, accepted>>,
             \A k \in hand[c] : \/ Stored(k)' /\ IdOf(k) \in indexed'
                                \/ k \in fwdFailed' \/ k \in idxFailed'
      PROVE  Traced'
  <2> SUFFICES ASSUME NEW j \in accepted, ~InChannel(j)', ~InHand(j)'
               PROVE  \/ Stored(j)' /\ IdOf(j) \in indexed'
                      \/ j \in fwdFailed' \/ j \in idxFailed' \/ j \in lost'
    BY <1>2 DEF Traced
  <2>1. ~InChannel(j)
    BY <1>2 DEF InChannel
  <2>2. CASE j \in hand[c]
    BY <1>2, <2>2
  <2>3. CASE j \notin hand[c]
    <3>1. ~InHand(j)
      BY <1>2, <1>t, <2>3 DEF InHand
    <3> QED
      BY <1>s, <2>1, <3>1
  <2> QED
    BY <2>2, <2>3
<1>3. ASSUME NEW c \in Conn, AcceptFrame(c) PROVE Traced'
  <2> DEFINE new == [session |-> on[c], number |-> seq[c], audio |-> minted + 1]
  <2>0. new \in Chunk /\ sessions[on[c]] \in Conn
    <3>1. /\ on[c] \in Session /\ seq[c] \in 0 .. MaxSessionChunks
          /\ seq[c] < MaxSessionChunks /\ minted < MaxFrames
          /\ sessions[on[c]] \in Conn \cup {NoConn} /\ sessions[on[c]] # NoConn
          /\ minted \in 0 .. MaxFrames
      BY <1>3 DEF AcceptFrame, TypeInv, TypeOK, HandlerOK, GatewayOK, HistoryOK
    <3>2. new \in Chunk
      BY <3>1, SizeAssumption DEF Chunk, ChunkNo, Audio
    <3> QED
      BY <3>1, <3>2
  <2>1a. PICK k \in Chunk : k = new
    BY <2>0
  <2>1b. PICK target \in Conn : target = sessions[on[c]]
    BY <2>0
  <2>1. /\ chan' = [chan EXCEPT ![target] = Append(@, k)]
        /\ accepted' = accepted \cup {k}
        /\ UNCHANGED hand
    BY <1>3, <2>1a, <2>1b DEF AcceptFrame
  <2>2. target \in Conn /\ k \in Chunk
    OBVIOUS
  <2> HIDE DEF new
  <2>3. InChannel(k)'
    <3>1. chan'[target] = Append(chan[target], k) /\ chan[target] \in Seq(Chunk)
      BY <1>t, <2>1, <2>2
    <3>2. /\ Len(chan'[target]) = Len(chan[target]) + 1
          /\ chan'[target][Len(chan[target]) + 1] = k
          /\ Len(chan[target]) + 1 \in 1 .. Len(chan'[target])
      BY <2>2, <3>1
    <3>3. \E i \in 1 .. Len(chan'[target]) : chan'[target][i] = k
      BY <3>2
    <3> QED
      BY <2>2, <3>3 DEF InChannel
  <2>4. ASSUME NEW j \in accepted, InChannel(j) PROVE InChannel(j)'
    <3>1. PICK d \in Conn : \E i \in 1 .. Len(chan[d]) : chan[d][i] = j
      BY <2>4 DEF InChannel
    <3>2. PICK i \in 1 .. Len(chan[d]) : chan[d][i] = j
      BY <3>1
    <3>3. chan[d] \in Seq(Chunk) /\ chan'[d] \in {chan[d], Append(chan[d], k)}
      BY <1>t, <2>1
    <3>4. i \in 1 .. Len(chan'[d]) /\ chan'[d][i] = j
      BY <2>2, <3>2, <3>3
    <3> QED
      BY <3>4 DEF InChannel
  <2>5. ASSUME NEW j \in accepted, InHand(j) PROVE InHand(j)'
    BY <2>1, <2>5 DEF InHand
  <2>6. ASSUME NEW j \in accepted'
        PROVE  \/ InChannel(j)' \/ InHand(j)'
               \/ Stored(j)' /\ IdOf(j) \in indexed'
               \/ j \in fwdFailed' \/ j \in idxFailed' \/ j \in lost'
    <3>1. CASE j = k
      BY <2>3, <3>1
    <3>2. CASE j # k
      <4>1. j \in accepted
        BY <2>1, <2>6, <3>2
      <4> QED
        BY <1>s, <2>4, <2>5, <4>1
    <3> QED
      BY <3>1, <3>2
  <2> QED
    BY <2>6 DEF Traced
<1>4. ASSUME NEW c \in Conn, ForwardRecv(c) PROVE Traced'
  <2>1. /\ chan[c] \in Seq(Chunk) /\ chan[c] # <<>>
        /\ chan' = [chan EXCEPT ![c] = Tail(chan[c])]
        /\ hand' = [hand EXCEPT ![c] = {Head(chan[c])}]
        /\ hand[c] = {}
        /\ UNCHANGED accepted
    BY <1>4, <1>t DEF ForwardRecv, InFlight
  <2>2. ASSUME NEW j \in accepted, InChannel(j) PROVE InChannel(j)' \/ InHand(j)'
    <3>1. PICK d \in Conn : \E i \in 1 .. Len(chan[d]) : chan[d][i] = j
      BY <2>2 DEF InChannel
    <3>2. PICK i \in 1 .. Len(chan[d]) : chan[d][i] = j
      BY <3>1
    <3>3. CASE d # c
      <4>1. chan'[d] = chan[d]
        BY <1>t, <2>1, <3>3
      <4> QED
        BY <3>2, <4>1 DEF InChannel
    <3>4. CASE d = c /\ i = 1
      <4>1. j \in hand'[c]
        BY <1>t, <2>1, <3>2, <3>4
      <4> QED
        BY <4>1 DEF InHand
    <3>5. CASE d = c /\ i # 1
      <4>1. chan'[c] = Tail(chan[c])
        BY <1>t, <2>1
      <4>2. i - 1 \in 1 .. Len(chan'[c]) /\ chan'[c][i - 1] = j
        <5>1. i \in 1 .. Len(chan[c]) /\ chan[c][i] = j /\ i # 1 /\ Len(chan[c]) \in Nat
          BY <2>1, <3>2, <3>5
        <5>2. Len(Tail(chan[c])) = Len(chan[c]) - 1
          BY <2>1
        <5>3. i - 1 \in 1 .. Len(Tail(chan[c]))
          BY <5>1, <5>2
        <5>4. Tail(chan[c])[i - 1] = chan[c][(i - 1) + 1]
          BY <2>1, <5>2, <5>3
        <5>5. (i - 1) + 1 = i
          BY <5>1
        <5> QED
          BY <4>1, <5>1, <5>3, <5>4, <5>5
      <4> QED
        BY <4>2 DEF InChannel
    <3> QED
      BY <3>3, <3>4, <3>5
  <2>3. ASSUME NEW j \in accepted, InHand(j) PROVE InHand(j)'
    BY <1>t, <2>1, <2>3 DEF InHand
  <2> QED
    BY <1>s, <2>1, <2>2, <2>3 DEF Traced
<1>5. ASSUME NEW c \in Conn, Forwarder(c) PROVE Traced'
  <2>0. \A j, k \in hand[c] : j = k
    BY DEF InFlight
  <2>1. CASE ForwardRecv(c)
    BY <1>4, <2>1
  <2>2. CASE ForwardExit(c) \/ PostStored(c)
    BY <1>1, <2>2 DEF ForwardExit, PostStored
  <2>3. CASE PostRefused(c) \/ PostRejected(c)
    <3>1. PICK k \in hand[c] : fwdFailed' = fwdFailed \cup {k}
      BY <2>3 DEF PostRefused, PostRejected, CountForwardFailure
    <3>2. hand' = [hand EXCEPT ![c] = {}] /\ UNCHANGED <<chan, accepted>>
      BY <2>3 DEF PostRefused, PostRejected, AfterForwardFailure, TakeNext
    <3> QED
      BY <1>2, <2>0, <3>1, <3>2
  <2>4. CASE PostUnanswered(c)
    <3>1. PICK k \in hand[c] :
             \/ UNCHANGED hand
             \/ fwdFailed' = fwdFailed \cup {k} /\ hand' = [hand EXCEPT ![c] = {}]
      BY <2>4 DEF PostUnanswered, CountForwardFailure, AfterForwardFailure, TakeNext
    <3>2. UNCHANGED <<chan, accepted>>
      BY <2>4 DEF PostUnanswered
    <3> QED
      BY <1>1, <1>2, <2>0, <3>1, <3>2
  <2>5. CASE IndexStored(c)
    <3>1. PICK k \in hand[c] : indexed' = indexed \cup {IdOf(k)}
      BY <2>5 DEF IndexStored
    <3>2. /\ hand' = [hand EXCEPT ![c] = {}] /\ UNCHANGED <<chan, accepted>>
          /\ fpc[c] = "index" /\ UNCHANGED meta
      BY <2>5 DEF IndexStored, TakeNext
    <3>3. Stored(k)'
      BY <3>2 DEF StoredFirst, Stored
    <3> QED
      BY <1>2, <2>0, <3>1, <3>2, <3>3
  <2>6. CASE IndexRefused(c) \/ IndexRejected(c)
    <3>1. PICK k \in hand[c] : idxFailed' = idxFailed \cup {k}
      BY <2>6 DEF IndexRefused, IndexRejected, CountIndexFailure
    <3>2. hand' = [hand EXCEPT ![c] = {}] /\ UNCHANGED <<chan, accepted>>
      BY <2>6 DEF IndexRefused, IndexRejected, TakeNext
    <3> QED
      BY <1>2, <2>0, <3>1, <3>2
  <2>7. CASE IndexUnanswered(c)
    <3>1. PICK k \in hand[c] :
             \/ UNCHANGED hand
             \/ idxFailed' = idxFailed \cup {k} /\ hand' = [hand EXCEPT ![c] = {}]
      BY <2>7 DEF IndexUnanswered, CountIndexFailure, TakeNext
    <3>2. UNCHANGED <<chan, accepted>>
      BY <2>7 DEF IndexUnanswered
    <3> QED
      BY <1>1, <1>2, <2>0, <3>1, <3>2
  <2> QED
    BY <1>5, <2>1, <2>2, <2>3, <2>4, <2>5, <2>6, <2>7 DEF Forwarder
<1>6. ASSUME NEW c \in Conn, Handler(c) PROVE Traced'
  BY <1>1, <1>6 DEF Handler, StartSession, RefuseSession, ResumeSequence, SendAck, AckFails,
                    LeaveLoop, RecordSequence, EndSession
<1>7. ASSUME NEW c \in Conn, Client(c) PROVE Traced'
  BY <1>1, <1>3, <1>7 DEF Client, Admit, RefuseFrame, ClientGone
<1>8. CASE GatewayRestart
  <2>1. /\ lost' = lost \cup {k \in accepted : InChannel(k) \/ InHand(k)}
        /\ UNCHANGED accepted
    BY <1>8 DEF GatewayRestart
  <2> QED
    BY <1>s, <2>1 DEF Traced
<1>9. CASE StoreLate \/ CursorsAge \/ UNCHANGED vars \/ \E c \in Conn : TicketExpires(c)
  BY <1>1, <1>9 DEF StoreLate, CursorsAge, TicketExpires
<1> QED
  BY <1>5, <1>6, <1>7, <1>8, <1>9 DEF Next, Quiescent

-----------------------------------------------------------------------------
(* The theorems.                                                           *)

LEMMA DeliveryStep == TypeInv /\ DeliveryInv /\ [Next]_vars => (TypeInv /\ DeliveryInv)'
BY TypeStep, InFlightStep, OwnAudioStep, WrittenOffStep, IndexStep, TracedStep, StoreStep
DEF DeliveryInv

LEMMA DeliveryCorrect == Spec => [](TypeInv /\ DeliveryInv)
BY TypeInit, DeliveryInit, DeliveryStep, PTL DEF Spec

\* No accepted chunk is silently gone: it is on its way, stored, counted, or went
\* down with the process.
THEOREM ChunksAccountedFor == Spec => []EveryChunkAccountedFor
BY DeliveryCorrect, DeliveryImplies, PTL

\* Stored audio without an index row is told of by a counter.
THEOREM OrphansCounted == Spec => []OrphansAreCounted
BY DeliveryCorrect, DeliveryImplies, PTL

\* The two files of a stored chunk agree and hold audio accepted under its id, and
\* an index row points at stored audio.
THEOREM StoreConsistent == Spec => [](StoredIsAccepted /\ IndexedIsStored)
<1>1. DeliveryInv => StoredIsAccepted /\ IndexedIsStored
  BY DEF DeliveryInv
<1> QED
  BY <1>1, DeliveryCorrect, PTL

\* An index row is never ahead of the store (the forwarder indexes what it has
\* posted).
THEOREM IndexFollowsStore == Spec => []IndexedIsStored
BY StoreConsistent, PTL

\* Stored audio is never replaced, whatever connections, retries and late requests
\* write to its id.
THEOREM StoredStays == Spec => StoredNeverReplaced
<1>1. TypeInv /\ DeliveryInv /\ [Next]_vars
        => [\A i \in ChunkId : meta[i] # NoAudio =>
                meta'[i] = meta[i] /\ bin'[i] = bin[i]]_vars
  BY StoreStep DEF DeliveryInv
<1> QED
  BY <1>1, DeliveryCorrect, PTL DEF Spec, StoredNeverReplaced

\* The pipeline implements the write-once archive.
THEOREM PipelineImplementsArchive == Spec => ImplementsArchive
<1>1. Init => Recording!Init
  BY DEF Init, Recording!Init
<1>2. ASSUME TypeInv, DeliveryInv, DeliveryInv', TypeInv', [Next]_vars
      PROVE  [Recording!Next]_<<accepted, meta, fwdFailed \cup lost>>
  <2>1. Recording!WriteOffs \/ accepted' # accepted
    BY <1>2, OnlyGrow DEF Recording!WriteOffs, DeliveryInv, WrittenOffAccepted
  <2>2. CASE accepted' = accepted
    <3>1. Recording!WriteOffs
      BY <2>1, <2>2
    <3>2. CASE meta' = meta
      BY <2>2, <3>1, <3>2 DEF Recording!Next
    <3>3. CASE \E k \in accepted : /\ meta[IdOf(k)] = NoAudio
                                   /\ meta' = [meta EXCEPT ![IdOf(k)] = k.audio]
      <4>1. PICK k \in accepted : /\ meta[IdOf(k)] = NoAudio
                                  /\ meta' = [meta EXCEPT ![IdOf(k)] = k.audio]
        BY <3>3
      <4>2. k \in Chunk
        BY <1>2 DEF TypeInv, TypeOK, HistoryOK
      <4>3. Recording!Archive(k)
        BY <4>1 DEF Recording!Archive, AudioOf
      <4> QED
        BY <2>2, <3>1, <4>2, <4>3 DEF Recording!Next
    <3> QED
      BY <1>2, <3>2, <3>3, StoreStep DEF DeliveryInv
  <2>3. CASE accepted' # accepted
    <3>1. PICK c \in Conn : AcceptFrame(c)
      <4>1. ASSUME NEW c \in Conn, Handler(c) PROVE accepted' = accepted
        BY <4>1 DEF Handler, StartSession, RefuseSession, ResumeSequence, SendAck, AckFails,
                    LeaveLoop, RecordSequence, EndSession
      <4>2. ASSUME NEW c \in Conn, Forwarder(c) PROVE accepted' = accepted
        BY <4>2 DEF Forwarder, ForwardRecv, ForwardExit, PostStored, PostRefused,
                    PostRejected, PostUnanswered, IndexStored, IndexRefused,
                    IndexRejected, IndexUnanswered
      <4>3. CASE StoreLate \/ CursorsAge \/ GatewayRestart \/ UNCHANGED vars
                 \/ \E c \in Conn : TicketExpires(c)
        BY <2>3, <4>3 DEF StoreLate, CursorsAge, GatewayRestart, TicketExpires
      <4> QED
        BY <1>2, <2>3, <4>1, <4>2, <4>3
        DEF Next, Quiescent, Client, Admit, RefuseFrame, ClientGone
    <3> DEFINE k == [session |-> on[c], number |-> seq[c], audio |-> minted + 1]
    <3>2. accepted' = accepted \cup {k} /\ UNCHANGED <<meta, fwdFailed, lost>>
      BY <3>1 DEF AcceptFrame
    <3>3. k \in Chunk
      BY <1>2, <3>2 DEF TypeInv, TypeOK, HistoryOK
    <3>4. k \notin accepted
      BY <2>3, <3>2
    <3>5. Recording!Take(k)
      BY <3>2, <3>4 DEF Recording!Take
    <3> QED
      BY <3>3, <3>5 DEF Recording!Next
  <2> QED
    BY <2>2, <2>3
<1>3. Spec => [](TypeInv /\ DeliveryInv)
  BY DeliveryCorrect
<1>4. Recording!Spec <=> Recording!Init
        /\ [][Recording!Next]_<<accepted, meta, fwdFailed \cup lost>>
  BY DEF Recording!Spec
<1> QED
  BY <1>1, <1>2, <1>3, <1>4, PTL DEF Spec, ImplementsArchive
=============================================================================
