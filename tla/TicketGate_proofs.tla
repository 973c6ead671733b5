-------------------------- MODULE TicketGate_proofs --------------------------
(* Theorems about TicketGate, for any number of instances, requests and       *)
(* tickets, any expiries and any of the four configurations.                  *)
EXTENDS TicketGate, TLAPS

-----------------------------------------------------------------------------
(* The inductive invariant.                                                *)

\* How far a request is says what it has been told.
Progress ==
    \A r \in Request :
        /\ rpc[r] # "idle" => ask[r] \in Ticket /\ at[r] \in Gateway
        /\ rpc[r] \in {"idle", "valid"} => dedup[r] = "none"
        /\ rpc[r] \in {"marked", "admitted"} =>
              dedup[r] # "none" /\ (shared /\ failClosed => dedup[r] # "Unavailable")
        /\ shared /\ dedup[r] = "Unavailable" => rpc[r] \in {"marked", "admitted", "refused"}
        /\ r \in inTime => rpc[r] = "admitted" /\ dedup[r] \in {"Fresh", "Unavailable"}

\* A key that is being set or was set lives as long as its ticket.
KeyLasts ==
    /\ \A r \in Request : rpc[r] = "valid" => now + ttl[r] >= expiry[ask[r]]
    /\ \A r \in Request : dedup[r] = "Fresh" => keyUntil[ask[r]] >= expiry[ask[r]]

\* Two requests find the key missing only when their ticket is over.
FreshOnce ==
    \A q, r \in Request :
        dedup[q] = "Fresh" /\ dedup[r] = "Fresh" /\ ask[q] = ask[r] /\ q # r
            => now >= expiry[ask[q]] /\ ~(q \in inTime /\ r \in inTime)

\* The process that admitted a ticket keeps its entry while the ticket lives.
EntryLasts ==
    \A r \in inTime \ past : now < expiry[ask[r]] => ask[r] \in consumed[at[r]]

\* Only plausible tickets are on their way into the map.
Plausible ==
    \A r \in Request :
        rpc[r] \in {"valid", "marked"} => expiry[ask[r]] <= now + MaxLifetime

GateInv ==
    /\ TypeOK /\ Progress /\ KeyLasts /\ FreshOnce
    /\ EntryLasts /\ ProcessSingleUse
    /\ Plausible /\ EntriesBounded

LEMMA GateInit == Init => GateInv
<1> SUFFICES ASSUME Init PROVE GateInv
  OBVIOUS
<1>1. TypeOK
  BY GateAssumption DEF Init, TypeOK
<1>2. Progress /\ KeyLasts /\ FreshOnce
  BY DEF Init, Progress, KeyLasts, FreshOnce
<1>3. EntryLasts /\ ProcessSingleUse /\ Plausible /\ EntriesBounded
  BY DEF Init, EntryLasts, ProcessSingleUse, Plausible, EntriesBounded
<1> QED
  BY <1>1, <1>2, <1>3 DEF GateInv

\* Times are numbers, so that they can be compared.
LEMMA Times ==
    ASSUME TypeOK
    PROVE  /\ now \in Nat /\ MaxLifetime \in Nat
           /\ \A t \in Ticket : expiry[t] \in Nat /\ keyUntil[t] \in Nat
           /\ \A r \in Request : ttl[r] \in Nat
<1>1. now \in 0 .. (Horizon + MaxLifetime) /\ MaxLifetime \in Nat /\ Horizon \in Nat
  BY GateAssumption DEF TypeOK
<1>2. now \in Nat
  BY <1>1
<1>3. expiry \in [Ticket -> Expiry] /\ Expiry \subseteq Nat /\ keyUntil \in [Ticket -> Nat]
  BY GateAssumption DEF TypeOK
<1>4. \A t \in Ticket : expiry[t] \in Nat /\ keyUntil[t] \in Nat
  BY <1>3
<1>5. \A r \in Request : ttl[r] \in Nat
  BY DEF TypeOK
<1> QED
  BY <1>1, <1>2, <1>4, <1>5

-----------------------------------------------------------------------------
(* The inductive step, action by action.                                   *)

LEMMA TickKeeps == GateInv /\ Tick => GateInv'
<1> SUFFICES ASSUME GateInv, Tick PROVE GateInv'
  OBVIOUS
<1> USE Times DEF GateInv
<1>1. /\ now' = now + 1
      /\ UNCHANGED <<expiry, shared, failClosed>>
      /\ UNCHANGED <<ask, at, rpc, ttl, dedup, keyUntil, consumed, inTime, past, faults>>
  BY DEF Tick, rigid, requestVars
<1>2. TypeOK'
  BY <1>1, GateAssumption DEF TypeOK, Tick
<1>3. Progress' /\ ProcessSingleUse'
  BY <1>1 DEF Progress, ProcessSingleUse
<1>4. KeyLasts'
  BY <1>1 DEF KeyLasts, Progress
<1>5. FreshOnce'
  BY <1>1 DEF FreshOnce, Progress
<1>6. EntryLasts'
  BY <1>1 DEF EntryLasts, Progress, TypeOK
<1>7. Plausible' /\ EntriesBounded'
  BY <1>1 DEF Plausible, EntriesBounded, Progress, TypeOK
<1> QED
  BY <1>2, <1>3, <1>4, <1>5, <1>6, <1>7

LEMMA PresentKeeps ==
    ASSUME GateInv, NEW r \in Request, NEW t \in Ticket, NEW g \in Gateway, Present(r, t, g)
    PROVE  GateInv'
<1> USE Times DEF GateInv
<1>1. /\ rpc[r] = "idle" /\ dedup[r] = "none" /\ r \notin inTime
      /\ ask' = [ask EXCEPT ![r] = t] /\ at' = [at EXCEPT ![r] = g]
      /\ UNCHANGED <<expiry, shared, failClosed>>
      /\ UNCHANGED <<now, dedup, keyUntil, consumed, inTime, past, faults>>
      /\ \/ rpc' = [rpc EXCEPT ![r] = "refused"] /\ UNCHANGED ttl
         \/ /\ rpc' = [rpc EXCEPT ![r] = "valid"]
            /\ ttl' = [ttl EXCEPT ![r] = KeyTtl(t)]
            /\ Valid(t)
  BY DEF Present, rigid, Progress
<1>2. KeyTtl(t) \in Nat /\ (Valid(t) => now + KeyTtl(t) >= expiry[t])
  BY DEF KeyTtl, Valid, Longer
<1>3. TypeOK'
  BY <1>1, <1>2 DEF TypeOK
<1>4. Progress'
  BY <1>1 DEF Progress, TypeOK
<1>5. KeyLasts'
  BY <1>1, <1>2 DEF KeyLasts, TypeOK
<1>6. FreshOnce'
  BY <1>1 DEF FreshOnce, TypeOK
<1>7. EntryLasts' /\ ProcessSingleUse'
  BY <1>1 DEF EntryLasts, ProcessSingleUse, TypeOK
<1>8. Plausible'
  BY <1>1, GateAssumption DEF Plausible, Valid, PlausibleLifetime, TypeOK
<1>9. EntriesBounded'
  BY <1>1 DEF EntriesBounded
<1> QED
  BY <1>3, <1>4, <1>5, <1>6, <1>7, <1>8, <1>9

\* SET NX gives the key a life as long as the ticket's, and shortens none.
LEMMA SetKeyLasts ==
    ASSUME GateInv, NEW r \in Request, rpc[r] = "valid", SetKey(r) \/ UNCHANGED keyUntil
    PROVE  /\ keyUntil' \in [Ticket -> Nat]
           /\ \A t \in Ticket : keyUntil[t] >= expiry[t] => keyUntil'[t] >= expiry[t]
           /\ SetKey(r) /\ ~KeyLive(ask[r]) => keyUntil'[ask[r]] >= expiry[ask[r]]
<1> USE Times DEF GateInv
<1>1. ask[r] \in Ticket /\ now + ttl[r] >= expiry[ask[r]] /\ now + ttl[r] \in Nat
  BY DEF Progress, KeyLasts
<1>2. keyUntil \in [Ticket -> Nat]
  BY DEF TypeOK
<1>3. CASE keyUntil' = keyUntil
  BY <1>1, <1>2, <1>3 DEF SetKey, KeyLive
<1>4. CASE keyUntil' = [keyUntil EXCEPT ![ask[r]] = now + ttl[r]]
  BY <1>1, <1>2, <1>4
<1> QED
  BY <1>3, <1>4 DEF SetKey

LEMMA SharedAnswersKeeps ==
    ASSUME GateInv, NEW r \in Request, SharedAnswers(r)
    PROVE  GateInv'
<1> USE Times DEF GateInv
<1> DEFINE answer == IF KeyLive(ask[r]) THEN "Replay" ELSE "Fresh"
<1>1. /\ rpc[r] = "valid" /\ dedup[r] = "none" /\ r \notin inTime
      /\ ask[r] \in Ticket /\ at[r] \in Gateway
      /\ SetKey(r)
      /\ dedup' = [dedup EXCEPT ![r] = answer]
      /\ rpc' = [rpc EXCEPT ![r] = "marked"]
      /\ UNCHANGED <<expiry, shared, failClosed>>
      /\ UNCHANGED <<now, ask, at, ttl, consumed, inTime, past, faults>>
  BY DEF SharedAnswers, rigid, Progress
<1>2. /\ keyUntil' \in [Ticket -> Nat]
      /\ \A t \in Ticket : keyUntil[t] >= expiry[t] => keyUntil'[t] >= expiry[t]
      /\ answer = "Fresh" => keyUntil'[ask[r]] >= expiry[ask[r]]
  BY <1>1, SetKeyLasts
<1>3. answer \in {"Fresh", "Replay"} /\ (answer = "Fresh" => now >= keyUntil[ask[r]])
  BY <1>1 DEF KeyLive
<1> HIDE DEF answer
<1>4. TypeOK'
  BY <1>1, <1>2, <1>3 DEF TypeOK
<1>5. Progress'
  BY <1>1, <1>3 DEF Progress, TypeOK
<1>6. KeyLasts'
  BY <1>1, <1>2, <1>3 DEF KeyLasts, Progress, TypeOK
<1>7. FreshOnce'
  <2> SUFFICES ASSUME NEW p \in Request, NEW q \in Request,
                      dedup'[p] = "Fresh", dedup'[q] = "Fresh", ask[p] = ask[q], p # q
               PROVE  now >= expiry[ask[p]] /\ ~(p \in inTime /\ q \in inTime)
    BY <1>1 DEF FreshOnce
  <2>1. CASE p # r /\ q # r
    BY <1>1, <2>1 DEF FreshOnce, TypeOK
  <2>2. CASE p = r \/ q = r
    <3>1. PICK o \in {p, q} : o # r /\ dedup[o] = "Fresh"
      BY <1>1, <2>2 DEF TypeOK
    <3>2. answer = "Fresh"
      BY <1>1, <2>2 DEF TypeOK
    <3>3. keyUntil[ask[r]] >= expiry[ask[r]]
      BY <2>2, <3>1 DEF KeyLasts
    <3>4. now >= expiry[ask[r]]
      BY <1>1, <1>3, <3>2, <3>3
    <3> QED
      BY <1>1, <2>2, <3>4
  <2> QED
    BY <2>1, <2>2
<1>8. EntryLasts' /\ ProcessSingleUse'
  BY <1>1 DEF EntryLasts, ProcessSingleUse
<1>9. Plausible' /\ EntriesBounded'
  BY <1>1 DEF Plausible, EntriesBounded, TypeOK
<1> QED
  BY <1>4, <1>5, <1>6, <1>7, <1>8, <1>9

LEMMA SharedUnavailableKeeps ==
    ASSUME GateInv, NEW r \in Request, SharedUnavailable(r)
    PROVE  GateInv'
<1> USE Times DEF GateInv
<1>1. /\ rpc[r] = "valid" /\ dedup[r] = "none" /\ r \notin inTime
      /\ ask[r] \in Ticket /\ at[r] \in Gateway
      /\ dedup' = [dedup EXCEPT ![r] = "Unavailable"]
      /\ rpc' = [rpc EXCEPT ![r] = WithoutAnswer(r)]
      /\ UNCHANGED <<expiry, shared, failClosed>>
      /\ UNCHANGED <<now, ask, at, ttl, consumed, inTime, past>>
      /\ faults' \in 0 .. MaxFaults
  BY GateAssumption DEF SharedUnavailable, rigid, Progress, TypeOK
<1>2. /\ keyUntil' \in [Ticket -> Nat]
      /\ \A t \in Ticket : keyUntil[t] >= expiry[t] => keyUntil'[t] >= expiry[t]
  BY <1>1, SetKeyLasts DEF SharedUnavailable
<1>3. /\ WithoutAnswer(r) \in {"marked", "refused"}
      /\ shared /\ failClosed => WithoutAnswer(r) = "refused"
  BY DEF WithoutAnswer
<1>4. TypeOK'
  BY <1>1, <1>2, <1>3 DEF TypeOK
<1>5. Progress'
  BY <1>1, <1>3 DEF Progress, TypeOK
<1>6. KeyLasts'
  BY <1>1, <1>2, <1>3 DEF KeyLasts, Progress, TypeOK
<1>7. FreshOnce'
  BY <1>1 DEF FreshOnce, TypeOK
<1>8. EntryLasts' /\ ProcessSingleUse'
  BY <1>1 DEF EntryLasts, ProcessSingleUse
<1>9. Plausible' /\ EntriesBounded'
  BY <1>1, <1>3 DEF Plausible, EntriesBounded, TypeOK
<1> QED
  BY <1>4, <1>5, <1>6, <1>7, <1>8, <1>9

LEMMA MarkMemoryKeeps ==
    ASSUME GateInv, NEW r \in Request, MarkMemory(r)
    PROVE  GateInv'
<1> USE Times DEF GateInv
<1>1. /\ rpc[r] = "marked" /\ dedup[r] # "none" /\ r \notin inTime
      /\ ask[r] \in Ticket /\ at[r] \in Gateway
      /\ consumed' = [consumed EXCEPT ![at[r]] = @ \cup {ask[r]}]
      /\ UNCHANGED <<expiry, shared, failClosed>>
      /\ UNCHANGED <<now, ask, at, ttl, dedup, keyUntil, past, faults>>
      /\ \/ Known(r) /\ rpc' = [rpc EXCEPT ![r] = "refused"] /\ UNCHANGED inTime
         \/ /\ ~Known(r) /\ rpc' = [rpc EXCEPT ![r] = "admitted"]
            /\ \/ UNCHANGED inTime
               \/ now < expiry[ask[r]] /\ inTime' = inTime \cup {r}
  BY DEF MarkMemory, rigid, Progress
<1>2. ask[r] \in consumed'[at[r]] /\ \A g \in Gateway : consumed[g] \subseteq consumed'[g]
  BY <1>1 DEF TypeOK
<1>3. TypeOK'
  BY <1>1 DEF TypeOK
<1>4. Progress'
  BY <1>1 DEF Progress, TypeOK, Known
<1>5. KeyLasts'
  BY <1>1 DEF KeyLasts, TypeOK
<1>6. FreshOnce'
  BY <1>1 DEF FreshOnce, TypeOK
<1>7. EntryLasts'
  BY <1>1, <1>2 DEF EntryLasts, Progress
<1>8. ProcessSingleUse'
  BY <1>1 DEF ProcessSingleUse, EntryLasts, Known
<1>9. Plausible' /\ EntriesBounded'
  BY <1>1 DEF Plausible, EntriesBounded, TypeOK
<1> QED
  BY <1>3, <1>4, <1>5, <1>6, <1>7, <1>8, <1>9

LEMMA EvictKeeps ==
    ASSUME GateInv, NEW g \in Gateway, Evict(g)
    PROVE  GateInv'
<1> USE Times DEF GateInv
<1>1. /\ consumed' = [consumed EXCEPT ![g] = {t \in consumed[g] : expiry[t] > now}]
      /\ UNCHANGED <<expiry, shared, failClosed>>
      /\ UNCHANGED <<now, ask, at, rpc, ttl, dedup, keyUntil, inTime, past, faults>>
  BY DEF Evict, Kept, rigid, requestVars
<1>2. TypeOK'
  BY <1>1 DEF TypeOK
<1>3. Progress' /\ KeyLasts' /\ FreshOnce' /\ ProcessSingleUse' /\ Plausible'
  BY <1>1 DEF Progress, KeyLasts, FreshOnce, ProcessSingleUse, Plausible
<1>4. EntryLasts'
  BY <1>1 DEF EntryLasts, Progress, TypeOK
<1>5. EntriesBounded'
  BY <1>1 DEF EntriesBounded, TypeOK
<1> QED
  BY <1>2, <1>3, <1>4, <1>5

LEMMA RestartKeeps ==
    ASSUME GateInv, NEW g \in Gateway, Restart(g)
    PROVE  GateInv'
<1> USE Times DEF GateInv
<1>1. /\ consumed' = [consumed EXCEPT ![g] = {}]
      /\ rpc' = [r \in Request |->
                    IF at[r] = g /\ rpc[r] \in {"valid", "marked"} THEN "refused" ELSE rpc[r]]
      /\ past' = past \cup {r \in Request : at[r] = g /\ rpc[r] = "admitted"}
      /\ UNCHANGED <<expiry, shared, failClosed>>
      /\ UNCHANGED <<now, ask, at, ttl, dedup, keyUntil, inTime>>
      /\ faults' \in 0 .. MaxFaults
  BY GateAssumption DEF Restart, rigid, TypeOK
<1>2. TypeOK'
  BY <1>1 DEF TypeOK
<1>3. Progress'
  BY <1>1 DEF Progress
<1>4. KeyLasts' /\ FreshOnce'
  BY <1>1 DEF KeyLasts, FreshOnce
<1>5. EntryLasts'
  BY <1>1 DEF EntryLasts, Progress, TypeOK
<1>6. ProcessSingleUse'
  BY <1>1 DEF ProcessSingleUse
<1>7. Plausible' /\ EntriesBounded'
  BY <1>1 DEF Plausible, EntriesBounded, TypeOK
<1> QED
  BY <1>2, <1>3, <1>4, <1>5, <1>6, <1>7

LEMMA GateStep == GateInv /\ [Next]_vars => GateInv'
<1> SUFFICES ASSUME GateInv, [Next]_vars PROVE GateInv'
  OBVIOUS
<1>1. CASE UNCHANGED vars
  BY <1>1 DEF vars, rigid, requestVars, GateInv, TypeOK, Progress, KeyLasts, FreshOnce, EntryLasts,
              ProcessSingleUse, Plausible, EntriesBounded
<1>2. CASE Next
  BY <1>1, <1>2, TickKeeps, PresentKeeps, SharedAnswersKeeps, SharedUnavailableKeeps,
     MarkMemoryKeeps, EvictKeeps, RestartKeeps DEF Next, Quiescent
<1> QED
  BY <1>1, <1>2

LEMMA GateCorrect == Spec => []GateInv
BY GateInit, GateStep, PTL DEF Spec

-----------------------------------------------------------------------------
(* The theorems.                                                           *)

\* Every variable keeps its type.
THEOREM GateTypeCorrect == Spec => []TypeOK
<1>1. GateInv => TypeOK
  BY DEF GateInv
<1> QED
  BY <1>1, GateCorrect, PTL

\* With the shared store and failing closed, a live ticket admits one connection,
\* across instances, restarts and outages of Redis.
THEOREM SharedSingleUseHolds == Spec => []SharedSingleUse
<1>1. GateInv => SharedSingleUse
  <2> SUFFICES ASSUME GateInv, shared, failClosed,
                      NEW q \in inTime, NEW r \in inTime, ask[q] = ask[r], q # r
               PROVE  FALSE
    BY DEF SharedSingleUse
  <2>1. q \in Request /\ r \in Request
    BY DEF GateInv, TypeOK
  <2>2. dedup[q] = "Fresh" /\ dedup[r] = "Fresh"
    BY <2>1 DEF GateInv, Progress
  <2> QED
    BY <2>1, <2>2 DEF GateInv, FreshOnce
<1> QED
  BY <1>1, GateCorrect, PTL

\* Failing open, only a request without an answer from Redis can be a second one.
THEOREM OutagesDegrade == Spec => []OnlyOutagesDegrade
<1>1. GateInv => OnlyOutagesDegrade
  <2> SUFFICES ASSUME GateInv, NEW q \in inTime, NEW r \in inTime, ask[q] = ask[r], q # r,
                      "Unavailable" \notin {dedup[q], dedup[r]}
               PROVE  FALSE
    BY DEF OnlyOutagesDegrade
  <2>1. q \in Request /\ r \in Request
    BY DEF GateInv, TypeOK
  <2>2. dedup[q] = "Fresh" /\ dedup[r] = "Fresh"
    BY <2>1 DEF GateInv, Progress
  <2> QED
    BY <2>1, <2>2 DEF GateInv, FreshOnce
<1> QED
  BY <1>1, GateCorrect, PTL

\* One process admits a live ticket once, with or without Redis.
THEOREM ProcessSingleUseHolds == Spec => []ProcessSingleUse
<1>1. GateInv => ProcessSingleUse
  BY DEF GateInv
<1> QED
  BY <1>1, GateCorrect, PTL

\* No entry of the map is further than MaxLifetime from its expiry.
THEOREM EntriesBoundedHolds == Spec => []EntriesBounded
<1>1. GateInv => EntriesBounded
  BY DEF GateInv
<1> QED
  BY <1>1, GateCorrect, PTL
=============================================================================
