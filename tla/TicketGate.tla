----------------------------- MODULE TicketGate -----------------------------
(***************************************************************************)
(* Admission to the realtime gateway.                                      *)
(*                                                                         *)
(* platform-api mints a signed ticket that names a session and an expiry.  *)
(* A websocket request presents one; check_ticket validates it, marks it   *)
(* in a store that all gateway instances share (Redis, when configured)    *)
(* and then in the instance's own map, and admits the request when neither *)
(* had it.  Three tasks meet here: the requests, which wait for Redis and  *)
(* for the map's lock between their steps, the cleanup that evicts expired *)
(* entries, and the clock.                                                 *)
(*                                                                         *)
(* Tickets are of one tenant and presented for the session they name;      *)
(* clocks of gateways and Redis agree.                                     *)
(***************************************************************************)
EXTENDS Naturals, FiniteSets

CONSTANTS
    Gateway,        \* instances
    Request,        \* websocket requests; each is made once
    Ticket,
    NoTicket, NoGateway,
    Expiry,         \* expiries an issuer may put on a ticket, unix seconds
    MaxLifetime,    \* MAX_TICKET_LIFETIME_SECONDS (3600)
    Horizon,        \* bound of the model: requests are made before this time
    MaxFaults       \* bound of the model: Redis calls that fail, restarts

ASSUME NoneAssumption == NoTicket \notin Ticket /\ NoGateway \notin Gateway
ASSUME GateAssumption ==
    /\ Expiry \subseteq Nat /\ MaxLifetime \in Nat
    /\ Horizon \in Nat /\ MaxFaults \in Nat

VARIABLES
    now,            \* unix_now_seconds
    expiry,         \* the expiry signed into each ticket
    shared,         \* the instances' configuration: REDIS_URL is set
    failClosed,     \* and REALTIME_TICKET_FAIL_CLOSED
    ask, at,        \* the ticket a request presents, and the instance it reached
    rpc,            \* where check_ticket is for the request
    ttl,            \* the key lifetime it computed when it validated
    dedup,          \* what the shared store told it
    keyUntil,       \* Redis: when the ticket's key expires; 0 without a key
    consumed,       \* per instance, the tickets in consumed_tickets
    inTime,         \* history: requests admitted before their ticket expired
    past,           \* history: requests admitted by a process that is gone
    faults

requestVars == <<ask, at, rpc, ttl, dedup>>
rigid == <<expiry, shared, failClosed>>       \* what no step changes
vars == <<now, rigid, requestVars, keyUntil, consumed, inTime, past, faults>>

Longer(a, b) == IF a > b THEN a ELSE b

Init ==
    /\ now = 0
    /\ expiry \in [Ticket -> Expiry]
    /\ shared \in BOOLEAN /\ failClosed \in BOOLEAN
    /\ ask = [r \in Request |-> NoTicket]
    /\ at = [r \in Request |-> NoGateway]
    /\ rpc = [r \in Request |-> "idle"]
    /\ ttl = [r \in Request |-> 0]
    /\ dedup = [r \in Request |-> "none"]
    /\ keyUntil = [t \in Ticket |-> 0]
    /\ consumed = [g \in Gateway |-> {}]
    /\ inTime = {}
    /\ past = {}
    /\ faults = 0

-----------------------------------------------------------------------------
\* A second passes.
Tick ==
    /\ now < Horizon + MaxLifetime
    /\ now' = now + 1
    /\ UNCHANGED <<rigid, requestVars, keyUntil, consumed, inTime, past, faults>>

\* check_ticket refuses a lifetime that no healthy issuer mints (G2).
AnyLifetime(t) == TRUE
PlausibleLifetime(t) == expiry[t] - now <= MaxLifetime

\* validate_realtime_ticket and the checks after it.
Valid(t) == expiry[t] > now /\ PlausibleLifetime(t)

\* The lifetime of the key, `saturating_sub(now).max(1)`.
KeyTtlFlat(t)  == 1
KeyTtlEarly(t) == expiry[t] - now - 2
KeyTtl(t) == Longer(expiry[t] - now, 1)

\* A request reaches instance g and its ticket is validated; the time to live of
\* the key is computed before Redis is asked.
Present(r, t, g) ==
    /\ rpc[r] = "idle" /\ now < Horizon
    /\ ask' = [ask EXCEPT ![r] = t]
    /\ at' = [at EXCEPT ![r] = g]
    /\ IF Valid(t)
       THEN /\ rpc' = [rpc EXCEPT ![r] = "valid"]
            /\ ttl' = [ttl EXCEPT ![r] = KeyTtl(t)]
       ELSE rpc' = [rpc EXCEPT ![r] = "refused"] /\ UNCHANGED ttl
    /\ UNCHANGED <<now, rigid, dedup, keyUntil, consumed, inTime, past, faults>>

KeyLive(t) == now < keyUntil[t]

\* Redis executes SET NX EX: it sets the key unless there is one.
SetKey(r) ==
    keyUntil' = IF KeyLive(ask[r]) THEN keyUntil
                ELSE [keyUntil EXCEPT ![ask[r]] = now + ttl[r]]

\* The answer of SET NX: OK when the key is new, Nil when it was there.
SharedAnswers(r) ==
    /\ rpc[r] = "valid" /\ shared
    /\ SetKey(r)
    /\ dedup' = [dedup EXCEPT ![r] = IF KeyLive(ask[r]) THEN "Replay" ELSE "Fresh"]
    /\ rpc' = [rpc EXCEPT ![r] = "marked"]
    /\ UNCHANGED <<now, rigid, ask, at, ttl, consumed, inTime, past, faults>>

\* What check_ticket does without an answer: refuse (503) when the store is
\* configured and the gateway fails closed.
GoesOn(r) == "marked"
WithoutAnswer(r) == IF shared /\ failClosed THEN "refused" ELSE "marked"

\* No store is configured; or it does not answer, whether or not it did the SET.
SharedUnavailable(r) ==
    /\ rpc[r] = "valid"
    /\ \/ ~shared /\ UNCHANGED <<keyUntil, faults>>
       \/ /\ shared /\ faults < MaxFaults /\ faults' = faults + 1
          /\ UNCHANGED keyUntil \/ SetKey(r)
    /\ dedup' = [dedup EXCEPT ![r] = "Unavailable"]
    /\ rpc' = [rpc EXCEPT ![r] = WithoutAnswer(r)]
    /\ UNCHANGED <<now, rigid, ask, at, ttl, consumed, inTime, past>>

\* The instance's own map, under its write lock; the request is admitted when
\* neither store had the ticket.
Known(r) == ask[r] \in consumed[at[r]] \/ dedup[r] = "Replay"

MarkMemory(r) ==
    /\ rpc[r] = "marked"
    /\ consumed' = [consumed EXCEPT ![at[r]] = @ \cup {ask[r]}]
    /\ rpc' = [rpc EXCEPT ![r] = IF Known(r) THEN "refused" ELSE "admitted"]
    /\ inTime' = IF ~Known(r) /\ now < expiry[ask[r]] THEN inTime \cup {r} ELSE inTime
    /\ UNCHANGED <<now, rigid, ask, at, ttl, dedup, keyUntil, past, faults>>

\* evict_expired keeps the entries whose own expiry has not passed.
KeptNone(g) == {}
Kept(g) == {t \in consumed[g] : expiry[t] > now}

\* The cleanup task, every 60 seconds.
Evict(g) ==
    /\ Kept(g) # consumed[g]
    /\ consumed' = [consumed EXCEPT ![g] = Kept(g)]
    /\ UNCHANGED <<now, rigid, requestVars, keyUntil, inTime, past, faults>>

\* An instance restarts: its map and its requests are gone.
Restart(g) ==
    /\ faults < MaxFaults /\ faults' = faults + 1
    /\ consumed' = [consumed EXCEPT ![g] = {}]
    /\ rpc' = [r \in Request |->
                  IF at[r] = g /\ rpc[r] \in {"valid", "marked"} THEN "refused" ELSE rpc[r]]
    /\ past' = past \cup {r \in Request : at[r] = g /\ rpc[r] = "admitted"}
    /\ UNCHANGED <<now, rigid, ask, at, ttl, dedup, keyUntil, inTime>>

\* Every request was made and answered, and the clock is at its bound.
Quiescent ==
    /\ now = Horizon + MaxLifetime
    /\ \A r \in Request : rpc[r] \notin {"valid", "marked"}
    /\ UNCHANGED vars

Next ==
    \/ Tick
    \/ \E r \in Request :
          \/ \E t \in Ticket, g \in Gateway : Present(r, t, g)
          \/ SharedAnswers(r) \/ SharedUnavailable(r) \/ MarkMemory(r)
    \/ \E g \in Gateway : Evict(g) \/ Restart(g)
    \/ Quiescent

Spec == Init /\ [][Next]_vars

\* Time passes and the cleanup task is scheduled.
FairSpec == Spec /\ WF_vars(Tick) /\ \A g \in Gateway : WF_vars(Evict(g))

-----------------------------------------------------------------------------
(* What is checked.                                                        *)

\* Every variable keeps its type.
TypeOK ==
    /\ now \in 0 .. (Horizon + MaxLifetime)
    /\ expiry \in [Ticket -> Expiry]
    /\ shared \in BOOLEAN /\ failClosed \in BOOLEAN
    /\ ask \in [Request -> Ticket \cup {NoTicket}]
    /\ at \in [Request -> Gateway \cup {NoGateway}]
    /\ rpc \in [Request -> {"idle", "valid", "marked", "admitted", "refused"}]
    /\ ttl \in [Request -> Nat]
    /\ dedup \in [Request -> {"none", "Fresh", "Replay", "Unavailable"}]
    /\ keyUntil \in [Ticket -> Nat]
    /\ consumed \in [Gateway -> SUBSET Ticket]
    /\ inTime \subseteq Request /\ past \subseteq Request
    /\ faults \in 0 .. MaxFaults

\* With the shared store and failing closed, a ticket admits one connection in all
\* its life, whichever instances see it and however often they restart or lose
\* Redis.  A request that validated the ticket and was then delayed past its expiry
\* is outside of this: it finds the key and the entry gone (check_ticket).
SharedSingleUse ==
    shared /\ failClosed =>
        \A q, r \in inTime : ask[q] = ask[r] => q = r

\* With the shared store and failing open, only a request that Redis did not answer
\* can be a second one (redis_mark_ticket, "fails degraded").
OnlyOutagesDegrade ==
    shared =>
        \A q, r \in inTime :
            ask[q] = ask[r] /\ q # r => "Unavailable" \in {dedup[q], dedup[r]}

\* Whatever happens to Redis, one process of the gateway admits a ticket once while
\* the ticket lives: the eviction does not forget a ticket that is still valid
\* (evict_expired, "cleanup_evicts_only_expired_consumed_tickets").
ProcessSingleUse ==
    \A q, r \in inTime \ past : ask[q] = ask[r] /\ at[q] = at[r] => q = r

\* A marked ticket leaves the map within MaxLifetime: no entry is further from its
\* expiry than that (MAX_TICKET_LIFETIME_SECONDS).
EntriesBounded ==
    \A g \in Gateway : \A t \in consumed[g] : expiry[t] <= now + MaxLifetime

\* So the map forgets every ticket at last.
EntriesLeave ==
    \A g \in Gateway, t \in Ticket : (t \in consumed[g]) ~> (t \notin consumed[g])
=============================================================================
