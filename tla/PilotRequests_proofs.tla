------------------------ MODULE PilotRequests_proofs ------------------------
(* Theorems about PilotRequests, for any requests in any company, any lives   *)
(* of invitations and sessions, any rate limit and any horizon.               *)
EXTENDS PilotRequests, FiniteSetTheorems, TLAPS

-----------------------------------------------------------------------------
(* The pure parts.                                                         *)

LEMMA OfClamp ==
    ASSUME NEW n \in Int, NEW low \in Int, NEW high \in Int, low <= high
    PROVE  Clamp(n, low, high) \in low .. high
BY DEF Clamp

LEMMA Products ==
    ASSUME NEW m \in Nat, NEW n \in Nat, m >= 1, n >= MinEasiness
    PROVE  m * n \in Nat /\ m * n >= MinEasiness
<1>1. m * n \in Nat
  OBVIOUS
<1>2. m * n = (m - 1) * n + n
  OBVIOUS
<1>3. (m - 1) * n >= 0
  BY DEF MinEasiness
<1> QED
  BY <1>1, <1>2, <1>3 DEF MinEasiness

\* A review makes a schedule of a schedule, whatever quality it reports.
LEMMA OfUpdate ==
    ASSUME NEW state \in Schedule, NEW q \in 0 .. 5
    PROVE  sm2Update(state, q) \in Schedule
<1>1. /\ state.easinessFactor \in Nat /\ state.easinessFactor >= MinEasiness
      /\ state.intervalDays \in 1 .. MaxInterval /\ state.repetitions \in Nat
  BY DEF Schedule
<1>2. CASE q < 3
  <2>1. sm2Update(state, q) = [state EXCEPT !.intervalDays = 1, !.repetitions = 0]
    BY <1>2 DEF sm2Update
  <2>2. 1 \in 1 .. MaxInterval /\ 0 \in Nat
    BY DEF MaxInterval
  <2>3. state \in [easinessFactor : {n \in Nat : n >= MinEasiness},
                  intervalDays : 1 .. MaxInterval, repetitions : Nat]
    BY DEF Schedule
  <2>4. [state EXCEPT !.intervalDays = 1, !.repetitions = 0]
          \in [easinessFactor : {n \in Nat : n >= MinEasiness},
              intervalDays : 1 .. MaxInterval, repetitions : Nat]
    BY <2>2, <2>3
  <2> QED
    BY <2>1, <2>4 DEF Schedule
<1>3. CASE ~(q < 3)
  <2> DEFINE repetitions == state.repetitions + 1
             easier == state.easinessFactor + 10 - (5 - q) * (8 + (5 - q) * 2)
             days == (state.intervalDays * state.easinessFactor + 50) \div 100
             interval == CASE repetitions = 1 -> 1 [] repetitions = 2 -> 6 [] OTHER -> Capped(days)
             factor == IF easier < MinEasiness THEN MinEasiness ELSE easier
  <2>1. repetitions \in Nat
    BY <1>1
  <2>2. factor \in Nat /\ factor >= MinEasiness
    <3>1. q \in {3, 4, 5}
      BY <1>3
    <3>2. easier \in Int
      BY <1>1, <3>1
    <3> HIDE DEF easier
    <3> QED
      BY <3>2 DEF MinEasiness
  <2>3. days \in Int /\ days >= 1
    <3> DEFINE p == state.intervalDays * state.easinessFactor
    <3>1. p \in Nat /\ p >= MinEasiness
      BY <1>1, Products
    <3> HIDE DEF p
    <3>2. (p + 50) \div 100 \in Int /\ (p + 50) \div 100 >= 1
      BY <3>1 DEF MinEasiness
    <3> QED
      BY <3>2 DEF p
  <2>4. interval \in 1 .. MaxInterval
    <3> HIDE DEF days, repetitions
    <3>1. Capped(days) \in 1 .. MaxInterval
      BY <2>3 DEF Capped, MaxInterval
    <3>2. repetitions = 1 => interval = 1
      OBVIOUS
    <3>3. repetitions = 2 => interval = 6
      OBVIOUS
    <3>4. repetitions # 1 /\ repetitions # 2 => interval = Capped(days)
      OBVIOUS
    <3> HIDE DEF interval
    <3> QED
      BY <3>1, <3>2, <3>3, <3>4 DEF MaxInterval
  <2>5. sm2Update(state, q) = [repetitions |-> repetitions, intervalDays |-> interval,
                               easinessFactor |-> factor]
    BY <1>3 DEF sm2Update
  <2> HIDE DEF repetitions, interval, factor
  <2> QED
    BY <2>1, <2>2, <2>4, <2>5 DEF Schedule
<1> QED
  BY <1>2, <1>3

-----------------------------------------------------------------------------
(* Types.                                                                  *)

Invitations == [expires : Time, consumed : BOOLEAN, lock : Request \cup {None}]
Session == [created : Time, idle : Nat, revoked : BOOLEAN]
Row == [at : Places, cookie : Request \cup {None}, seenAt : Nat, granted : Time,
        refused : Time, quality : 0..5, saw : Schedule \cup {None},
        before : SUBSET Request]

RateType == now \in Nat /\ bucket \in [tokens : 0..Burst, updatedAt : 0..now]
AccessType == invitation \in Invitations /\ session \in [Request -> Session]
ProgressType ==
    /\ progress \in Schedule /\ advisory \in Request \cup {None}
    /\ reviewed \in [schedules : Seq(Schedule), qualities : Seq(0..5)]

\* A review that is about to write has read a schedule.
HasRead(row) == row.at = "read" => row.saw \in Schedule
RequestType == req \in [Request -> Row] /\ \A r \in Request : HasRead(req[r])

TypeInv == RateType /\ AccessType /\ ProgressType /\ RequestType

LEMMA TypeImplies == TypeInv => TypeOK
BY DEF TypeInv, TypeOK, RateType, AccessType, ProgressType, RequestType, Invitations, Session, Row

LEMMA TypeInit == Init => TypeInv
<1> SUFFICES ASSUME Init PROVE TypeInv
  OBVIOUS
<1>1. RateType
  BY RateAssumption DEF Init, RateType
<1>2. AccessType
  BY DEF Init, AccessType, Invitations, Session, NoInvitation, NoSession, Time
<1>3. ProgressType
  <2>1. progress \in Schedule
    BY ReviewAssumption DEF Init
  <2>2. <<progress>> \in Seq(Schedule) /\ <<>> \in Seq(0..5)
    BY <2>1
  <2> QED
    BY <2>1, <2>2 DEF Init, ProgressType
<1>4. NoRequest \in Row /\ [NoRequest EXCEPT !.at = "absent"] \in Row
      /\ HasRead(NoRequest) /\ HasRead([NoRequest EXCEPT !.at = "absent"])
  BY DEF NoRequest, Row, Places, Time, HasRead
<1>5. RequestType
  BY <1>4 DEF Init, RequestType
<1> QED
  BY <1>1, <1>2, <1>3, <1>5 DEF TypeInv

\* A request moves to another place.
LEMMA OfPlace ==
    ASSUME NEW row \in Row, NEW place \in Places
    PROVE  /\ [row EXCEPT !.at = place] \in Row
           /\ [row EXCEPT !.at = place].at = place
BY DEF Row

LEMMA OfCleared ==
    ASSUME NEW row \in Row, NEW place \in Places
    PROVE  /\ [row EXCEPT !.at = place, !.quality = 0, !.saw = None] \in Row
           /\ [row EXCEPT !.at = place, !.quality = 0, !.saw = None].at = place
<1>1. [row EXCEPT !.quality = 0] \in Row
  BY DEF Row
<1>2. \A some \in Row : [some EXCEPT !.saw = None] \in Row
  BY DEF Row
<1>3. \A some \in Row : [some EXCEPT !.at = place] \in Row
  BY DEF Row
<1>4. [row EXCEPT !.at = place, !.quality = 0, !.saw = None]
        = [[[row EXCEPT !.at = place] EXCEPT !.quality = 0] EXCEPT !.saw = None]
  OBVIOUS
<1>5. \A some \in Row : [some EXCEPT !.quality = 0] \in Row
  BY DEF Row
<1>6. [row EXCEPT !.at = place, !.quality = 0, !.saw = None].at = place
  BY DEF Row
<1> QED
  BY <1>2, <1>3, <1>4, <1>5, <1>6

\* A step that changes one request, keeping its type.
LEMMA OneRequest ==
    ASSUME RequestType, NEW r \in Request, NEW row \in Row, HasRead(row),
           req' = [req EXCEPT ![r] = row]
    PROVE  RequestType'
BY DEF RequestType

LEMMA OneGoes ==
    ASSUME RequestType, NEW r \in Request, NEW place \in Places, place # "read",
           req' = Goes(r, place)
    PROVE  RequestType'
<1> DEFINE row == [req[r] EXCEPT !.at = place]
<1>1. req[r] \in Row
  BY DEF RequestType
<1>2. row \in Row /\ row.at = place
  BY <1>1, OfPlace
<1>3. req' = [req EXCEPT ![r] = row]
  BY DEF Goes
<1> HIDE DEF row
<1> QED
  BY <1>2, <1>3, OneRequest DEF HasRead

LEMMA RatesType ==
    ASSUME TypeInv, NEW r \in Request, take(r)
    PROVE  TypeInv'
<1> DEFINE n == bucket.tokens + (now - bucket.updatedAt) \div Replenish
           tokens == Clamp(n, 0, Burst)
<1>0. /\ RateType /\ RequestType /\ req[r] \in Row /\ now \in Nat
      /\ UNCHANGED <<now, invitation, session, progress, advisory, reviewed>>
  BY DEF TypeInv, RateType, RequestType, take
<1>1. n \in Int
  <2>1. bucket.tokens \in Int /\ now - bucket.updatedAt \in Int /\ Replenish \in Nat \ {0}
    BY <1>0, RateAssumption DEF RateType
  <2>2. (now - bucket.updatedAt) \div Replenish \in Int
    BY <2>1
  <2> QED
    BY <2>1, <2>2
<1>2. tokens \in 0 .. Burst
  <2> HIDE DEF n
  <2> QED
    BY <1>1, OfClamp, RateAssumption
<1>3. \/ /\ tokens < 1
         /\ bucket' = [tokens |-> tokens, updatedAt |-> bucket.updatedAt]
         /\ req' = [req EXCEPT ![r].at = "throttled", ![r].refused = now]
      \/ /\ tokens >= 1
         /\ bucket' = [tokens |-> tokens - 1, updatedAt |-> now]
         /\ req' = [req EXCEPT ![r].at = "admitted", ![r].granted = now, ![r].refused = None]
  BY DEF take, UpdatedAtRefusal
<1> HIDE DEF tokens, n
<1>4. RateType'
  BY <1>0, <1>2, <1>3, RateAssumption DEF RateType
<1>5. RequestType'
  <2> DEFINE refused == [req[r] EXCEPT !.at = "throttled", !.refused = now]
             granted == [req[r] EXCEPT !.at = "admitted", !.granted = now, !.refused = None]
  <2>1. refused \in Row /\ granted \in Row /\ HasRead(refused) /\ HasRead(granted)
    BY <1>0 DEF Row, Places, Time, HasRead
  <2>2. req' = [req EXCEPT ![r] = refused] \/ req' = [req EXCEPT ![r] = granted]
    BY <1>0, <1>3 DEF RequestType
  <2> HIDE DEF refused, granted
  <2> QED
    BY <1>0, <2>1, <2>2, OneRequest
<1> QED
  BY <1>0, <1>4, <1>5 DEF TypeInv, AccessType, ProgressType

LEMMA BootstrapType ==
    ASSUME TypeInv, NEW r \in Request, bootstrap(r)
    PROVE  TypeInv'
<1>0. RequestType /\ AccessType /\ now \in Nat /\ Idle \in Nat
  BY LifeAssumption DEF TypeInv, RateType
<1>1. CASE ConsumeInvitation(r)
  <2>1. req' = Goes(r, "denied") \/ req' = Goes(r, "consumed")
    BY <1>1 DEF ConsumeInvitation
  <2>2. RequestType'
    BY <1>0, <2>1, OneGoes DEF Places
  <2>3. AccessType'
    BY <1>0, <1>1 DEF AccessType, ConsumeInvitation, Invitations
  <2> QED
    BY <1>1, <2>2, <2>3 DEF ConsumeInvitation, TypeInv, RateType, ProgressType
<1>2. CASE OpenSession(r)
  <2>1. RequestType'
    BY <1>0, <1>2, OneGoes DEF Places, OpenSession
  <2>2. invitation' \in Invitations
    BY <1>0, <1>2 DEF AccessType, OpenSession, Invitations
  <2>3. session' \in [Request -> Session]
    BY <1>0, <1>2 DEF AccessType, OpenSession, Session, Time
  <2> QED
    BY <1>2, <2>1, <2>2, <2>3 DEF OpenSession, TypeInv, RateType, ProgressType, AccessType
<1> QED
  BY <1>1, <1>2 DEF bootstrap

\* The steps of a logout, and of the lookup of a session, one by one.
LogoutLooks(r) ==
    /\ At(r, "logout", "admitted")
    /\ \E s \in Request : req' = IF Live(s) THEN [Goes(r, "found") EXCEPT ![r].cookie = s]
                                 ELSE Goes(r, "ok")
    /\ UNCHANGED <<now, bucket, invitation, session, progress, advisory, reviewed>>
LogoutRevokes(r) ==
    /\ At(r, "logout", "found")
    /\ session' = [session EXCEPT ![req[r].cookie].revoked = TRUE]
    /\ req' = Goes(r, "ok")
    /\ UNCHANGED <<now, bucket, invitation, progress, advisory, reviewed>>
Resolves(r) ==
    /\ At(r, "review", "admitted")
    /\ \E s \in Request :
         req' = IF Authentic(s)
                THEN [req EXCEPT ![r] = [@ EXCEPT !.at = "known", !.cookie = s, !.seenAt = now,
                                                  !.before = SignedOut]]
                ELSE Goes(r, "denied")
    /\ UNCHANGED <<now, bucket, invitation, session, progress, advisory, reviewed>>
Rolls(r) ==
    /\ At(r, "review", "known")
    /\ session' = [session EXCEPT ![req[r].cookie].idle = req[r].seenAt + Idle]
    /\ req' = Goes(r, "signedIn")
    /\ UNCHANGED <<now, bucket, invitation, progress, advisory, reviewed>>

LEMMA SessionSteps ==
    ASSUME TypeInv, NEW r \in Request
    PROVE  /\ logout(r) => LogoutLooks(r) \/ LogoutRevokes(r)
           /\ resolvePilotSession(r) => Resolves(r) \/ Rolls(r)
<1>1. ASSUME logout(r) PROVE LogoutLooks(r) \/ LogoutRevokes(r)
  <2>1. \A c : [session EXCEPT ![c] = [session[c] EXCEPT !.revoked = TRUE]]
             = [session EXCEPT ![c].revoked = TRUE]
    OBVIOUS
  <2> QED
    BY <1>1, <2>1 DEF logout, LogoutLooks, LogoutRevokes, RevokedAtLogout
<1>2. ASSUME resolvePilotSession(r) PROVE Resolves(r) \/ Rolls(r)
  BY <1>2 DEF resolvePilotSession, Resolves, Rolls
<1> QED
  BY <1>1, <1>2

LEMMA SessionsType ==
    ASSUME TypeInv, NEW r \in Request, logout(r) \/ resolvePilotSession(r)
    PROVE  TypeInv'
<1>0. /\ RequestType /\ AccessType /\ now \in Nat /\ Idle \in Nat
      /\ req \in [Request -> Row] /\ req[r] \in Row
  BY LifeAssumption DEF TypeInv, RateType, RequestType
<1>1. CASE LogoutLooks(r)
  <2>1. PICK s \in Request : req' = IF Live(s) THEN [Goes(r, "found") EXCEPT ![r].cookie = s]
                                   ELSE Goes(r, "ok")
    BY <1>1 DEF LogoutLooks
  <2>2. CASE req' = Goes(r, "ok")
    BY <1>0, <1>1, <2>2, OneGoes
    DEF Places, LogoutLooks, TypeInv, RateType, AccessType, ProgressType
  <2>3. CASE req' = [Goes(r, "found") EXCEPT ![r].cookie = s]
    <3> DEFINE row == [req[r] EXCEPT !.at = "found", !.cookie = s]
    <3>1. row \in Row /\ HasRead(row)
      BY <1>0 DEF Row, Places, HasRead
    <3>2. req' = [req EXCEPT ![r] = row]
      BY <1>0, <2>3 DEF Goes
    <3> HIDE DEF row
    <3>3. RequestType'
      BY <1>0, <3>1, <3>2, OneRequest
    <3> QED
      BY <1>1, <3>3 DEF LogoutLooks, TypeInv, RateType, AccessType, ProgressType
  <2> QED
    BY <2>1, <2>2, <2>3
<1>2. CASE LogoutRevokes(r)
  <2>1. RequestType'
    BY <1>0, <1>2, OneGoes DEF Places, LogoutRevokes
  <2>2. AccessType'
    BY <1>0, <1>2 DEF LogoutRevokes, AccessType, Session
  <2> QED
    BY <1>2, <2>1, <2>2 DEF LogoutRevokes, TypeInv, RateType, ProgressType
<1>3. CASE Resolves(r)
  <2>1. PICK s \in Request :
           \/ req' = [req EXCEPT ![r] = [@ EXCEPT !.at = "known", !.cookie = s, !.seenAt = now,
                                                  !.before = SignedOut]]
           \/ req' = Goes(r, "denied")
    BY <1>3 DEF Resolves
  <2> DEFINE row == [req[r] EXCEPT !.at = "known", !.cookie = s, !.seenAt = now,
                                   !.before = SignedOut]
  <2>2. row \in Row /\ HasRead(row)
    BY <1>0 DEF Row, Places, HasRead, SignedOut
  <2>3. req' = [req EXCEPT ![r] = row] \/ req' = Goes(r, "denied")
    BY <1>0, <2>1
  <2> HIDE DEF row
  <2>4. RequestType'
    BY <1>0, <2>2, <2>3, OneRequest, OneGoes DEF Places
  <2> QED
    BY <1>3, <2>4 DEF Resolves, TypeInv, RateType, AccessType, ProgressType
<1>4. CASE Rolls(r)
  <2>1. RequestType'
    BY <1>0, <1>4, OneGoes DEF Places, Rolls
  <2>2. req[r].seenAt + Idle \in Nat
    <3>1. req[r].seenAt \in Nat
      BY <1>0 DEF Row
    <3> QED
      BY <1>0, <3>1
  <2>3. AccessType'
    BY <1>0, <1>4, <2>2 DEF Rolls, AccessType, Session
  <2> QED
    BY <1>4, <2>1, <2>3 DEF Rolls, TypeInv, RateType, ProgressType
<1> QED
  BY <1>1, <1>2, <1>3, <1>4, SessionSteps

LEMMA ReviewType ==
    ASSUME TypeInv, NEW r \in Request, updateProgress(r)
    PROVE  TypeInv'
<1>0. /\ RequestType /\ ProgressType /\ req \in [Request -> Row] /\ req[r] \in Row
      /\ HasRead(req[r]) /\ progress \in Schedule
  BY DEF TypeInv, RequestType, ProgressType
<1>1. CASE req[r].at = "signedIn"
  <2>1. PICK rawQuality \in Quality :
          req' = [Goes(r, "locked") EXCEPT ![r].quality = Clamp(rawQuality, 0, 5)]
    BY <1>1 DEF updateProgress, At
  <2> DEFINE q == Clamp(rawQuality, 0, 5)
             row == [req[r] EXCEPT !.at = "locked", !.quality = q]
  <2>2. q \in 0 .. 5
    <3>1. rawQuality \in Int
      BY ReviewAssumption
    <3> QED
      BY <3>1 DEF Clamp
  <2>3. req' = [req EXCEPT ![r] = row]
    BY <1>0, <2>1 DEF Goes
  <2> HIDE DEF q
  <2>4. row \in Row /\ HasRead(row)
    BY <1>0, <2>2 DEF Row, Places, HasRead
  <2> HIDE DEF row
  <2>5. RequestType'
    BY <1>0, <2>3, <2>4, OneRequest
  <2>6. advisory' = r /\ UNCHANGED <<now, bucket, invitation, session, progress, reviewed>>
    BY <1>1 DEF updateProgress, At
  <2> QED
    BY <2>5, <2>6 DEF TypeInv, RateType, AccessType, ProgressType
<1>2. CASE req[r].at = "locked"
  <2> DEFINE row == [req[r] EXCEPT !.at = "read", !.saw = progress]
  <2>1. req' = [Goes(r, "read") EXCEPT ![r].saw = progress]
        /\ UNCHANGED <<now, bucket, invitation, session, progress, advisory, reviewed>>
    BY <1>2 DEF updateProgress, At
  <2>2. req' = [req EXCEPT ![r] = row]
    BY <1>0, <2>1 DEF Goes
  <2>3. row \in Row /\ HasRead(row)
    BY <1>0 DEF Row, Places, HasRead
  <2> HIDE DEF row
  <2>4. RequestType'
    BY <1>0, <2>2, <2>3, OneRequest
  <2> QED
    BY <2>1, <2>4 DEF TypeInv, RateType, AccessType, ProgressType
<1>3. CASE req[r].at = "read"
  <2>1. /\ progress' = sm2Update(req[r].saw, req[r].quality)
        /\ advisory' = None
        /\ reviewed' = [schedules |-> Append(reviewed.schedules, progress'),
                        qualities |-> Append(reviewed.qualities, req[r].quality)]
        /\ req' = [Goes(r, "ok") EXCEPT ![r].quality = 0, ![r].saw = None]
        /\ UNCHANGED <<now, bucket, invitation, session>>
    BY <1>3 DEF updateProgress, At
  <2>2. req[r].quality \in 0 .. 5 /\ req[r].saw \in Schedule
    BY <1>0, <1>3 DEF Row, HasRead
  <2>3. progress' \in Schedule
    BY <2>1, <2>2, OfUpdate
  <2>4. ProgressType'
    <3>1. /\ Append(reviewed.qualities, req[r].quality) \in Seq(0..5)
          /\ Append(reviewed.schedules, progress') \in Seq(Schedule)
      BY <1>0, <2>2, <2>3 DEF ProgressType
    <3>2. reviewed' \in [schedules : Seq(Schedule), qualities : Seq(0..5)]
      BY <2>1, <3>1
    <3> QED
      BY <2>1, <2>3, <3>2 DEF ProgressType
  <2> DEFINE row == [req[r] EXCEPT !.at = "ok", !.quality = 0, !.saw = None]
  <2>5. req' = [req EXCEPT ![r] = row]
    BY <1>0, <2>1 DEF Goes
  <2>6. row \in Row /\ HasRead(row)
    BY <1>0, OfCleared DEF Places, HasRead
  <2> HIDE DEF row
  <2>7. RequestType'
    BY <1>0, <2>5, <2>6, OneRequest
  <2> QED
    BY <2>1, <2>4, <2>7 DEF TypeInv, RateType, AccessType
<1> QED
  BY <1>1, <1>2, <1>3 DEF updateProgress, At

LEMMA TypeStep ==
    ASSUME TypeInv, [Next]_vars
    PROVE  TypeInv'
<1>1. CASE mintInvitation
  <2>1. PICK ttlHours \in Ttl :
          invitation' = [invitation EXCEPT !.expires = now + Clamp(ttlHours, 1, MaxTtl)]
    BY <1>1 DEF mintInvitation
  <2> DEFINE ttl == Clamp(ttlHours, 1, MaxTtl)
  <2>2. now + ttl \in Nat
    <3>1. ttlHours \in Int /\ MaxTtl \in Nat \ {0} /\ now \in Nat
      BY LifeAssumption DEF TypeInv, RateType
    <3>2. ttl \in 1 .. MaxTtl
      BY <3>1 DEF Clamp
    <3> HIDE DEF ttl
    <3> QED
      BY <3>1, <3>2
  <2> HIDE DEF ttl
  <2>3. AccessType'
    BY <1>1, <2>1, <2>2 DEF ttl, mintInvitation, TypeInv, AccessType, Invitations, Time
  <2> QED
    BY <1>1, <2>3 DEF mintInvitation, TypeInv, RateType, ProgressType, RequestType
<1>2. CASE Tick
  <2>1. RateType'
    BY <1>2 DEF Tick, TypeInv, RateType
  <2> QED
    BY <1>2, <2>1 DEF Tick, TypeInv, AccessType, ProgressType, RequestType
<1>3. ASSUME NEW r \in Request, Fail(r) PROVE TypeInv'
  <2> DEFINE row == [req[r] EXCEPT !.at = "denied", !.quality = 0, !.saw = None]
  <2>1. req \in [Request -> Row] /\ req[r] \in Row /\ RequestType
    BY DEF TypeInv, RequestType
  <2>2. req' = [req EXCEPT ![r] = row]
    BY <1>3, <2>1 DEF Fail, Goes
  <2>3. row \in Row /\ HasRead(row)
    BY <2>1, OfCleared DEF Places, HasRead
  <2> HIDE DEF row
  <2>4. RequestType'
    BY <2>1, <2>2, <2>3, OneRequest
  <2>5. AccessType'
    BY <1>3 DEF Fail, TypeInv, AccessType, Invitations
  <2>6. ProgressType'
    BY <1>3 DEF Fail, TypeInv, ProgressType
  <2> QED
    BY <1>3, <2>4, <2>5, <2>6 DEF Fail, TypeInv, RateType
<1>4. CASE UNCHANGED vars
  BY <1>4 DEF vars, TypeInv, RateType, AccessType, ProgressType, RequestType
<1> QED
  BY <1>1, <1>2, <1>3, <1>4, RatesType, BootstrapType, SessionsType, ReviewType DEF Next

LEMMA TypesHold == Spec => []TypeInv
BY TypeInit, TypeStep, PTL DEF Spec

\* Every variable keeps its type: the bucket its size, the schedule its bounds
\* whatever the reviews report (sm2Update).
THEOREM TypeCorrect == Spec => []TypeOK
BY TypesHold, TypeImplies, PTL

-----------------------------------------------------------------------------
(* Sessions.  Whoever holds the invitation's lock is the one that is opening *)
(* a session on it, and no session is open before.                           *)
Locks ==
    /\ \A r \in Request : invitation.lock = r <=> At(r, "bootstrap", "consumed")
    /\ \A r \in Request : invitation.lock = r => ~invitation.consumed
    /\ \A r \in Request : advisory = r => Kind[r] = "review"
    /\ \A b \in Request : session[b].created # None => invitation.consumed
    /\ \A b, c \in Request : session[b].created # None /\ session[c].created # None => b = c

\* A cookie was got by looking a session up; a logout that answered revoked it.
Carries(r) ==
    /\ req[r].cookie # None =>
         /\ session[req[r].cookie].created # None
         /\ req[r].at \notin {"absent", "new", "throttled", "admitted"}
    /\ At(r, "logout", "ok") /\ req[r].cookie # None => session[req[r].cookie].revoked
    /\ req[r].at \in {"known", "found"} => req[r].cookie # None
Cookies == \A r \in Request : Carries(r)

\* The idle end of a session lies Idle after its opening, or after its use by a
\* request that looked it up.
UsedBy(q, s) == SignedIn(q) /\ req[q].cookie = s
Rolled(s) == session[s].created # None =>
    /\ session[s].created <= now
    /\ \/ session[s].idle = session[s].created + Idle
       \/ \E q \in Request : UsedBy(q, s) /\ session[s].idle = req[q].seenAt + Idle
Idles == \A s \in Request : Rolled(s)

\* What a review found when it looked: OnlyTheInvited, one request at a time.
Found(r) ==
    /\ req[r].seenAt <= now
    /\ \A l \in req[r].before : At(l, "logout", "ok") /\ req[l].cookie # req[r].cookie
    /\ req[r].seenAt < session[req[r].cookie].created + Absolute
    /\ \/ /\ session[req[r].cookie].created <= req[r].seenAt
          /\ req[r].seenAt <= session[req[r].cookie].created + Idle
       \/ \E q \in Request \ {r} : /\ UsedBy(q, req[r].cookie)
                                   /\ req[q].seenAt <= req[r].seenAt
                                   /\ req[r].seenAt <= req[q].seenAt + Idle
Resolved == \A r \in Request : SignedIn(r) => Found(r)

AccessInv == TypeInv /\ Locks /\ Cookies /\ Idles /\ Resolved

LEMMA AccessImplies == AccessInv => OnlyTheInvited
<1> SUFFICES ASSUME AccessInv PROVE OnlyTheInvited
  OBVIOUS
<1>1. \A b, c \in Request : session[b].created # None /\ session[c].created # None => b = c
  BY DEF AccessInv, Locks
<1>2. ASSUME NEW r \in Request, SignedIn(r)
      PROVE  LET s == session[req[r].cookie]
                 used == {s.created} \cup {req[q].seenAt : q \in {p \in Request \ {r} :
                                             SignedIn(p) /\ req[p].cookie = req[r].cookie}}
             IN  /\ \A l \in req[r].before : req[l].cookie # req[r].cookie
                 /\ req[r].seenAt < s.created + Absolute
                 /\ \E t \in used : t <= req[r].seenAt /\ req[r].seenAt <= t + Idle
  <2>1. Found(r)
    BY <1>2 DEF AccessInv, Resolved
  <2>2. \A q \in Request \ {r} : UsedBy(q, req[r].cookie) =>
          req[q].seenAt \in {req[p].seenAt : p \in {p \in Request \ {r} :
                               SignedIn(p) /\ req[p].cookie = req[r].cookie}}
    BY DEF UsedBy
  <2> QED
    BY <2>1, <2>2 DEF Found
<1> QED
  BY <1>1, <1>2 DEF OnlyTheInvited

LEMMA AccessInit == Init => AccessInv
<1> SUFFICES ASSUME Init PROVE AccessInv
  OBVIOUS
<1>1. /\ invitation = NoInvitation /\ session = [r \in Request |-> NoSession] /\ advisory = None
      /\ \A r \in Request : req[r].at \in {"absent", "new"} /\ req[r].cookie = None
  BY DEF Init, NoRequest
<1>2. Locks
  BY <1>1, KindAssumption DEF Locks, NoInvitation, NoSession, At
<1>3. Cookies /\ Idles /\ Resolved
  BY <1>1 DEF Cookies, Carries, Idles, Rolled, Resolved, SignedIn, NoSession, At
<1> QED
  BY <1>2, <1>3, TypeInit DEF AccessInv

-----------------------------------------------------------------------------
\* A step that gives no request another cookie and no session another life
\* keeps what was found.
Keeps ==
    /\ now <= now'
    /\ \A q \in Request : /\ req'[q].cookie = req[q].cookie /\ req'[q].seenAt = req[q].seenAt
                          /\ req'[q].before = req[q].before
                          /\ At(q, "logout", "ok") => At(q, "logout", "ok")'
    /\ \A s \in Request : session[s].created # None => session'[s].created = session[s].created

LEMMA KeepsFound ==
    ASSUME AccessInv, TypeInv', Keeps
    PROVE  Resolved'
<1> SUFFICES ASSUME NEW r \in Request, SignedIn(r)' PROVE Found(r)'
  BY DEF Resolved
<1>0. /\ now \in Nat /\ now' \in Nat /\ req \in [Request -> Row] /\ req[r] \in Row
      /\ Resolved /\ Cookies
  BY DEF AccessInv, TypeInv, RateType, RequestType
<1>1. SignedIn(r) /\ req[r].cookie \in Request /\ session[req[r].cookie].created # None
  BY <1>0 DEF SignedIn, Keeps, Cookies, Carries, Row
<1>2. Found(r)
  BY <1>0, <1>1 DEF Resolved
<1>3. \A q, s \in Request : UsedBy(q, s) => UsedBy(q, s)'
  BY DEF UsedBy, SignedIn, Keeps
<1>4. req'[r].cookie = req[r].cookie /\ req'[r].seenAt = req[r].seenAt
      /\ req'[r].before = req[r].before /\ req[r].before \subseteq Request
      /\ session'[req[r].cookie].created = session[req[r].cookie].created
  BY <1>0, <1>1 DEF Keeps, Row
<1>5. req'[r].seenAt <= now'
  BY <1>0, <1>2, <1>4 DEF Found, Keeps, Row
<1>6. \A l \in req'[r].before : At(l, "logout", "ok")' /\ req'[l].cookie # req'[r].cookie
  BY <1>2, <1>4 DEF Found, Keeps
<1>7. \A q \in Request \ {r} : UsedBy(q, req[r].cookie) =>
        UsedBy(q, req[r].cookie)' /\ req'[q].seenAt = req[q].seenAt
  BY <1>1, <1>3 DEF Keeps
<1>8. \/ /\ session'[req'[r].cookie].created <= req'[r].seenAt
         /\ req'[r].seenAt <= session'[req'[r].cookie].created + Idle
      \/ \E q \in Request \ {r} : /\ UsedBy(q, req[r].cookie)'
                                  /\ req'[q].seenAt <= req'[r].seenAt
                                  /\ req'[r].seenAt <= req'[q].seenAt + Idle
  BY <1>2, <1>4, <1>7 DEF Found
<1>9. req'[r].seenAt < session'[req'[r].cookie].created + Absolute
  BY <1>2, <1>4 DEF Found
<1> QED
  BY <1>4, <1>5, <1>6, <1>8, <1>9 DEF Found, UsedBy, SignedIn

LEMMA KeepsIdles ==
    ASSUME AccessInv, TypeInv', Keeps, NEW s \in Request, session[s].created # None,
           session'[s].idle = session[s].idle
    PROVE  Rolled(s)'
<1>0. now \in Nat /\ now' \in Nat /\ session \in [Request -> Session] /\ Rolled(s)
      /\ session'[s].created = session[s].created
  BY DEF AccessInv, TypeInv, RateType, AccessType, Idles, Keeps
<1>1. \A q \in Request : UsedBy(q, s) => UsedBy(q, s)' /\ req'[q].seenAt = req[q].seenAt
  BY DEF UsedBy, SignedIn, Keeps
<1>2. session[s].created \in Nat /\ session[s].created <= now
  BY <1>0 DEF Session, Time, Rolled
<1> QED
  BY <1>0, <1>1, <1>2 DEF Rolled, Keeps

\* A step of one request that leaves the sessions alone, and in which the request
\* gets no cookie, nor needs one.
Quiet(r) ==
    /\ session' = session
    /\ now <= now'
    /\ \A q \in Request \ {r} : req'[q] = req[q]
    /\ req'[r].cookie = req[r].cookie /\ req'[r].seenAt = req[r].seenAt
    /\ req'[r].before = req[r].before
    /\ req'[r].at \notin {"known", "found"}
    /\ req[r].cookie # None => req'[r].at \notin {"absent", "new", "throttled", "admitted"}
    /\ At(r, "logout", "ok") => req'[r].at = "ok"
    /\ At(r, "logout", "ok")' => req[r].cookie = None

LEMMA QuietKeeps ==
    ASSUME AccessInv, TypeInv', NEW r \in Request, Quiet(r)
    PROVE  Cookies' /\ Idles' /\ Resolved'
<1>1. Keeps
  BY DEF Keeps, Quiet, At
<1>2. Resolved'
  BY <1>1, KeepsFound
<1>3. Idles'
  <2> SUFFICES ASSUME NEW s \in Request, session'[s].created # None PROVE Rolled(s)'
    BY DEF Idles, Rolled
  <2> QED
    BY <1>1, KeepsIdles DEF Quiet
<1>4. Cookies'
  BY DEF AccessInv, Cookies, Carries, Quiet, At
<1> QED
  BY <1>2, <1>3, <1>4

-----------------------------------------------------------------------------
\* What a step of the limiter, of an exchange, of a failure or of a review does
\* to the request it is a step of.
Moves(r) ==
    \/ req[r].at \in {"new", "throttled"} /\ req'[r].at \in {"throttled", "admitted"}
    \/ At(r, "bootstrap", "admitted") /\ req'[r].at \in {"denied", "consumed"}
    \/ r \in {invitation.lock, advisory} /\ req'[r].at = "denied"
    \/ At(r, "review", "signedIn") /\ req'[r].at = "locked"
    \/ At(r, "review", "locked") /\ req'[r].at = "read"
    \/ At(r, "review", "read") /\ req'[r].at = "ok"
Others(r) ==
    /\ \A q \in Request \ {r} : req'[q] = req[q]
    /\ req'[r].cookie = req[r].cookie /\ req'[r].seenAt = req[r].seenAt
    /\ req'[r].before = req[r].before

LEMMA MovesQuiet ==
    ASSUME AccessInv, NEW r \in Request, Moves(r), Others(r), UNCHANGED <<now, session>>
    PROVE  Quiet(r)
<1>1. Locks /\ Cookies /\ now \in Nat /\ Carries(r)
  BY DEF AccessInv, TypeInv, RateType, Cookies
<1>2. r \in {invitation.lock, advisory} => Kind[r] \in {"bootstrap", "review"}
  BY <1>1 DEF Locks, At
<1> QED
  BY <1>1, <1>2 DEF Moves, Others, Quiet, Carries, At

\* The step of a request at place "from" that moves it to place "to", and changes
\* none of what it has read about sessions.
LEMMA StepsMove ==
    ASSUME TypeInv, NEW r \in Request,
           take(r) \/ ConsumeInvitation(r) \/ Fail(r) \/ updateProgress(r)
    PROVE  Moves(r) /\ Others(r) /\ UNCHANGED <<now, session>>
<1>0. req \in [Request -> Row] /\ req[r] \in Row
  BY DEF TypeInv, RequestType
<1>1. CASE take(r)
  <2>1. \/ req' = [req EXCEPT ![r].at = "throttled", ![r].refused = now]
        \/ req' = [req EXCEPT ![r].at = "admitted", ![r].granted = now, ![r].refused = None]
    BY <1>1 DEF take
  <2>2. Others(r) /\ req'[r].at \in {"throttled", "admitted"}
    BY <1>0, <2>1 DEF Others, Row
  <2> QED
    BY <1>1, <2>2 DEF take, Moves
<1>2. CASE ConsumeInvitation(r)
  BY <1>0, <1>2 DEF ConsumeInvitation, Moves, Others, Goes, Row
<1>3. CASE Fail(r)
  BY <1>0, <1>3 DEF Fail, Moves, Others, Goes, Row
<1>4. CASE updateProgress(r)
  BY <1>0, <1>4 DEF updateProgress, Moves, Others, Goes, Row, At
<1> QED
  BY <1>1, <1>2, <1>3, <1>4

LEMMA LocksStep ==
    ASSUME AccessInv, NEW r \in Request,
           take(r) \/ ConsumeInvitation(r) \/ Fail(r) \/ updateProgress(r)
    PROVE  Locks'
<1>0. /\ req \in [Request -> Row] /\ req[r] \in Row /\ invitation \in Invitations
      /\ Locks /\ TypeInv
  BY DEF AccessInv, TypeInv, RequestType, AccessType
<1>1. Moves(r) /\ Others(r) /\ UNCHANGED <<now, session>>
  BY <1>0, StepsMove
<1>2. \A q \in Request \ {r} : req'[q] = req[q]
  BY <1>1 DEF Others
<1>3. CASE take(r) \/ updateProgress(r)
  <2>1. invitation' = invitation /\ advisory' \in {advisory, r, None}
        /\ (advisory' = r => advisory = r \/ Kind[r] = "review")
    BY <1>3 DEF take, updateProgress, At
  <2>2. ~At(r, "bootstrap", "consumed") /\ ~At(r, "bootstrap", "consumed")'
    <3>1. CASE take(r)
      BY <1>0, <3>1 DEF take, At, Row
    <3>2. CASE updateProgress(r)
      BY <3>2 DEF updateProgress, At
    <3> QED
      BY <1>3, <3>1, <3>2
  <2>3. \A q \in Request : At(q, "bootstrap", "consumed")' <=> At(q, "bootstrap", "consumed")
    BY <1>2, <2>2 DEF At
  <2>4. \A q \in Request : advisory' = q => Kind[q] = "review"
    BY <1>0, <2>1, KindAssumption DEF Locks
  <2> QED
    BY <1>0, <1>1, <2>1, <2>3, <2>4 DEF Locks
<1>4. CASE ConsumeInvitation(r)
  <2>1. advisory' = advisory /\ session' = session /\ invitation.lock = None
    BY <1>4 DEF ConsumeInvitation
  <2>2. CASE req' = Goes(r, "denied") /\ invitation' = invitation
    <3>1. \A q \in Request : At(q, "bootstrap", "consumed")' <=> At(q, "bootstrap", "consumed")
      BY <1>0, <1>2, <1>4, <2>2 DEF ConsumeInvitation, At, Goes, Row
    <3> QED
      BY <1>0, <2>1, <2>2, <3>1 DEF Locks
  <2>3. CASE Consumable /\ req' = Goes(r, "consumed")
             /\ invitation' = [invitation EXCEPT !.lock = r]
    <3>1. ~invitation.consumed /\ invitation'.lock = r
          /\ invitation'.consumed = invitation.consumed
      BY <1>0, <2>3 DEF Consumable, Invitations
    <3>2. \A q \in Request : At(q, "bootstrap", "consumed")' <=> q = r
      BY <1>0, <1>2, <1>4, <2>1, <2>3, KindAssumption DEF ConsumeInvitation, Locks, At, Goes
    <3> QED
      BY <1>0, <2>1, <3>1, <3>2 DEF Locks
  <2> QED
    BY <1>4, <2>2, <2>3 DEF ConsumeInvitation
<1>5. CASE Fail(r)
  <2>1. /\ req'[r].at = "denied" /\ session' = session
        /\ invitation' = IF invitation.lock = r THEN [invitation EXCEPT !.lock = None] ELSE invitation
        /\ advisory' \in {advisory, None}
    BY <1>0, <1>5 DEF Fail, Goes, Row
  <2>2. invitation'.consumed = invitation.consumed
        /\ invitation'.lock = IF invitation.lock = r THEN None ELSE invitation.lock
    BY <1>0, <2>1 DEF Invitations
  <2>3. \A q \in Request : At(q, "bootstrap", "consumed")' <=>
                           q # r /\ At(q, "bootstrap", "consumed")
    BY <1>2, <2>1 DEF At
  <2> QED
    BY <1>0, <2>1, <2>2, <2>3, KindAssumption DEF Locks
<1> QED
  BY <1>3, <1>4, <1>5

LEMMA QuietStep ==
    ASSUME AccessInv, TypeInv', NEW r \in Request,
           take(r) \/ ConsumeInvitation(r) \/ Fail(r) \/ updateProgress(r)
    PROVE  AccessInv'
<1>1. Locks'
  BY LocksStep
<1>2. Quiet(r)
  BY StepsMove, MovesQuiet DEF AccessInv
<1> QED
  BY <1>1, <1>2, QuietKeeps DEF AccessInv

\* The session of the request that consumed the invitation is the first.
LEMMA OpenStep ==
    ASSUME AccessInv, TypeInv', NEW r \in Request, OpenSession(r)
    PROVE  AccessInv'
<1>0. /\ req \in [Request -> Row] /\ req[r] \in Row /\ invitation \in Invitations
      /\ session \in [Request -> Session] /\ Locks /\ Cookies /\ Idles /\ now \in Nat
      /\ At(r, "bootstrap", "consumed") /\ now' = now /\ advisory' = advisory
  BY DEF AccessInv, TypeInv, RateType, RequestType, AccessType, OpenSession
<1>1. \A s \in Request : session[s].created = None
  BY <1>0 DEF Locks
<1>2. /\ req' = Goes(r, "ok") /\ \A q \in Request \ {r} : req'[q] = req[q]
      /\ req'[r].at = "ok" /\ Others(r)
  BY <1>0 DEF OpenSession, Goes, Others, Row
<1>3. /\ session'[r].created = now /\ session'[r].idle = now + Idle
      /\ \A s \in Request \ {r} : session'[s] = session[s]
  BY <1>0 DEF OpenSession
<1>4. invitation'.consumed /\ invitation'.lock = None
  BY <1>0 DEF OpenSession, Invitations
<1>5. Locks'
  <2>1. \A q \in Request : ~At(q, "bootstrap", "consumed")'
    BY <1>0, <1>2 DEF Locks, At
  <2>2. \A q \in Request : session'[q].created # None => q = r
    BY <1>1, <1>3
  <2> QED
    BY <1>0, <1>4, <2>1, <2>2, KindAssumption DEF Locks
<1>6. Keeps
  BY <1>0, <1>1, <1>2 DEF Keeps, Others, At
<1>7. Idles'
  BY <1>0, <1>1, <1>3 DEF Idles, Rolled
<1>8. \A q \in Request : req[q].cookie = None
  BY <1>0, <1>1 DEF Cookies, Carries, Row
<1>9. Cookies'
  BY <1>0, <1>2, <1>8 DEF Cookies, Carries, Others, At
<1> QED
  BY <1>5, <1>6, <1>7, <1>9, KeepsFound DEF AccessInv

\* A logout that found its session live, or has nothing to end.
LEMMA LooksStep ==
    ASSUME AccessInv, TypeInv', NEW r \in Request, LogoutLooks(r)
    PROVE  AccessInv'
<1>0. /\ req \in [Request -> Row] /\ req[r] \in Row /\ now \in Nat
      /\ Locks /\ Cookies /\ Carries(r)
      /\ Kind[r] = "logout" /\ req[r].at = "admitted"
      /\ UNCHANGED <<now, bucket, invitation, session, progress, advisory, reviewed>>
  BY DEF AccessInv, TypeInv, RateType, RequestType, LogoutLooks, Cookies, At
<1>1. PICK s \in Request : req' = IF Live(s) THEN [Goes(r, "found") EXCEPT ![r].cookie = s]
                                  ELSE Goes(r, "ok")
  BY DEF LogoutLooks
<1>2. \A q \in Request \ {r} : req'[q] = req[q]
  BY <1>0, <1>1 DEF Goes
<1>3. req'[r].at \in {"found", "ok"}
  BY <1>0, <1>1 DEF Goes, Row
<1>4. Locks'
  <2>1. \A q \in Request : At(q, "bootstrap", "consumed")' <=> At(q, "bootstrap", "consumed")
    BY <1>0, <1>2 DEF At
  <2> QED
    BY <1>0, <2>1 DEF Locks
<1>5. CASE req' = Goes(r, "ok")
  <2>1. Others(r) /\ req'[r].at = "ok" /\ req[r].cookie = None
    BY <1>0, <1>2, <1>5 DEF Goes, Others, Row, Carries
  <2>2. Quiet(r)
    BY <1>0, <1>2, <2>1 DEF Quiet, Others, At
  <2> QED
    BY <1>4, <2>2, QuietKeeps DEF AccessInv
<1>6. CASE Live(s) /\ req' = [Goes(r, "found") EXCEPT ![r].cookie = s]
  <2>1. /\ req'[r].at = "found" /\ req'[r].cookie = s /\ s # None
        /\ req'[r].seenAt = req[r].seenAt /\ req'[r].before = req[r].before
    BY <1>0, <1>6, KindAssumption DEF Goes, Row
  <2>2. Cookies'
    BY <1>0, <1>2, <1>6, <2>1 DEF Cookies, Carries, Live, At
  <2>3. \A q \in Request : SignedIn(q)' <=> SignedIn(q)
    BY <1>0, <1>2 DEF SignedIn
  <2>4. \A q, t \in Request : UsedBy(q, t)' <=> UsedBy(q, t)
    BY <1>0, <1>2 DEF UsedBy, SignedIn
  <2>5. \A q \in Request : req'[q].seenAt = req[q].seenAt
    BY <1>2, <2>1
  <2>6. Idles'
    <3>1. \A t \in Request : Rolled(t)' <=> Rolled(t)
      BY <1>0, <2>4, <2>5 DEF Rolled
    <3> QED
      BY <3>1 DEF AccessInv, Idles
  <2>7. ASSUME NEW q \in Request, SignedIn(q)' PROVE Found(q)'
    <3>1. q # r /\ req'[q] = req[q] /\ SignedIn(q) /\ Found(q) /\ req[q].cookie \in Request
          /\ req[q].before \subseteq Request
      BY <1>0, <1>2, <2>3, <2>7 DEF SignedIn, AccessInv, Resolved, Row
    <3>2. \A l \in req[q].before : At(l, "logout", "ok") /\ l # r
      BY <1>0, <3>1 DEF Found, At
    <3>3. \A l \in req[q].before : At(l, "logout", "ok")' /\ req'[l].cookie # req[q].cookie
      BY <1>2, <3>1, <3>2 DEF Found, At
    <3>4. \A t \in Request \ {q} : UsedBy(t, req[q].cookie) => UsedBy(t, req[q].cookie)'
      BY <2>4, <3>1
    <3>5. session' = session /\ now' = now
      BY <1>0
    <3>6. \/ /\ session'[req'[q].cookie].created <= req'[q].seenAt
             /\ req'[q].seenAt <= session'[req'[q].cookie].created + Idle
          \/ \E t \in Request \ {q} : /\ UsedBy(t, req[q].cookie)'
                                      /\ req'[t].seenAt <= req'[q].seenAt
                                      /\ req'[q].seenAt <= req'[t].seenAt + Idle
      BY <2>5, <3>1, <3>4, <3>5 DEF Found
    <3>7. /\ req'[q].seenAt <= now'
          /\ req'[q].seenAt < session'[req'[q].cookie].created + Absolute
          /\ \A l \in req'[q].before : At(l, "logout", "ok")' /\ req'[l].cookie # req'[q].cookie
      BY <3>1, <3>3, <3>5 DEF Found
    <3> QED
      BY <3>1, <3>6, <3>7 DEF Found, UsedBy, SignedIn
  <2> QED
    BY <1>4, <2>2, <2>6, <2>7 DEF AccessInv, Resolved
<1> QED
  BY <1>1, <1>5, <1>6

\* The session is revoked: this ends no life but its own, and opens none.
LEMMA RevokesStep ==
    ASSUME AccessInv, TypeInv', NEW r \in Request, LogoutRevokes(r)
    PROVE  AccessInv'
<1> DEFINE c == req[r].cookie
<1>0. /\ req \in [Request -> Row] /\ req[r] \in Row /\ now \in Nat
      /\ session \in [Request -> Session] /\ Locks /\ Cookies /\ Idles /\ Carries(r)
      /\ Kind[r] = "logout" /\ req[r].at = "found"
      /\ session' = [session EXCEPT ![req[r].cookie].revoked = TRUE] /\ req' = Goes(r, "ok")
      /\ UNCHANGED <<now, bucket, invitation, progress, advisory, reviewed>>
  BY DEF AccessInv, TypeInv, RateType, RequestType, AccessType, LogoutRevokes, Cookies, At
<1>1. c \in Request
  BY <1>0 DEF Carries, Row
<1>2. \A s \in Request : /\ session'[s].created = session[s].created
                          /\ session'[s].idle = session[s].idle
  BY <1>0, <1>1 DEF Session
<1>2a. /\ \A s \in Request : session[s].revoked => session'[s].revoked
       /\ session'[c].revoked
  BY <1>0, <1>1 DEF Session
<1>3. /\ \A q \in Request \ {r} : req'[q] = req[q]
      /\ req'[r].at = "ok" /\ Others(r)
  BY <1>0 DEF Goes, Others, Row
<1> HIDE DEF c
<1>4. Locks'
  <2>1. \A q \in Request : At(q, "bootstrap", "consumed")' <=> At(q, "bootstrap", "consumed")
    BY <1>0, <1>3 DEF At
  <2> QED
    BY <1>0, <1>2, <2>1 DEF Locks
<1>5. Keeps
  BY <1>0, <1>2, <1>3 DEF Keeps, Others, At
<1>6. Cookies'
  <2> SUFFICES ASSUME NEW q \in Request PROVE Carries(q)'
    BY DEF Cookies
  <2>1. req'[q].cookie = req[q].cookie /\ Carries(q)
    BY <1>0, <1>5 DEF Keeps, Cookies
  <2>2. req[q].cookie # None => req[q].cookie \in Request
    BY <1>0 DEF Row
  <2>3. CASE q = r
    BY <1>0, <1>2, <1>2a, <1>3, <2>1, <2>2, <2>3 DEF Carries, At, c
  <2>4. CASE q # r
    BY <1>2, <1>2a, <1>3, <2>1, <2>2, <2>4 DEF Carries, At
  <2> QED
    BY <2>3, <2>4
<1>7. Idles'
  <2> SUFFICES ASSUME NEW s \in Request, session'[s].created # None PROVE Rolled(s)'
    BY DEF Idles, Rolled
  <2> QED
    BY <1>2, <1>5, KeepsIdles
<1> QED
  BY <1>4, <1>5, <1>6, <1>7, KeepsFound DEF AccessInv

\* A review finds its session: the idle end it is within lies Idle after the
\* opening, or after a use by another request.
LEMMA ResolvesStep ==
    ASSUME AccessInv, TypeInv', NEW r \in Request, Resolves(r)
    PROVE  AccessInv'
<1>0. /\ req \in [Request -> Row] /\ req[r] \in Row /\ now \in Nat
      /\ session \in [Request -> Session] /\ Idle \in Nat /\ Absolute \in Nat
      /\ Locks /\ Cookies /\ Idles /\ Carries(r)
      /\ Kind[r] = "review" /\ req[r].at = "admitted"
      /\ UNCHANGED <<now, bucket, invitation, session, progress, advisory, reviewed>>
  BY LifeAssumption
  DEF AccessInv, TypeInv, RateType, RequestType, AccessType, Resolves, Cookies, At
<1>1. PICK s \in Request :
         req' = IF Authentic(s)
                THEN [req EXCEPT ![r] = [@ EXCEPT !.at = "known", !.cookie = s, !.seenAt = now,
                                                  !.before = SignedOut]]
                ELSE Goes(r, "denied")
  BY DEF Resolves
<1>2. \A q \in Request \ {r} : req'[q] = req[q]
  BY <1>0, <1>1 DEF Goes
<1>3. req'[r].at \in {"known", "denied"}
  BY <1>0, <1>1 DEF Goes, Row
<1>4. Locks'
  <2>1. \A q \in Request : At(q, "bootstrap", "consumed")' <=> At(q, "bootstrap", "consumed")
    BY <1>0, <1>2 DEF At
  <2> QED
    BY <1>0, <2>1 DEF Locks
<1>5. CASE req' = Goes(r, "denied")
  <2>1. Others(r) /\ req'[r].at = "denied" /\ req[r].cookie = None
    BY <1>0, <1>2, <1>5 DEF Goes, Others, Row, Carries
  <2>2. Quiet(r)
    BY <1>0, <1>2, <2>1 DEF Quiet, Others, At
  <2> QED
    BY <1>4, <2>2, QuietKeeps DEF AccessInv
<1>6. CASE /\ Authentic(s)
           /\ req' = [req EXCEPT ![r] = [@ EXCEPT !.at = "known", !.cookie = s, !.seenAt = now,
                                                  !.before = SignedOut]]
  <2>0. req[r].cookie = None /\ ~SignedIn(r)
    BY <1>0 DEF Carries, SignedIn
  <2>1. /\ req'[r].at = "known" /\ req'[r].cookie = s /\ s # None
        /\ req'[r].seenAt = now /\ req'[r].before = SignedOut
    BY <1>0, <1>6, KindAssumption DEF Row
  <2>2. Cookies'
    BY <1>0, <1>2, <1>6, <2>1 DEF Cookies, Carries, Authentic, Live, At
  <2>3. \A q, t \in Request : UsedBy(q, t) =>
          q # r /\ UsedBy(q, t)' /\ req'[q].seenAt = req[q].seenAt
    BY <1>0, <1>2, <2>0 DEF UsedBy, SignedIn
  <2>4. Idles'
    <3> SUFFICES ASSUME NEW t \in Request, Rolled(t) PROVE Rolled(t)'
      BY DEF AccessInv, Idles
    <3>1. session' = session /\ now' = now
      BY <1>0
    <3> QED
      BY <2>3, <3>1 DEF Rolled
  <2>5. \A l \in Request : At(l, "logout", "ok") =>
          l # r /\ At(l, "logout", "ok")' /\ req'[l] = req[l]
    BY <1>0, <1>2 DEF At
  <2>6. Found(r)'
    <3>1. /\ session[s].created # None /\ ~session[s].revoked /\ now < session[s].created + Absolute
          /\ now <= session[s].idle /\ session[s].created \in Nat
      BY <1>0, <1>6 DEF Authentic, Live, Session, Time
    <3>2. Rolled(s)
      BY <1>0 DEF Idles
    <3>3. \A l \in SignedOut : At(l, "logout", "ok")' /\ req'[l].cookie # s
      BY <1>0, <2>1, <2>5, <3>1 DEF SignedOut, Cookies, Carries
    <3>4. \/ session[s].created <= now /\ now <= session[s].created + Idle
          \/ \E q \in Request : UsedBy(q, s) /\ now <= req[q].seenAt + Idle
      BY <3>1, <3>2 DEF Rolled
    <3>5. \A q \in Request : UsedBy(q, s) => req[q].seenAt <= now
      BY DEF UsedBy, AccessInv, Resolved, Found
    <3>6. \/ /\ session'[s].created <= now /\ now <= session'[s].created + Idle
          \/ \E q \in Request \ {r} : /\ UsedBy(q, s)' /\ req'[q].seenAt <= now
                                      /\ now <= req'[q].seenAt + Idle
      BY <1>0, <2>3, <3>4, <3>5
    <3>7. now' = now /\ session' = session
      BY <1>0
    <3>8. UsedBy(r, s)' /\ \A q \in Request : UsedBy(q, s)' <=> UsedBy(q, req[r].cookie)'
      BY <1>0, <2>1 DEF UsedBy, SignedIn
    <3> QED
      BY <1>0, <2>1, <3>1, <3>3, <3>6, <3>7, <3>8 DEF Found
  <2>7. ASSUME NEW q \in Request \ {r}, SignedIn(q)' PROVE Found(q)'
    <3>1. req'[q] = req[q] /\ SignedIn(q) /\ Found(q) /\ req[q].cookie \in Request
          /\ req[q].before \subseteq Request
      BY <1>0, <1>2, <2>7 DEF SignedIn, AccessInv, Resolved, Row
    <3>2. \A l \in req[q].before : At(l, "logout", "ok")' /\ req'[l].cookie # req[q].cookie
      BY <2>5, <3>1 DEF Found
    <3>3. session' = session /\ now' = now
      BY <1>0
    <3>4. \/ /\ session'[req'[q].cookie].created <= req'[q].seenAt
             /\ req'[q].seenAt <= session'[req'[q].cookie].created + Idle
          \/ \E t \in Request \ {q} : /\ UsedBy(t, req[q].cookie)'
                                      /\ req'[t].seenAt <= req'[q].seenAt
                                      /\ req'[q].seenAt <= req'[t].seenAt + Idle
      BY <2>3, <3>1, <3>3 DEF Found
    <3>5. /\ req'[q].seenAt <= now'
          /\ req'[q].seenAt < session'[req'[q].cookie].created + Absolute
      BY <3>1, <3>3 DEF Found
    <3> QED
      BY <3>1, <3>2, <3>4, <3>5 DEF Found, UsedBy, SignedIn
  <2> QED
    BY <1>4, <2>2, <2>4, <2>6, <2>7 DEF AccessInv, Resolved
<1> QED
  BY <1>1, <1>5, <1>6

\* The idle end is moved, back or forth, to Idle after the look of the request
\* that moves it; a session that was revoked meanwhile stays so.
LEMMA RollsStep ==
    ASSUME AccessInv, TypeInv', NEW r \in Request, Rolls(r)
    PROVE  AccessInv'
<1> DEFINE c == req[r].cookie
<1>0. /\ req \in [Request -> Row] /\ req[r] \in Row /\ now \in Nat
      /\ session \in [Request -> Session] /\ Locks /\ Cookies /\ Idles /\ Carries(r)
      /\ Kind[r] = "review" /\ req[r].at = "known"
      /\ session' = [session EXCEPT ![req[r].cookie].idle = req[r].seenAt + Idle]
      /\ req' = Goes(r, "signedIn")
      /\ UNCHANGED <<now, bucket, invitation, progress, advisory, reviewed>>
  BY DEF AccessInv, TypeInv, RateType, RequestType, AccessType, Rolls, Cookies, At
<1>1. c \in Request /\ SignedIn(r) /\ session[c].created # None
  BY <1>0 DEF Carries, Row, SignedIn
<1>2. \A s \in Request : session'[s].created = session[s].created
  BY <1>0, <1>1 DEF Session
<1>3. \A s \in Request : session[s].revoked => session'[s].revoked
  BY <1>0, <1>1 DEF Session
<1>4. /\ \A s \in Request \ {c} : session'[s].idle = session[s].idle
      /\ session'[c].idle = req[r].seenAt + Idle
  BY <1>0, <1>1 DEF Session
<1>5. /\ \A q \in Request \ {r} : req'[q] = req[q]
      /\ req'[r].at = "signedIn" /\ Others(r)
  BY <1>0 DEF Goes, Others, Row
<1> HIDE DEF c
<1>6. Locks'
  <2>1. \A q \in Request : At(q, "bootstrap", "consumed")' <=> At(q, "bootstrap", "consumed")
    BY <1>0, <1>5 DEF At
  <2> QED
    BY <1>0, <1>2, <2>1 DEF Locks
<1>7. Keeps
  BY <1>0, <1>2, <1>5 DEF Keeps, Others, At
<1>8. Cookies'
  <2> SUFFICES ASSUME NEW q \in Request PROVE Carries(q)'
    BY DEF Cookies
  <2>1. req'[q].cookie = req[q].cookie /\ Carries(q)
    BY <1>0, <1>7 DEF Keeps, Cookies
  <2>2. req[q].cookie # None => req[q].cookie \in Request
    BY <1>0 DEF Row
  <2>3. CASE q = r
    BY <1>0, <1>2, <1>5, <2>1, <2>2, <2>3 DEF Carries, At
  <2>4. CASE q # r
    BY <1>2, <1>3, <1>5, <2>1, <2>2, <2>4 DEF Carries, At
  <2> QED
    BY <2>3, <2>4
<1>9. Idles'
  <2> SUFFICES ASSUME NEW s \in Request, session'[s].created # None PROVE Rolled(s)'
    BY DEF Idles, Rolled
  <2>1. CASE s # c
    BY <1>2, <1>4, <1>7, <2>1, KeepsIdles
  <2>2. CASE s = c
    <3>1. UsedBy(r, s)' /\ req'[r].seenAt = req[r].seenAt
      BY <1>1, <1>5, <2>2 DEF UsedBy, SignedIn, Others, c
    <3>2. session[s].created <= now
      BY <1>0, <1>1, <2>2 DEF Idles, Rolled
    <3>3. session'[s].created <= now'
      BY <1>0, <1>2, <3>2
    <3>4. session'[s].idle = req'[r].seenAt + Idle
      BY <1>4, <2>2, <3>1
    <3> QED
      BY <3>1, <3>3, <3>4 DEF Rolled
  <2> QED
    BY <2>1, <2>2
<1> QED
  BY <1>6, <1>7, <1>8, <1>9, KeepsFound DEF AccessInv

LEMMA AccessStep ==
    ASSUME AccessInv, [Next]_vars
    PROVE  AccessInv'
<1>1. TypeInv /\ TypeInv'
  BY TypeStep DEF AccessInv
<1>2. CASE mintInvitation \/ Tick \/ UNCHANGED vars
  <2>1. /\ session' = session /\ req' = req /\ advisory' = advisory /\ now <= now'
    BY <1>1, <1>2 DEF mintInvitation, Tick, vars, TypeInv, RateType
  <2>2. invitation'.lock = invitation.lock /\ invitation'.consumed = invitation.consumed
    BY <1>1, <1>2 DEF mintInvitation, Tick, vars, TypeInv, AccessType, Invitations
  <2>3. Keeps
    BY <2>1 DEF Keeps, At
  <2>4. Locks' /\ Cookies'
    BY <2>1, <2>2 DEF AccessInv, Locks, Cookies, Carries, At
  <2>5. Idles'
    <3> SUFFICES ASSUME NEW s \in Request, session'[s].created # None PROVE Rolled(s)'
      BY DEF Idles, Rolled
    <3> QED
      BY <1>1, <2>1, <2>3, KeepsIdles
  <2> QED
    BY <1>1, <2>3, <2>4, <2>5, KeepsFound DEF AccessInv
<1>3. ASSUME NEW r \in Request, take(r) \/ Fail(r) \/ bootstrap(r) \/ updateProgress(r)
      PROVE  AccessInv'
  BY <1>1, <1>3, QuietStep, OpenStep DEF bootstrap
<1>4. ASSUME NEW r \in Request, logout(r) \/ resolvePilotSession(r) PROVE AccessInv'
  BY <1>1, <1>4, SessionSteps, LooksStep, RevokesStep, ResolvesStep, RollsStep
<1> QED
  BY <1>2, <1>3, <1>4 DEF Next

\* One session comes of an invitation, and a review is signed in only on a session
\* no logout had ended, within both its lives (bootstrap, logout,
\* resolvePilotSession).
THEOREM OnlyInvited == Spec => []OnlyTheInvited
<1>1. Spec => []AccessInv
  BY AccessInit, AccessStep, PTL DEF Spec
<1> QED
  BY <1>1, AccessImplies, PTL

-----------------------------------------------------------------------------
\* What flooring keeps of sums, and of a period that has not passed.
LEMMA Floors ==
    ASSUME NEW x \in Nat, NEW y \in Nat
    PROVE  /\ x \div Replenish \in Nat
           /\ x \div Replenish + y \div Replenish <= (x + y) \div Replenish
           /\ x \div Replenish = 0 => x < Replenish
           /\ x <= y => x \div Replenish <= y \div Replenish
<1> DEFINE R == Replenish
<1>0. R \in Nat /\ R > 0
  BY RateAssumption
<1> HIDE DEF R
<1>1. ASSUME NEW z \in Nat
      PROVE  z \div R \in Nat /\ R * (z \div R) <= z /\ z < R * (z \div R) + R
  <2>1. R * (z \div R) <= z /\ z < R * (z \div R) + R
    BY <1>0
  <2>2. z \div R \in Int /\ z \div R >= 0
    BY <1>0
  <2> QED
    BY <2>1, <2>2
<1>2. ASSUME NEW a \in Int, NEW b \in Int, a < b PROVE R * a + R <= R * b
  <2>1. b - a - 1 \in Nat /\ R * b = R * a + R + R * (b - a - 1)
    BY <1>0, <1>2
  <2>2. R * (b - a - 1) >= 0
    BY <2>1, <1>0
  <2> QED
    BY <2>1, <2>2, <1>0
<1> DEFINE dx == x \div R
           dy == y \div R
           ds == (x + y) \div R
<1>3. dx \in Nat /\ R * dx <= x /\ x < R * dx + R
  BY <1>1
<1>4. dy \in Nat /\ R * dy <= y /\ y < R * dy + R
  BY <1>1
<1>5. ds \in Nat /\ R * ds <= x + y /\ x + y < R * ds + R
  <2>1. x + y \in Nat
    OBVIOUS
  <2> QED
    BY <1>1, <2>1
<1> HIDE DEF dx, dy, ds
<1>6. dx + dy <= ds
  <2> SUFFICES ASSUME ds < dx + dy PROVE FALSE
    BY <1>3, <1>4, <1>5
  <2>1. R * ds + R <= R * (dx + dy)
    BY <1>2, <1>3, <1>4, <1>5
  <2>2. R * (dx + dy) = R * dx + R * dy
    BY <1>0, <1>3, <1>4
  <2>3. R * ds \in Int /\ R * dx \in Int /\ R * dy \in Int
    BY <1>0, <1>3, <1>4, <1>5
  <2> QED
    BY <2>1, <2>2, <2>3, <1>0, <1>3, <1>4, <1>5
<1>7. dx = 0 => x < R
  BY <1>0, <1>3
<1>8. x <= y => dx <= dy
  <2> SUFFICES ASSUME x <= y, dy < dx PROVE FALSE
    BY <1>3, <1>4
  <2>1. R * dy + R <= R * dx
    BY <1>2, <1>3, <1>4
  <2>2. R * dx \in Int /\ R * dy \in Int
    BY <1>0, <1>3, <1>4
  <2> QED
    BY <2>1, <2>2, <1>0, <1>3, <1>4
<1> QED
  BY <1>3, <1>6, <1>7, <1>8 DEF dx, dy, ds, R

-----------------------------------------------------------------------------
(* The limiter.  Since some request was let in, the tokens that are left and *)
(* the requests that were let in are no more than the burst and what was     *)
(* replenished; and a bucket that is not full has been so since a request.   *)
Since(t) == {r \in Granted : req[r].granted >= t}
Spent == \A a \in Granted :
    bucket.tokens + Cardinality(Since(req[a].granted))
      <= Burst + (bucket.updatedAt - req[a].granted) \div Replenish
Taken ==
    /\ IsFiniteSet(Granted)
    /\ \A r \in Request : req[r].at \in {"new", "throttled"} => req[r].granted = None
    /\ \A r \in Granted : req[r].granted <= bucket.updatedAt
    /\ bucket.tokens < Burst => \E g \in Granted : req[g].granted = bucket.updatedAt
    /\ \A r \in Request : req[r].refused # None => req[r].refused <= now

RateInv == TypeInv /\ Taken /\ Spent /\ RateIsFair

\* What every step but that of the limiter leaves as it is.
Calm == /\ bucket' = bucket /\ now <= now'
        /\ \A r \in Request : /\ req'[r].granted = req[r].granted
                              /\ req'[r].refused = req[r].refused
                              /\ req'[r].at \in {"new", "throttled"} => req[r].at \in {"new", "throttled"}

LEMMA CalmKeeps ==
    ASSUME RateInv, TypeInv', Calm
    PROVE  RateInv'
<1>1. Granted' = Granted /\ \A r \in Granted : req'[r].granted = req[r].granted
  BY DEF Calm, Granted
<1>2. Taken'
  <2>1. \A r \in Request : req'[r].refused # None => req'[r].refused <= now'
    <3> SUFFICES ASSUME NEW r \in Request, req'[r].refused # None PROVE req'[r].refused <= now'
      OBVIOUS
    <3>1. req[r].refused \in Nat /\ req[r].refused <= now /\ req'[r].refused = req[r].refused
      BY DEF RateInv, Taken, Calm, TypeInv, RequestType, Row, Time
    <3>2. now \in Nat /\ now' \in Nat /\ now <= now'
      BY DEF RateInv, TypeInv, RateType, Calm
    <3> QED
      BY <3>1, <3>2
  <2> QED
    BY <1>1, <2>1 DEF RateInv, Taken, Calm
<1>3. \A t : Since(t)' = Since(t)
  BY <1>1 DEF Since
<1>4. Spent'
  BY <1>1, <1>3 DEF RateInv, Spent, Calm
<1>5. \A s, t : {r \in Granted : req[r].granted \in s .. t}' = {r \in Granted : req[r].granted \in s .. t}
  BY <1>1
<1>6. RateIsFair'
  BY <1>1, <1>5 DEF RateInv, RateIsFair, Calm
<1> QED
  BY <1>2, <1>4, <1>6 DEF RateInv

LEMMA TimesAreNumbers ==
    ASSUME TypeInv
    PROVE  /\ now \in Nat /\ bucket.tokens \in 0 .. Burst /\ bucket.updatedAt \in 0 .. now
           /\ \A r \in Granted : r \in Request /\ req[r].granted \in Nat
           /\ \A r \in Request : req[r].refused # None => req[r].refused \in Nat
BY DEF TypeInv, RateType, RequestType, Row, Time, Granted

\* A refusal: there was no token, and none had come since the last one was taken.
LEMMA RefusedStep ==
    ASSUME RateInv, TypeInv', NEW r \in Request, take(r), req'[r].at = "throttled"
    PROVE  RateInv'
<1> DEFINE d == (now - bucket.updatedAt) \div Replenish
<1>0. /\ now \in Nat /\ bucket.tokens \in 0 .. Burst /\ bucket.updatedAt \in 0 .. now
      /\ req \in [Request -> Row] /\ req[r] \in Row /\ Burst \in Nat /\ Burst > 0
      /\ Replenish \in Nat /\ bucket \in [tokens : 0 .. Burst, updatedAt : 0 .. now]
  BY RateAssumption DEF RateInv, TypeInv, RateType, RequestType
<1>1. /\ Clamp(bucket.tokens + d, 0, Burst) < 1
      /\ bucket' = [tokens |-> Clamp(bucket.tokens + d, 0, Burst), updatedAt |-> bucket.updatedAt]
      /\ req' = [req EXCEPT ![r].at = "throttled", ![r].refused = now]
      /\ now' = now /\ req[r].at \in {"new", "throttled"}
  BY <1>0 DEF take, Row, UpdatedAtRefusal
<1>2. d \in Nat /\ (d = 0 => now - bucket.updatedAt < Replenish)
  <2>1. now - bucket.updatedAt \in Nat
    BY <1>0
  <2> QED
    BY <2>1, Floors
<1> HIDE DEF d
<1>3. bucket.tokens = 0 /\ d = 0 /\ bucket' = bucket
  BY <1>0, <1>1, <1>2 DEF Clamp
<1>4. /\ \A q \in Request : req'[q].granted = req[q].granted
      /\ \A q \in Request \ {r} : req'[q] = req[q]
      /\ req'[r].refused = now /\ req'[r].at = "throttled"
  BY <1>0, <1>1 DEF Row
<1>5. Granted' = Granted
  BY <1>4 DEF Granted
<1>6. Taken'
  <2>1. \A q \in Request : req'[q].refused # None => req'[q].refused <= now'
    BY <1>0, <1>1, <1>4 DEF RateInv, Taken
  <2>2. \A q \in Request : req'[q].at \in {"new", "throttled"} => req'[q].granted = None
    BY <1>1, <1>4 DEF RateInv, Taken
  <2> QED
    BY <1>3, <1>4, <1>5, <2>1, <2>2 DEF RateInv, Taken, Granted
<1>7. Spent'
  <2>1. \A t : Since(t)' = Since(t)
    BY <1>4, <1>5 DEF Since, Granted
  <2> QED
    BY <2>1, <1>3, <1>4, <1>5 DEF RateInv, Spent, Granted
<1>8. RateIsFair'
  <2>1. \A q \in Granted : req'[q].granted = req[q].granted
    BY <1>4 DEF Granted
  <2>3. ASSUME NEW q \in Request, req'[q].refused # None
        PROVE  \E g \in Granted : /\ req'[g].granted <= req'[q].refused
                                  /\ req'[q].refused < req'[g].granted + Replenish
    <3>1. CASE q = r
      <4>1. PICK g \in Granted : req[g].granted = bucket.updatedAt
        BY <1>0, <1>3 DEF RateInv, Taken
      <4> QED
        BY <3>1, <4>1, <1>0, <1>2, <1>3, <1>4 DEF Granted
    <3>2. CASE q # r
      <4>1. req'[q].refused = req[q].refused
        BY <3>2, <1>4
      <4> QED
        BY <2>3, <4>1, <1>4 DEF RateInv, RateIsFair, Granted
    <3> QED
      BY <3>1, <3>2
  <2>4. ASSUME NEW a \in Granted, NEW z \in Granted, req'[a].granted <= req'[z].granted
        PROVE  Cardinality({q \in Granted' : req'[q].granted \in req'[a].granted .. req'[z].granted})
                 <= Burst + (req'[z].granted - req'[a].granted) \div Replenish
    <3>1. Cardinality({q \in Granted : req[q].granted \in req[a].granted .. req[z].granted})
            <= Burst + (req[z].granted - req[a].granted) \div Replenish
      BY <2>1, <2>4 DEF RateInv, RateIsFair
    <3>2. {q \in Granted' : req'[q].granted \in req'[a].granted .. req'[z].granted}
            = {q \in Granted : req[q].granted \in req[a].granted .. req[z].granted}
      BY <1>5, <2>1
    <3>3. req'[a].granted = req[a].granted /\ req'[z].granted = req[z].granted
      BY <2>1
    <3> QED
      BY <3>1, <3>2, <3>3
  <2> QED
    BY <1>5, <2>3, <2>4 DEF RateIsFair
<1> QED
  BY <1>6, <1>7, <1>8 DEF RateInv

\* A token is taken: one more request counts, and one token fewer is left.
LEMMA GrantedStep ==
    ASSUME RateInv, TypeInv', NEW r \in Request, take(r), req'[r].at = "admitted"
    PROVE  RateInv'
<1> DEFINE d == (now - bucket.updatedAt) \div Replenish
<1>0. /\ now \in Nat /\ bucket.tokens \in 0 .. Burst /\ bucket.updatedAt \in 0 .. now
      /\ req \in [Request -> Row] /\ req[r] \in Row /\ Burst \in Nat /\ Burst > 0
      /\ Replenish \in Nat
      /\ \A q \in Granted : q \in Request /\ req[q].granted \in Nat
  BY RateAssumption, TimesAreNumbers DEF RateInv, TypeInv, RequestType
<1>1. /\ Clamp(bucket.tokens + d, 0, Burst) >= 1
      /\ bucket' = [tokens |-> Clamp(bucket.tokens + d, 0, Burst) - 1, updatedAt |-> now]
      /\ req' = [req EXCEPT ![r].at = "admitted", ![r].granted = now, ![r].refused = None]
      /\ now' = now /\ req[r].at \in {"new", "throttled"}
  BY <1>0 DEF take, Row, UpdatedAtRefusal
<1>2. d \in Nat
  <2>1. now - bucket.updatedAt \in Nat
    BY <1>0
  <2> QED
    BY <2>1, Floors
<1> HIDE DEF d
<1>3. /\ bucket'.tokens \in Nat /\ bucket'.tokens + 1 <= Burst
      /\ bucket'.tokens + 1 <= bucket.tokens + d /\ bucket'.updatedAt = now
  BY <1>0, <1>1, <1>2 DEF Clamp
<1>4. /\ \A q \in Request \ {r} : req'[q] = req[q]
      /\ req'[r].granted = now /\ req'[r].refused = None /\ req'[r].at = "admitted"
      /\ r \notin Granted /\ now # None
  BY <1>0, <1>1, KindAssumption DEF Row, Granted, RateInv, Taken
<1>5. Granted' = Granted \union {r} /\ \A q \in Granted : req'[q].granted = req[q].granted
  BY <1>4 DEF Granted
<1>6. IsFiniteSet(Granted) /\ IsFiniteSet(Granted')
  BY <1>5, FS_AddElement DEF RateInv, Taken
<1>7. \A q \in Granted : req[q].granted <= bucket.updatedAt /\ req[q].granted <= now
  BY <1>0 DEF RateInv, Taken
<1>8. Taken'
  <2>1. \A q \in Granted' : req'[q].granted <= bucket'.updatedAt
    BY <1>3, <1>4, <1>5, <1>7, <1>0
  <2>2. \E g \in Granted' : req'[g].granted = bucket'.updatedAt
    BY <1>3, <1>4, <1>5
  <2> QED
    BY <1>1, <1>4, <1>6, <2>1, <2>2 DEF RateInv, Taken
<1>9. ASSUME NEW t \in Nat, t <= now
      PROVE  /\ Since(t)' = Since(t) \union {r} /\ r \notin Since(t) /\ IsFiniteSet(Since(t))
             /\ Cardinality(Since(t)') = Cardinality(Since(t)) + 1
             /\ Cardinality(Since(t)) \in Nat
  <2>1. Since(t)' = Since(t) \union {r} /\ r \notin Since(t)
    BY <1>0, <1>4, <1>5, <1>9 DEF Since
  <2>2. IsFiniteSet(Since(t))
    BY <1>6, FS_Subset DEF Since
  <2> QED
    BY <2>1, <2>2, FS_AddElement, FS_CardinalityType
<1>10. ASSUME NEW t \in Nat, t <= now, \E a \in Granted' : req'[a].granted = t
       PROVE  bucket'.tokens + Cardinality(Since(t)') <= Burst + (now - t) \div Replenish
  <2>1. CASE \E a \in Granted : req[a].granted = t
    <3>1. PICK a \in Granted : req[a].granted = t
      BY <2>1
    <3>2. bucket.tokens + Cardinality(Since(t)) <= Burst + (bucket.updatedAt - t) \div Replenish
      BY <3>1 DEF RateInv, Spent
    <3> DEFINE e == (bucket.updatedAt - t) \div Replenish
               f == (now - t) \div Replenish
    <3>3. e \in Nat /\ f \in Nat /\ e + d <= f
      <4>1. bucket.updatedAt - t \in Nat /\ now - bucket.updatedAt \in Nat /\ now - t \in Nat
        BY <1>0, <1>7, <1>10, <3>1
      <4>2. now - t = (bucket.updatedAt - t) + (now - bucket.updatedAt)
        BY <1>0
      <4> QED
        BY <4>1, <4>2, Floors DEF d
    <3> HIDE DEF e, f
    <3>4. bucket.tokens + Cardinality(Since(t)) <= Burst + e
      BY <3>2 DEF e
    <3>5. bucket'.tokens + Cardinality(Since(t)') <= Burst + f
      BY <1>0, <1>2, <1>3, <1>9, <1>10, <3>3, <3>4
    <3> QED
      BY <3>5 DEF f
  <2>2. CASE ~\E a \in Granted : req[a].granted = t
    <3>1. t = now
      BY <2>2, <1>4, <1>5, <1>10
    <3>2. Since(t) = {}
      BY <2>2, <3>1, <1>0, <1>7 DEF Since
    <3>3. Cardinality(Since(t)') = 1
      BY <3>2, <1>9, <1>10, FS_EmptySet
    <3>4. (now - t) \div Replenish \in Nat
      <4>1. now - t \in Nat
        BY <1>0, <3>1
      <4> QED
        BY <4>1, Floors
    <3> QED
      BY <1>0, <1>3, <3>3, <3>4
  <2> QED
    BY <2>1, <2>2
<1>11. \A a \in Granted' : req'[a].granted \in Nat /\ req'[a].granted <= now
  BY <1>0, <1>4, <1>5, <1>7
<1>12. Spent'
  BY <1>3, <1>10, <1>11 DEF Spent
<1>13. ASSUME NEW a \in Granted', NEW z \in Granted', NEW s \in Nat, NEW t \in Nat,
              s = req'[a].granted, t = req'[z].granted, s <= t
       PROVE  Cardinality({q \in Granted' : req'[q].granted \in s .. t})
                 <= Burst + (t - s) \div Replenish
  <2> DEFINE window == {q \in Granted' : req'[q].granted \in s .. t}
  <2>1. s <= now /\ t <= now /\ s <= t
    BY <1>11, <1>13
  <2>2. CASE t = now
    <3>1. window = Since(s)'
      BY <2>1, <2>2, <1>11 DEF Since
    <3>2. bucket'.tokens + Cardinality(Since(s)') <= Burst + (now - s) \div Replenish
      BY <2>1, <1>10, <1>13
    <3>3. Cardinality(Since(s)') \in Nat
      BY <2>1, <1>9
    <3>4. (now - s) \div Replenish \in Nat
      <4>1. now - s \in Nat
        BY <1>0, <2>1
      <4> QED
        BY <4>1, Floors
    <3> DEFINE e == (now - s) \div Replenish
    <3> HIDE DEF e, window
    <3>5. Cardinality(window) <= Burst + e
      BY <3>1, <3>2, <3>3, <3>4, <1>3, <1>0 DEF e
    <3> QED
      BY <2>2, <3>5 DEF e, window
  <2>3. CASE t # now
    <3>1. z # r /\ a # r /\ z \in Granted /\ a \in Granted
      BY <2>1, <2>3, <1>0, <1>4, <1>5, <1>13
    <3>2. s = req[a].granted /\ t = req[z].granted
      BY <3>1, <1>5, <1>13
    <3>3. window = {q \in Granted : req[q].granted \in s .. t}
      BY <2>1, <2>3, <1>0, <1>4, <1>5
    <3> HIDE DEF window
    <3> QED
      BY <2>1, <3>1, <3>2, <3>3 DEF RateInv, RateIsFair, window
  <2> QED
    BY <2>2, <2>3
<1>14. ASSUME NEW q \in Request, req'[q].refused # None
       PROVE  \E g \in Granted' : /\ req'[g].granted <= req'[q].refused
                                  /\ req'[q].refused < req'[g].granted + Replenish
  <2>1. q # r /\ req'[q] = req[q]
    BY <1>4, <1>14
  <2>2. PICK g \in Granted : /\ req[g].granted <= req[q].refused
                             /\ req[q].refused < req[g].granted + Replenish
    BY <1>14, <2>1 DEF RateInv, RateIsFair
  <2> QED
    BY <2>1, <2>2, <1>5
<1>15. RateIsFair'
  BY <1>11, <1>13, <1>14 DEF RateIsFair
<1> QED
  BY <1>8, <1>12, <1>15 DEF RateInv

LEMMA RateInit == Init => RateInv
<1> SUFFICES ASSUME Init PROVE RateInv
  OBVIOUS
<1>1. \A r \in Request : req[r].granted = None /\ req[r].refused = None
  BY DEF Init, NoRequest
<1>2. Granted = {}
  BY <1>1 DEF Granted
<1>3. Taken
  BY <1>1, <1>2, FS_EmptySet, RateAssumption DEF Init, Taken
<1>4. Spent /\ RateIsFair
  BY <1>1, <1>2 DEF Spent, RateIsFair
<1> QED
  BY <1>3, <1>4, TypeInit DEF RateInv

LEMMA RateStep ==
    ASSUME RateInv, [Next]_vars
    PROVE  RateInv'
<1>0. TypeInv /\ TypeInv' /\ req \in [Request -> Row] /\ now \in Nat
  BY TypeStep DEF RateInv, TypeInv, RequestType, RateType
<1>1. CASE mintInvitation \/ Tick \/ UNCHANGED vars
  <2>1. Calm
    BY <1>0, <1>1 DEF mintInvitation, Tick, vars, Calm
  <2> QED
    BY <1>0, <2>1, CalmKeeps
<1>2. ASSUME NEW r \in Request, take(r) PROVE RateInv'
  <2>1. req'[r].at \in {"throttled", "admitted"}
    BY <1>0, <1>2 DEF take, Row
  <2> QED
    BY <1>0, <1>2, <2>1, RefusedStep, GrantedStep
<1>3. ASSUME NEW r \in Request, Fail(r) \/ bootstrap(r) PROVE RateInv'
  <2>1. req[r] \in Row
    BY <1>0
  <2>2. Calm
    BY <1>0, <1>3, <2>1 DEF Fail, bootstrap, ConsumeInvitation, OpenSession, Goes, Calm, Row
  <2> QED
    BY <1>0, <2>2, CalmKeeps
<1>4. ASSUME NEW r \in Request, logout(r) \/ resolvePilotSession(r) PROVE RateInv'
  <2>1. req[r] \in Row
    BY <1>0
  <2>2. CASE LogoutLooks(r) \/ LogoutRevokes(r)
    BY <1>0, <2>1, <2>2, CalmKeeps DEF LogoutLooks, LogoutRevokes, Goes, Calm, Row
  <2>3. CASE Resolves(r) \/ Rolls(r)
    <3>1. CASE Resolves(r)
      <4>1. PICK s \in Request :
               \/ req' = [req EXCEPT ![r] = [@ EXCEPT !.at = "known", !.cookie = s, !.seenAt = now,
                                                      !.before = SignedOut]]
               \/ req' = Goes(r, "denied")
        BY <3>1 DEF Resolves
      <4>2. \A q \in Request \ {r} : req'[q] = req[q]
        BY <1>0, <4>1 DEF Goes
      <4>3. req'[r].granted = req[r].granted /\ req'[r].refused = req[r].refused
            /\ req'[r].at \in {"known", "denied"}
        <5>1. CASE req' = Goes(r, "denied")
          BY <1>0, <2>1, <5>1 DEF Goes, Row
        <5>2. CASE req' # Goes(r, "denied")
          <6> DEFINE found == [req[r] EXCEPT !.at = "known", !.cookie = s, !.seenAt = now,
                                             !.before = SignedOut]
          <6>1. req'[r] = found
            BY <1>0, <4>1, <5>2
          <6> QED
            BY <2>1, <6>1 DEF Row
        <5> QED
          BY <5>1, <5>2
      <4>4. Calm
        BY <1>0, <3>1, <4>2, <4>3 DEF Calm, Resolves
      <4> QED
        BY <1>0, <4>4, CalmKeeps
    <3>2. CASE Rolls(r)
      BY <1>0, <2>1, <3>2, CalmKeeps DEF Rolls, Goes, Calm, Row
    <3> QED
      BY <2>3, <3>1, <3>2
  <2> QED
    BY <1>0, <1>4, <2>2, <2>3, SessionSteps
<1>5. ASSUME NEW r \in Request, updateProgress(r) PROVE RateInv'
  <2>1. req[r] \in Row
    BY <1>0
  <2>2. Calm
    BY <1>0, <1>5, <2>1 DEF updateProgress, At, Goes, Calm, Row
  <2> QED
    BY <1>0, <2>2, CalmKeeps
<1> QED
  BY <1>1, <1>2, <1>3, <1>4, <1>5 DEF Next

\* In no stretch of time does the limiter let in more than its burst and what was
\* replenished, and what it refuses comes within a period of what it let in
\* (take), for any number of requests.
THEOREM RateFair == Spec => []RateIsFair
<1>1. RateInv => RateIsFair
  BY DEF RateInv
<1> QED
  BY <1>1, RateInit, RateStep, PTL DEF Spec

-----------------------------------------------------------------------------
(* Reviews.  Whoever has the advisory lock, and nobody else, is about to read *)
(* or to write the schedule, and what was read under it is still so.         *)
UnderLock ==
    \A r \in Request : At(r, "review", "locked") \/ At(r, "review", "read") => advisory = r
SawTheLatest == \A r \in Request : At(r, "review", "read") => req[r].saw = progress
EachCounted == Len(reviewed.schedules) = Len(reviewed.qualities) + 1
ReviewInv == TypeInv /\ UnderLock /\ SawTheLatest /\ EachCounted /\ NoReviewLost

\* A step that commits no review, and after which whoever is at the schedule was
\* there before, keeps all of it.
LEMMA UncommittedKeeps ==
    ASSUME ReviewInv, TypeInv', UNCHANGED <<progress, reviewed>>,
           \A r \in Request : At(r, "review", "locked")' \/ At(r, "review", "read")' =>
             /\ At(r, "review", "locked") \/ At(r, "review", "read")
             /\ req'[r] = req[r] /\ advisory' = advisory
    PROVE  ReviewInv'
<1>1. UnderLock' /\ SawTheLatest'
  BY DEF ReviewInv, UnderLock, SawTheLatest, At
<1>2. EachCounted' /\ NoReviewLost'
  BY DEF ReviewInv, EachCounted, NoReviewLost
<1> QED
  BY <1>1, <1>2 DEF ReviewInv

\* A review, from the lock to the write.
LEMMA ReviewsStep ==
    ASSUME ReviewInv, TypeInv', NEW r \in Request, updateProgress(r)
    PROVE  ReviewInv'
<1>0. /\ req \in [Request -> Row] /\ req[r] \in Row /\ advisory \in Request \cup {None}
      /\ UnderLock /\ SawTheLatest /\ EachCounted /\ NoReviewLost
      /\ reviewed \in [schedules : Seq(Schedule), qualities : Seq(0..5)]
      /\ None \notin Request /\ progress' \in Schedule
  BY KindAssumption DEF ReviewInv, TypeInv, RequestType, ProgressType
<1>1. \A q \in Request \ {r} : req'[q] = req[q]
  BY StepsMove DEF ReviewInv, Others
<1>2. CASE req[r].at = "signedIn"
  <2>1. /\ advisory = None /\ advisory' = r /\ UNCHANGED <<progress, reviewed>>
        /\ req'[r].at = "locked"
    <3>1. PICK rawQuality \in Quality :
            req' = [Goes(r, "locked") EXCEPT ![r].quality = Clamp(rawQuality, 0, 5)]
      BY <1>2 DEF updateProgress, At
    <3>2. req'[r].at = "locked"
      BY <1>0, <3>1 DEF Goes, Row
    <3> QED
      BY <1>2, <3>2 DEF updateProgress, At, Lockable
  <2>2. UnderLock' /\ SawTheLatest'
    BY <1>0, <1>1, <2>1 DEF UnderLock, SawTheLatest, At
  <2> QED
    BY <1>0, <2>1, <2>2 DEF ReviewInv, EachCounted, NoReviewLost
<1>3. CASE req[r].at = "locked"
  <2>1. /\ advisory = r /\ UNCHANGED <<advisory, progress, reviewed>>
        /\ req'[r].saw = progress /\ req'[r].at = "read"
    <3>1. req' = [Goes(r, "read") EXCEPT ![r].saw = progress]
      BY <1>3 DEF updateProgress, At
    <3>2. req'[r].saw = progress /\ req'[r].at = "read"
      BY <1>0, <3>1 DEF Goes, Row
    <3> QED
      BY <1>0, <1>3, <3>2 DEF updateProgress, At, UnderLock
  <2>2. UnderLock' /\ SawTheLatest'
    BY <1>0, <1>1, <2>1 DEF UnderLock, SawTheLatest, At
  <2> QED
    BY <1>0, <2>1, <2>2 DEF ReviewInv, EachCounted, NoReviewLost
<1>4. CASE req[r].at = "read"
  <2>1. /\ progress' = sm2Update(req[r].saw, req[r].quality) /\ advisory' = None
        /\ reviewed' = [schedules |-> Append(reviewed.schedules, progress'),
                        qualities |-> Append(reviewed.qualities, req[r].quality)]
        /\ req' = [Goes(r, "ok") EXCEPT ![r].quality = 0, ![r].saw = None]
    BY <1>4 DEF updateProgress, At
  <2>2. req'[r].at = "ok" /\ advisory = r /\ req[r].saw = progress
    BY <1>0, <1>4, <2>1 DEF Goes, Row, UnderLock, SawTheLatest, updateProgress, At
  <2>3. UnderLock' /\ SawTheLatest'
    BY <1>0, <1>1, <2>2 DEF UnderLock, SawTheLatest, At
  <2> DEFINE n == Len(reviewed.qualities)
             Q == reviewed.qualities
             S == reviewed.schedules
  <2>4. Q \in Seq(0..5) /\ S \in Seq(Schedule) /\ Len(S) = n + 1 /\ n \in Nat /\ req[r].quality \in 0..5
    BY <1>0 DEF EachCounted, Row
  <2>5. /\ Len(Append(Q, req[r].quality)) = n + 1
        /\ Append(Q, req[r].quality)[n + 1] = req[r].quality
        /\ \A i \in 1..n : Append(Q, req[r].quality)[i] = Q[i]
        /\ Len(Append(S, progress')) = n + 2
        /\ Append(S, progress')[n + 2] = progress'
        /\ \A i \in 1..n + 1 : Append(S, progress')[i] = S[i]
    BY <1>0, <2>4
  <2>6. /\ progress = S[n + 1]
        /\ \A i \in 1..n : S[i + 1] = sm2Update(S[i], Q[i])
    BY <1>0 DEF NoReviewLost
  <2>7. reviewed.qualities' = Append(Q, req[r].quality) /\ reviewed.schedules' = Append(S, progress')
    BY <2>1
  <2>8. progress' = sm2Update(S[n + 1], req[r].quality)
    BY <2>1, <2>2, <2>6
  <2> HIDE DEF n, Q, S
  <2> DEFINE QQ == Append(Q, req[r].quality)
             SS == Append(S, progress')
  <2>9. Len(QQ) = n + 1 /\ Len(SS) = n + 2 /\ SS[n + 2] = progress'
    BY <2>5
  <2>10. ASSUME NEW i \in 1..n + 1 PROVE SS[i + 1] = sm2Update(SS[i], QQ[i])
    <3>1. CASE i \in 1..n
      <4>1. i + 1 \in 1..n + 1 /\ i \in 1..n + 1
        BY <2>4, <3>1
      <4> QED
        BY <2>5, <2>6, <3>1, <4>1
    <3>2. CASE i = n + 1
      BY <2>4, <2>5, <2>8, <3>2
    <3>3. i \in 1..n \/ i = n + 1
      BY <2>4
    <3> QED
      BY <3>1, <3>2, <3>3
  <2> HIDE DEF QQ, SS
  <2>11. EachCounted'
    BY <2>4, <2>7, <2>9 DEF EachCounted, QQ, SS
  <2>12. NoReviewLost'
    BY <2>4, <2>7, <2>9, <2>10 DEF NoReviewLost, QQ, SS
  <2> QED
    BY <2>3, <2>11, <2>12 DEF ReviewInv
<1> QED
  BY <1>2, <1>3, <1>4 DEF updateProgress, At

LEMMA ReviewInit == Init => ReviewInv
<1> SUFFICES ASSUME Init PROVE ReviewInv
  OBVIOUS
<1>1. UnderLock /\ SawTheLatest
  BY DEF Init, UnderLock, SawTheLatest, At, NoRequest
<1>2. EachCounted /\ NoReviewLost
  BY DEF Init, EachCounted, NoReviewLost
<1> QED
  BY <1>1, <1>2, TypeInit DEF ReviewInv

LEMMA ReviewStep ==
    ASSUME ReviewInv, [Next]_vars
    PROVE  ReviewInv'
<1>0. TypeInv /\ TypeInv' /\ req \in [Request -> Row] /\ None \notin Request
  BY TypeStep, KindAssumption DEF ReviewInv, TypeInv, RequestType
<1>1. CASE mintInvitation \/ Tick \/ UNCHANGED vars
  BY <1>0, <1>1, UncommittedKeeps DEF mintInvitation, Tick, vars, At
<1>2. ASSUME NEW r \in Request, take(r) PROVE ReviewInv'
  <2>1. req'[r].at \in {"throttled", "admitted"} /\ \A q \in Request \ {r} : req'[q] = req[q]
    BY <1>0, <1>2 DEF take, Row
  <2>2. UNCHANGED <<progress, advisory, reviewed>>
    BY <1>2 DEF take
  <2> QED
    BY <1>0, <2>1, <2>2, UncommittedKeeps DEF At
<1>3. ASSUME NEW r \in Request, Fail(r) PROVE ReviewInv'
  <2>1. req'[r].at = "denied" /\ \A q \in Request \ {r} : req'[q] = req[q]
    BY <1>0, <1>3 DEF Fail, Goes, Row
  <2>2. UNCHANGED <<progress, reviewed>> /\ (advisory' = advisory \/ advisory = r)
    BY <1>3 DEF Fail
  <2>3. ASSUME NEW q \in Request, At(q, "review", "locked")' \/ At(q, "review", "read")'
        PROVE  /\ At(q, "review", "locked") \/ At(q, "review", "read")
               /\ req'[q] = req[q] /\ advisory' = advisory
    BY <2>1, <2>2, <2>3 DEF At, ReviewInv, UnderLock
  <2> QED
    BY <1>0, <2>2, <2>3, UncommittedKeeps
<1>4. ASSUME NEW r \in Request, bootstrap(r) PROVE ReviewInv'
  <2>1. req'[r].at \in {"denied", "consumed", "ok"} /\ \A q \in Request \ {r} : req'[q] = req[q]
    BY <1>0, <1>4 DEF bootstrap, ConsumeInvitation, OpenSession, Goes, Row
  <2>2. UNCHANGED <<progress, advisory, reviewed>>
    BY <1>4 DEF bootstrap, ConsumeInvitation, OpenSession
  <2> QED
    BY <1>0, <2>1, <2>2, UncommittedKeeps DEF At
<1>5. ASSUME NEW r \in Request, logout(r) \/ resolvePilotSession(r) PROVE ReviewInv'
  <2>0. LogoutLooks(r) \/ LogoutRevokes(r) \/ Resolves(r) \/ Rolls(r)
    BY <1>0, <1>5, SessionSteps
  <2>1. UNCHANGED <<progress, advisory, reviewed>>
    BY <2>0 DEF LogoutLooks, LogoutRevokes, Resolves, Rolls
  <2>2. \A q \in Request \ {r} : req'[q] = req[q]
    BY <1>0, <2>0 DEF LogoutLooks, LogoutRevokes, Resolves, Rolls, Goes
  <2>3. req'[r].at \in {"found", "ok", "known", "denied", "signedIn"}
    <3>1. req[r] \in Row
      BY <1>0
    <3>2. CASE LogoutLooks(r)
      BY <1>0, <3>1, <3>2 DEF LogoutLooks, Goes, Row
    <3>3. CASE LogoutRevokes(r)
      BY <1>0, <3>1, <3>3 DEF LogoutRevokes, Goes, Row
    <3>4. CASE Resolves(r)
      BY <1>0, <3>1, <3>4 DEF Resolves, Goes, Row
    <3>5. CASE Rolls(r)
      BY <1>0, <3>1, <3>5 DEF Rolls, Goes, Row
    <3> QED
      BY <2>0, <3>2, <3>3, <3>4, <3>5
  <2> QED
    BY <1>0, <2>1, <2>2, <2>3, UncommittedKeeps DEF At
<1>6. ASSUME NEW r \in Request, updateProgress(r) PROVE ReviewInv'
  BY <1>0, <1>6, ReviewsStep
<1> QED
  BY <1>1, <1>2, <1>3, <1>4, <1>5, <1>6 DEF Next

\* The schedule of an ayah is what its committed reviews make of it, one after
\* the other, for any number of reviews at once: each computes from what the last
\* one wrote, since the advisory lock is taken before the read and kept to the
\* write (updateProgress).
THEOREM ReviewsKept == Spec => []NoReviewLost
<1>1. ReviewInv => NoReviewLost
  BY DEF ReviewInv
<1> QED
  BY <1>1, ReviewInit, ReviewStep, PTL DEF Spec
=============================================================================
