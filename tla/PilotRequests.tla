--------------------------- MODULE PilotRequests ---------------------------
(* A pilot learner's requests to services/node-api: the rate limiter every   *)
(* request passes (lib/rate-limit.mjs), the invitation that is exchanged for *)
(* a cookie session (routes/pilot.mjs), the session a request is resolved by *)
(* (lib/authz.mjs), and the review of an ayah that moves its schedule        *)
(* (routes/progress.mjs).                                                    *)
(*                                                                           *)
(* The requests run at once; what one does between two awaits, or in one     *)
(* statement, is a step.  All come from one client key, concern one          *)
(* invitation and one ayah, and clocks agree.  Easiness factors are in       *)
(* hundredths.                                                               *)
EXTENDS Integers, Sequences, FiniteSets

CONSTANTS Request, Kind,    \* requests, and what each asks for
          None,
          Company,          \* bound: the sets of requests that come together
          Burst,            \* BURST
          Replenish,        \* REPLENISH_MS
          Idle, Absolute,   \* how long a session lasts: idle, and at all
          MaxTtl, Ttl,      \* longest life of an invitation; those asked for
          Quality,          \* qualities a review may report
          Prior,            \* schedules the ayah may have
          Horizon           \* bound: requests are made before this time

Kinds == {"bootstrap", "logout", "review"}

ASSUME KindAssumption == /\ Kind \in [Request -> Kinds] /\ None \notin Request /\ None \notin Nat
                         /\ Company \subseteq SUBSET Request
ASSUME RateAssumption == Burst \in Nat \ {0} /\ Replenish \in Nat \ {0}
ASSUME LifeAssumption ==
  Idle \in Nat /\ Absolute \in Nat /\ Horizon \in Nat /\ MaxTtl \in Nat \ {0} /\ Ttl \subseteq Int

MinEasiness == 130
MaxInterval == 3650
Schedule == [easinessFactor : {n \in Nat : n >= MinEasiness}, intervalDays : 1..MaxInterval,
             repetitions : Nat]
ASSUME ReviewAssumption == Quality \subseteq Int /\ Prior \subseteq Schedule

VARIABLES now,
          bucket,         \* the limiter's bucket of this client
          invitation,
          session,        \* the sessions of the requests that opened one
          progress,       \* the schedule of the ayah
          advisory,       \* the request that holds the advisory lock on it
          reviewed,       \* history: the qualities committed, the schedules before and after
          req             \* each request: where it is and what it has read

vars == <<now, bucket, invitation, session, progress, advisory, reviewed, req>>

-----------------------------------------------------------------------------
NoRequest == [at |-> "new", cookie |-> None, seenAt |-> 0, granted |-> None, refused |-> None,
              quality |-> 0, saw |-> None, before |-> {}]
NoInvitation == [expires |-> None, consumed |-> FALSE, lock |-> None]
NoSession == [created |-> None, idle |-> 0, revoked |-> FALSE]

Init == /\ now = 0
        /\ bucket = [tokens |-> Burst, updatedAt |-> 0]
        /\ invitation = NoInvitation
        /\ session = [r \in Request |-> NoSession]
        /\ progress \in Prior
        /\ advisory = None
        /\ reviewed = [schedules |-> <<progress>>, qualities |-> <<>>]
        /\ \E company \in Company :
             req = [r \in Request |-> IF r \in company THEN NoRequest
                                     ELSE [NoRequest EXCEPT !.at = "absent"]]

At(r, kind, place) == Kind[r] = kind /\ req[r].at = place
Goes(r, place) == [req EXCEPT ![r].at = place]
Clamp(n, low, high) == IF n < low THEN low ELSE IF n > high THEN high ELSE n

(* A transaction rolls back and lets go of its lock.  A request that fails   *)
(* anywhere else goes no further, as any may.                                *)
Fail(r) ==
  /\ r \in {invitation.lock, advisory}
  /\ req' = [Goes(r, "denied") EXCEPT ![r].quality = 0, ![r].saw = None]
  /\ invitation' = IF invitation.lock = r THEN [invitation EXCEPT !.lock = None] ELSE invitation
  /\ advisory' = IF advisory = r THEN None ELSE advisory
  /\ UNCHANGED <<now, bucket, session, progress, reviewed>>

-----------------------------------------------------------------------------
(* take: a token for the request, after those the elapsed time has refilled. *)
UpdatedAlways(at, t) == t
UpdatedAtRefusal(at, t) == at

take(r) ==
  /\ req[r].at \in {"new", "throttled"}
  /\ LET tokens == Clamp(bucket.tokens + (now - bucket.updatedAt) \div Replenish, 0, Burst)
     IN  \/ /\ tokens < 1
            /\ bucket' = [tokens |-> tokens, updatedAt |-> UpdatedAtRefusal(bucket.updatedAt, now)]
            /\ req' = [req EXCEPT ![r].at = "throttled", ![r].refused = now]
         \/ /\ tokens >= 1
            /\ bucket' = [tokens |-> tokens - 1, updatedAt |-> now]
            /\ req' = [req EXCEPT ![r].at = "admitted", ![r].granted = now, ![r].refused = None]
  /\ UNCHANGED <<now, invitation, session, progress, advisory, reviewed>>

-----------------------------------------------------------------------------
(* POST /v1/pilot/invitations, by an admin.                                  *)
mintInvitation ==
  /\ invitation = NoInvitation
  /\ \E ttlHours \in Ttl :
       invitation' = [invitation EXCEPT !.expires = now + Clamp(ttlHours, 1, MaxTtl)]
  /\ UNCHANGED <<now, bucket, session, progress, advisory, reviewed, req>>

(* POST /v1/pilot/session/bootstrap: one transaction that consumes the       *)
(* invitation, if it still can be, and opens a session.  The UPDATE waits    *)
(* for another request that is consuming it.                                 *)
ConsumableTwice == invitation.expires # None /\ now < invitation.expires
Consumable == invitation.expires # None /\ ~invitation.consumed /\ now < invitation.expires

ConsumeInvitation(r) ==
  /\ At(r, "bootstrap", "admitted")
  /\ invitation.lock = None
  /\ \/ /\ ~Consumable
        /\ req' = Goes(r, "denied")
        /\ UNCHANGED invitation
     \/ /\ Consumable
        /\ req' = Goes(r, "consumed")
        /\ invitation' = [invitation EXCEPT !.lock = r]
  /\ UNCHANGED <<now, bucket, session, progress, advisory, reviewed>>

OpenSession(r) ==
  /\ At(r, "bootstrap", "consumed")
  /\ session' = [session EXCEPT ![r] = [created |-> now, idle |-> now + Idle, revoked |-> FALSE]]
  /\ invitation' = [invitation EXCEPT !.consumed = TRUE, !.lock = None]
  /\ req' = Goes(r, "ok")
  /\ UNCHANGED <<now, bucket, progress, advisory, reviewed>>

bootstrap(r) == ConsumeInvitation(r) \/ OpenSession(r)

-----------------------------------------------------------------------------
(* app.get_pilot_session_by_hash: the row of a cookie, if it has one that is *)
(* neither revoked nor past its absolute end.                                *)
Live(s) == /\ session[s].created # None
           /\ ~session[s].revoked
           /\ now < session[s].created + Absolute

(* POST /v1/pilot/session/logout                                             *)
ExpiredAtLogout(s) == [s EXCEPT !.idle = now - 1]
RevokedAtLogout(s) == [s EXCEPT !.revoked = TRUE]

logout(r) ==
  \/ /\ At(r, "logout", "admitted")
     /\ \E s \in Request : req' = IF Live(s) THEN [Goes(r, "found") EXCEPT ![r].cookie = s]
                                  ELSE Goes(r, "ok")
     /\ UNCHANGED <<now, bucket, invitation, session, progress, advisory, reviewed>>
  \/ /\ At(r, "logout", "found")
     /\ session' = [session EXCEPT ![req[r].cookie] = RevokedAtLogout(@)]
     /\ req' = Goes(r, "ok")
     /\ UNCHANGED <<now, bucket, invitation, progress, advisory, reviewed>>

(* resolvePilotSession: look the cookie up, and roll the idle end forward.   *)
SignedOut == {l \in Request : At(l, "logout", "ok")}
Authentic(s) == Live(s) /\ now <= session[s].idle

resolvePilotSession(r) ==
  \/ /\ At(r, "review", "admitted")
     /\ \E s \in Request :
          req' = IF Authentic(s)
                 THEN [req EXCEPT ![r] = [@ EXCEPT !.at = "known", !.cookie = s, !.seenAt = now,
                                                   !.before = SignedOut]]
                 ELSE Goes(r, "denied")
     /\ UNCHANGED <<now, bucket, invitation, session, progress, advisory, reviewed>>
  \/ /\ At(r, "review", "known")
     /\ session' = [session EXCEPT ![req[r].cookie].idle = req[r].seenAt + Idle]
     /\ req' = Goes(r, "signedIn")
     /\ UNCHANGED <<now, bucket, invitation, progress, advisory, reviewed>>

-----------------------------------------------------------------------------
(* POST /v1/learner/progress: under an advisory lock, which a first review   *)
(* finds as well, read the schedule, compute the next and write it.          *)
Uncapped(days) == days
Capped(days) == IF days > MaxInterval THEN MaxInterval ELSE days

sm2Update(state, q) ==
  IF q < 3 THEN [state EXCEPT !.intervalDays = 1, !.repetitions = 0]
  ELSE LET repetitions == state.repetitions + 1
           easier == state.easinessFactor + 10 - (5 - q) * (8 + (5 - q) * 2)
           days == (state.intervalDays * state.easinessFactor + 50) \div 100
       IN  [repetitions |-> repetitions,
            intervalDays |-> CASE repetitions = 1 -> 1 [] repetitions = 2 -> 6
                               [] OTHER -> Capped(days),
            easinessFactor |-> IF easier < MinEasiness THEN MinEasiness ELSE easier]

Unlocked == TRUE
Lockable == advisory = None

updateProgress(r) ==
  \/ /\ At(r, "review", "signedIn")
     /\ Lockable
     /\ advisory' = r
     /\ \E rawQuality \in Quality :
          req' = [Goes(r, "locked") EXCEPT ![r].quality = Clamp(rawQuality, 0, 5)]
     /\ UNCHANGED <<now, bucket, invitation, session, progress, reviewed>>
  \/ /\ At(r, "review", "locked")
     /\ req' = [Goes(r, "read") EXCEPT ![r].saw = progress]
     /\ UNCHANGED <<now, bucket, invitation, session, progress, advisory, reviewed>>
  \/ /\ At(r, "review", "read")
     /\ progress' = sm2Update(req[r].saw, req[r].quality)
     /\ advisory' = None
     /\ reviewed' = [schedules |-> Append(reviewed.schedules, progress'),
                     qualities |-> Append(reviewed.qualities, req[r].quality)]
     /\ req' = [Goes(r, "ok") EXCEPT ![r].quality = 0, ![r].saw = None]
     /\ UNCHANGED <<now, bucket, invitation, session>>

-----------------------------------------------------------------------------
Tick == /\ now < Horizon
        /\ now' = now + 1
        /\ UNCHANGED <<bucket, invitation, session, progress, advisory, reviewed, req>>

Next == \/ mintInvitation \/ Tick
        \/ \E r \in Request : \/ take(r) \/ Fail(r)
                              \/ bootstrap(r) \/ logout(r)
                              \/ resolvePilotSession(r) \/ updateProgress(r)

Spec == Init /\ [][Next]_vars

-----------------------------------------------------------------------------
Places == {"absent", "new", "throttled", "admitted", "consumed", "found", "known", "signedIn",
           "locked", "read", "ok", "denied"}
Time == Nat \cup {None}

TypeOK ==
  /\ now \in Nat
  /\ bucket \in [tokens : 0..Burst, updatedAt : 0..now]
  /\ invitation \in [expires : Time, consumed : BOOLEAN, lock : Request \cup {None}]
  /\ session \in [Request -> [created : Time, idle : Nat, revoked : BOOLEAN]]
  /\ progress \in Schedule
  /\ advisory \in Request \cup {None}
  /\ reviewed \in [schedules : Seq(Schedule), qualities : Seq(0..5)]
  /\ req \in [Request -> [at : Places, cookie : Request \cup {None}, seenAt : Nat, granted : Time,
                          refused : Time, quality : 0..5, saw : Schedule \cup {None},
                          before : SUBSET Request]]

(* An invitation opens one session, however many exchange it at once or      *)
(* after a failure; and a review comes in on a session that, when it looked, *)
(* no logout had ended, was younger than its absolute life, and had been     *)
(* opened or used within the idle time: a request that rolls the idle end    *)
(* forward while another signs out brings nothing back.                      *)
SignedIn(r) == Kind[r] = "review" /\ req[r].cookie # None
OnlyTheInvited ==
  /\ \A b, c \in Request : session[b].created # None /\ session[c].created # None => b = c
  /\ \A r \in Request : SignedIn(r) =>
       LET s == session[req[r].cookie]
           used == {s.created} \cup {req[q].seenAt : q \in {p \in Request \ {r} :
                                       SignedIn(p) /\ req[p].cookie = req[r].cookie}}
       IN  /\ \A l \in req[r].before : req[l].cookie # req[r].cookie
           /\ req[r].seenAt < s.created + Absolute
           /\ \E t \in used : t <= req[r].seenAt /\ req[r].seenAt <= t + Idle

(* The schedule of an ayah is what its committed reviews, one after the      *)
(* other, make of it: no review overwrites another it has not seen.          *)
NoReviewLost ==
  /\ progress = reviewed.schedules[Len(reviewed.qualities) + 1]
  /\ \A i \in 1..Len(reviewed.qualities) :
       reviewed.schedules[i + 1] = sm2Update(reviewed.schedules[i], reviewed.qualities[i])

(* The limiter lets in no more than its burst and a request per replenish    *)
(* period in any stretch of time, and refuses only within a period of a      *)
(* request it let in: being refused does not put off the next token.         *)
Granted == {r \in Request : req[r].granted # None}
RateIsFair ==
  /\ \A a, z \in Granted : req[a].granted <= req[z].granted =>
       Cardinality({r \in Granted : req[r].granted \in req[a].granted..req[z].granted})
         <= Burst + (req[z].granted - req[a].granted) \div Replenish
  /\ \A r \in Request : req[r].refused # None =>
       \E g \in Granted : /\ req[g].granted <= req[r].refused
                          /\ req[r].refused < req[g].granted + Replenish
=============================================================================
