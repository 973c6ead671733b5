-------------------------- MODULE WebClient_proofs --------------------------
(* The web client, for any number of practices, microphones, captures,       *)
(* players, findings and calls: a page that is open does what its module     *)
(* says, and keeps what its module promises.                                 *)
(*                                                                           *)
(* Each page has an inductive invariant, with one lemma for each of its      *)
(* handlers; ReconnectClient_proofs has that of the upload.                  *)
EXTENDS WebClient, Integers, ReconnectClient_proofs, FiniteSetTheorems, TLAPS

(* A screen counts as everyone does.                                         *)
LEMMA SameCount == \A S : /\ M!Cardinality(S) = Cardinality(S)
                         /\ C!Cardinality(S) = Cardinality(S)
                         /\ R!Cardinality(S) = Cardinality(S)
BY DEF M!Cardinality, C!Cardinality, R!Cardinality, Cardinality

-----------------------------------------------------------------------------
(* The learner's practice.  Whoever practises has begun to.                  *)
Underway ==
  /\ mode # "home" => practice > 0
  /\ practice = 0 => saveState = "idle" /\ sendState = "idle"
  /\ analysis.at # "idle" => analysis.of \in P!Practice

(* A review is under way, or was recorded, once for a practice, and only     *)
(* after its last step was reached (completedSave).                          *)
Unreviewed(p) == reviews[p] = <<>> /\ \A s \in saves : s.for # p
ReviewedOnce ==
  /\ \A p \in P!Practice : p > practice => Unreviewed(p)
  /\ mode # "home" /\ ~completedSave => Unreviewed(practice)
  /\ \A s \in saves : reviews[s.for] = <<>>
  /\ \A s, t \in saves : s.for = t.for => s = t

(* In a practice that did not begin too early everything under way is its    *)
(* own, and what was recited in it was when its session had its name.        *)
OwnOnly ==
  practice \notin unsettled =>
    /\ results \in {P!None, practice}
    /\ analysis.at # "idle" => analysis.of = practice
    /\ \A s \in saves : s.for = practice /\ s.of = practice
    /\ \A s \in sends : s.session \in {practice, -practice}
    /\ creates \subseteq {practice}
    /\ creates = {} /\ practice > 0 => sessionId \in {practice, -practice}
    /\ analysis.at # "idle" \/ results # P!None => creates = {}

(* So it is for what goes to the server's sessions.                          *)
RecitedIn(call) == call.session \in P!Practice => call.of \in {call.session} \union unsettled
SentToOwn ==
  /\ analysis.at # "idle" => RecitedIn(analysis)
  /\ \A p \in persists : RecitedIn(p)

PracticeInv ==
  /\ P!TypeOK /\ Underway /\ ReviewedOnce /\ OwnOnly /\ SentToOwn
  /\ P!OneReviewPerPractice /\ P!ClaimsAreTrue /\ P!RecordsAreOwn

LEMMA PracticeInit == P!Init => PracticeInv
<1> SUFFICES ASSUME P!Init PROVE PracticeInv
  OBVIOUS
<1>1. P!TypeOK
  <2>1. reviews \in [P!Practice -> Seq(P!Practice)] /\ stored \in [P!Practice -> P!Practice \union {P!None}]
    <3>1. <<>> \in Seq(P!Practice) OBVIOUS
    <3> QED BY <3>1 DEF P!Init
  <2>2. /\ analysis \in [at : {"idle", "aligning", "timing", "tajweed"},
                         of : P!Practice \union {P!None}, session : P!SessionName]
        /\ sessionId \in P!SessionName
    BY BoundsAssumption DEF P!Init, P!Idle, P!None, P!SessionName
  <2>3. practice \in 0 .. MaxPractices /\ begun \in 0 .. MaxCalls
    BY BoundsAssumption DEF P!Init
  <2> QED BY <2>1, <2>2, <2>3 DEF P!Init, P!TypeOK
<1>2. Underway /\ ReviewedOnce /\ OwnOnly /\ SentToOwn
  BY DEF P!Init, P!Idle, P!None, Underway, ReviewedOnce, Unreviewed, OwnOnly, SentToOwn, P!Practice
<1>3. P!OneReviewPerPractice /\ P!ClaimsAreTrue /\ P!RecordsAreOwn
  BY DEF P!Init, P!OneReviewPerPractice, P!ClaimsAreTrue, P!RecordsAreOwn
<1> QED BY <1>1, <1>2, <1>3 DEF PracticeInv

(* What is said of the server, and of what is on its way to it.              *)
LEMMA Numbers ==
  ASSUME P!TypeOK
  PROVE  /\ practice \in 0 .. MaxPractices /\ begun \in 0 .. MaxCalls
         /\ MaxPractices \in Nat /\ MaxCalls \in Nat
         /\ practice > 0 => practice \in P!Practice
         /\ P!None \notin P!Practice
         /\ practice > 0 => practice # P!None
         /\ \A p \in P!Practice : -p \notin P!Practice /\ -p \in P!SessionName /\ p \in P!SessionName
BY BoundsAssumption DEF P!TypeOK, P!Practice, P!None, P!SessionName

LEMMA StartPracticeInv == ASSUME PracticeInv, P!startPractice PROVE PracticeInv'
<1>1. /\ mode = "home" /\ practice < MaxPractices /\ mode' = "listen" /\ saveState' = "idle"
      /\ completedSave' = FALSE /\ practice' = practice + 1 /\ creates' = creates \union {practice'}
      /\ unsettled' = IF P!Pending THEN unsettled \union {practice'} ELSE unsettled
      /\ UNCHANGED <<sessionId, results, isLoading, sendState, analysis, persists, saves, sends,
                     stored, reviews, sent, begun>>
  BY DEF P!startPractice, P!server
<1>2. /\ P!TypeOK /\ Underway /\ ReviewedOnce /\ OwnOnly /\ SentToOwn
      /\ P!OneReviewPerPractice /\ P!ClaimsAreTrue /\ P!RecordsAreOwn
  BY DEF PracticeInv
<1>3. practice' \in P!Practice /\ practice' > 0 /\ practice' > practice
  BY <1>1, <1>2, Numbers DEF P!Practice
<1>4. P!TypeOK'
  <2>1. creates' \subseteq P!Practice /\ unsettled' \subseteq P!Practice /\ practice' \in 0 .. MaxPractices
    BY <1>1, <1>2, <1>3 DEF P!TypeOK, P!Practice
  <2>2. mode' \in P!StepIds \union {"home"} BY <1>1, StepsAssumption
  <2> QED BY <1>1, <1>2, <2>1, <2>2 DEF P!TypeOK
<1>5. Underway' BY <1>1, <1>2, <1>3 DEF Underway
<1>6. ReviewedOnce'
  <2>1. Unreviewed(practice') BY <1>2, <1>3 DEF ReviewedOnce
  <2>2. \A p \in P!Practice : p > practice' => p > practice BY <1>1, <1>2, Numbers DEF P!Practice
  <2>3. \A p \in P!Practice : Unreviewed(p) => Unreviewed(p)' BY <1>1 DEF Unreviewed
  <2>4. Unreviewed(practice)' BY <1>1, <2>1 DEF Unreviewed
  <2>5. \A p \in P!Practice : p > practice' => Unreviewed(p)' BY <1>2, <2>2, <2>3 DEF ReviewedOnce
  <2> QED BY <1>1, <1>2, <2>4, <2>5 DEF ReviewedOnce
<1>7. ASSUME practice' \notin unsettled' PROVE ~P!Pending /\ sendState' = "idle"
  BY <1>1, <1>7 DEF P!Pending
<1>8. OwnOnly'
  <2> SUFFICES ASSUME practice' \notin unsettled'
               PROVE /\ results' = P!None /\ analysis'.at = "idle" /\ saves' = {} /\ sends' = {}
                     /\ creates' = {practice'}
    BY DEF OwnOnly
  <2> QED BY <1>1, <1>7 DEF P!Pending
<1>9. unsettled \subseteq unsettled' BY <1>1
<1>10. SentToOwn' BY <1>1, <1>2, <1>9 DEF SentToOwn, RecitedIn
<1>11. P!OneReviewPerPractice' BY <1>1, <1>2 DEF P!OneReviewPerPractice
<1>12. P!ClaimsAreTrue' BY <1>1, <1>7 DEF P!ClaimsAreTrue
<1>13. P!RecordsAreOwn' BY <1>1, <1>2, <1>9 DEF P!RecordsAreOwn
<1> QED BY <1>4, <1>5, <1>6, <1>8, <1>10, <1>11, <1>12, <1>13 DEF PracticeInv

LEMMA CreatedInv ==
  ASSUME PracticeInv, NEW p \in creates, P!createRecitationSession(p)
  PROVE  PracticeInv'
<1>1. /\ creates' = creates \ {p} /\ sessionId' \in {p, -p}
      /\ UNCHANGED <<mode, results, isLoading, saveState, sendState, completedSave, practice,
                     analysis, persists, saves, sends, stored, reviews, sent, begun, unsettled>>
  BY DEF P!createRecitationSession, P!OfflineName, P!server
<1>2. /\ P!TypeOK /\ Underway /\ ReviewedOnce /\ OwnOnly /\ SentToOwn
      /\ P!OneReviewPerPractice /\ P!ClaimsAreTrue /\ P!RecordsAreOwn
      /\ p \in P!Practice
  BY DEF PracticeInv, P!TypeOK
<1>3. P!TypeOK'
  <2>1. sessionId' \in P!SessionName BY <1>1, <1>2, Numbers
  <2> QED BY <1>1, <1>2, <2>1 DEF P!TypeOK
<1>4. OwnOnly'
  <2> SUFFICES ASSUME practice' \notin unsettled' PROVE
         /\ results' \in {P!None, practice'}
         /\ analysis'.at # "idle" => analysis'.of = practice'
         /\ \A s \in saves' : s.for = practice' /\ s.of = practice'
         /\ \A s \in sends' : s.session \in {practice', -practice'}
         /\ creates' \subseteq {practice'}
         /\ creates' = {} /\ practice' > 0 => sessionId' \in {practice', -practice'}
         /\ analysis'.at # "idle" \/ results' # P!None => creates' = {}
    BY DEF OwnOnly
  <2>1. p = practice BY <1>1, <1>2 DEF OwnOnly
  <2> QED BY <1>1, <1>2, <2>1 DEF OwnOnly
<1> QED BY <1>1, <1>2, <1>3, <1>4
        DEF PracticeInv, Underway, ReviewedOnce, Unreviewed, SentToOwn, RecitedIn,
            P!OneReviewPerPractice, P!ClaimsAreTrue, P!RecordsAreOwn

(* Reaching the last step: what the learner's screen saves of it.            *)
LEMMA CompletionSaves ==
  ASSUME PracticeInv, mode # "home",
         P!triggerCompletionSave \/ UNCHANGED <<completedSave, saveState, saves>>
  PROVE  /\ completedSave' \in BOOLEAN
         /\ \/ saves' = saves /\ saveState' \in {saveState, "nothing-recited"}
               /\ (completedSave => completedSave')
            \/ /\ ~completedSave /\ completedSave' /\ results # P!None /\ saveState' = saveState
               /\ saves' = saves \union {[for |-> practice, of |-> results]}
BY DEF P!triggerCompletionSave, P!saveProgressFromPractice, P!FirstSave, PracticeInv, P!TypeOK

(* A step of the practice, to any of its steps but home.                     *)
LEMMA StepTakenInv ==
  ASSUME PracticeInv, mode # "home", mode' \in P!StepIds,
         P!triggerCompletionSave \/ UNCHANGED <<completedSave, saveState, saves>>,
         UNCHANGED <<sessionId, results, isLoading, sendState, practice, creates, analysis,
                     persists, sends, stored, reviews, sent, begun, unsettled>>
  PROVE  PracticeInv'
<1>1. /\ completedSave' \in BOOLEAN
      /\ \/ saves' = saves /\ saveState' \in {saveState, "nothing-recited"}
            /\ (completedSave => completedSave')
         \/ /\ ~completedSave /\ completedSave' /\ results # P!None /\ saveState' = saveState
            /\ saves' = saves \union {[for |-> practice, of |-> results]}
  BY CompletionSaves
<1>2. /\ P!TypeOK /\ Underway /\ ReviewedOnce /\ OwnOnly /\ SentToOwn
      /\ P!OneReviewPerPractice /\ P!ClaimsAreTrue /\ P!RecordsAreOwn
      /\ practice > 0 /\ practice \in P!Practice
  BY Numbers DEF PracticeInv, Underway
<1>3. P!TypeOK'
  <2>1. saves' \subseteq [for : P!Practice, of : P!Practice]
    <3>1. results # P!None => results \in P!Practice BY <1>2 DEF P!TypeOK
    <3>2. saves \subseteq [for : P!Practice, of : P!Practice] BY <1>2 DEF P!TypeOK
    <3> QED BY <1>1, <1>2, <3>1, <3>2
  <2>2. saveState' \in {"idle", "saved", "nothing-recited", "failed"} BY <1>1, <1>2 DEF P!TypeOK
  <2> QED BY <1>1, <1>2, <2>1, <2>2 DEF P!TypeOK
<1>4. Underway' BY <1>2 DEF Underway
<1>5. CASE saves' = saves /\ saveState' \in {saveState, "nothing-recited"} /\ (completedSave => completedSave')
  <2>1. ReviewedOnce' BY <1>2, <1>5 DEF ReviewedOnce, Unreviewed
  <2>2. OwnOnly' BY <1>2, <1>5 DEF OwnOnly
  <2>3. P!ClaimsAreTrue' BY <1>2, <1>5 DEF P!ClaimsAreTrue
  <2> QED BY <1>2, <1>3, <1>4, <2>1, <2>2, <2>3
          DEF PracticeInv, SentToOwn, RecitedIn, P!OneReviewPerPractice, P!RecordsAreOwn
<1>6. CASE /\ ~completedSave /\ completedSave' /\ results # P!None /\ saveState' = saveState
           /\ saves' = saves \union {[for |-> practice, of |-> results]}
  <2> DEFINE new == [for |-> practice, of |-> results]
  <2>1. new.for = practice /\ new.of = results OBVIOUS
  <2>2. Unreviewed(practice) BY <1>2, <1>6 DEF ReviewedOnce
  <2> HIDE DEF new
  <2>3. ReviewedOnce'
    <3>1. \A p \in P!Practice : p > practice => p # practice BY <1>2 DEF P!Practice
    <3>2. \A p \in P!Practice : p > practice' => Unreviewed(p)'
      BY <1>2, <1>6, <2>1, <3>1 DEF new, ReviewedOnce, Unreviewed
    <3>3. \A s \in saves' : reviews'[s.for] = <<>>
      BY <1>2, <1>6, <2>1, <2>2 DEF new, ReviewedOnce, Unreviewed
    <3>4. \A s, t \in saves' : s.for = t.for => s = t
      <4>1. saves' = saves \union {new} BY <1>6 DEF new
      <4>2. \A s \in saves : s.for # new.for BY <2>1, <2>2 DEF Unreviewed
      <4> QED BY <1>2, <4>1, <4>2 DEF ReviewedOnce
    <3> QED BY <1>6, <3>2, <3>3, <3>4 DEF ReviewedOnce
  <2>4. OwnOnly'
    <3>1. ASSUME practice \notin unsettled PROVE \A s \in saves' : s.for = practice /\ s.of = practice
      BY <1>2, <1>6, <2>1, <3>1 DEF new, OwnOnly
    <3> QED BY <1>2, <1>6, <3>1 DEF OwnOnly
  <2>5. P!ClaimsAreTrue' BY <1>2, <1>6 DEF P!ClaimsAreTrue
  <2> QED BY <1>2, <1>3, <1>4, <2>3, <2>4, <2>5
          DEF PracticeInv, SentToOwn, RecitedIn, P!OneReviewPerPractice, P!RecordsAreOwn
<1> QED BY <1>1, <1>5, <1>6

LEMMA SavedInv ==
  ASSUME PracticeInv, NEW s \in saves, P!updateLearnerProgress(s)
  PROVE  PracticeInv'
<1>1. /\ saves' = saves \ {s}
      /\ \/ /\ reviews' = [reviews EXCEPT ![s.for] = Append(@, s.of)]
            /\ saveState' \in {"saved", "failed"}
         \/ saveState' = "failed" /\ reviews' = reviews
      /\ UNCHANGED <<mode, sessionId, results, isLoading, sendState, completedSave, practice,
                     creates, analysis, persists, sends, stored, sent, begun, unsettled>>
  BY DEF P!updateLearnerProgress, P!Failed
<1>2. /\ P!TypeOK /\ Underway /\ ReviewedOnce /\ OwnOnly /\ SentToOwn
      /\ P!OneReviewPerPractice /\ P!ClaimsAreTrue /\ P!RecordsAreOwn
      /\ s \in [for : P!Practice, of : P!Practice] /\ reviews[s.for] = <<>>
      /\ reviews \in [P!Practice -> Seq(P!Practice)]
  BY DEF PracticeInv, P!TypeOK, ReviewedOnce
<1>3. Append(<<>>, s.of) = <<s.of>> /\ <<s.of>> \in Seq(P!Practice) /\ Len(<<s.of>>) = 1
  BY <1>2
<1>4. \/ reviews' = [reviews EXCEPT ![s.for] = <<s.of>>] /\ saveState' \in {"saved", "failed"}
      \/ reviews' = reviews /\ saveState' = "failed"
  BY <1>1, <1>2, <1>3
<1>5. /\ \A p \in P!Practice : p # s.for => reviews'[p] = reviews[p]
      /\ saveState' = "saved" => reviews'[s.for] = <<s.of>>
      /\ reviews'[s.for] = <<s.of>> \/ reviews'[s.for] = <<>>
  BY <1>2, <1>4
<1>6. P!TypeOK'
  <2>1. reviews' \in [P!Practice -> Seq(P!Practice)] BY <1>2, <1>3, <1>4
  <2>2. saveState' \in {"idle", "saved", "nothing-recited", "failed"} BY <1>4
  <2> QED BY <1>1, <1>2, <2>1, <2>2 DEF P!TypeOK
<1>7. ReviewedOnce'
  <2>1. \A p \in P!Practice : Unreviewed(p) => p # s.for /\ Unreviewed(p)'
    BY <1>1, <1>5 DEF Unreviewed
  <2>2. \A t \in saves' : t \in saves /\ t.for # s.for
    BY <1>1, <1>2 DEF ReviewedOnce
  <2>3. \A t \in saves' : t.for \in P!Practice BY <2>2, <1>2 DEF P!TypeOK
  <2>4. \A t \in saves' : reviews'[t.for] = <<>>
    BY <1>2, <1>5, <2>2, <2>3 DEF ReviewedOnce
  <2>5. mode # "home" /\ ~completedSave => Unreviewed(practice)'
    BY <1>1, <1>2, <2>1, Numbers DEF ReviewedOnce, Underway
  <2>7. \A t, u \in saves' : t.for = u.for => t = u BY <1>2, <2>2 DEF ReviewedOnce
  <2>8. \A p \in P!Practice : p > practice' => Unreviewed(p)' BY <1>1, <1>2, <2>1 DEF ReviewedOnce
  <2> QED BY <1>1, <2>4, <2>5, <2>7, <2>8 DEF ReviewedOnce, Unreviewed
<1>8. OwnOnly' BY <1>1, <1>2 DEF OwnOnly
<1>9. P!OneReviewPerPractice'
  <2>1. ASSUME NEW p \in P!Practice PROVE Len(reviews'[p]) <= 1
    <3>1. Len(<<>>) = 0 OBVIOUS
    <3>2. CASE p = s.for
      <4>1. CASE reviews'[s.for] = <<>> BY <3>1, <3>2, <4>1
      <4>2. CASE reviews'[s.for] = <<s.of>>
        <5>1. Len(reviews'[p]) = Len(<<s.of>>) BY <3>2, <4>2
        <5> QED BY ONLY <1>3, <5>1
      <4> QED BY <1>5, <4>1, <4>2
    <3>3. CASE p # s.for BY <1>2, <1>5, <3>3 DEF P!OneReviewPerPractice
    <3> QED BY <3>2, <3>3
  <2> QED BY <2>1 DEF P!OneReviewPerPractice
<1>10. P!ClaimsAreTrue'
  <2> SUFFICES ASSUME practice' \notin unsettled'
               PROVE  /\ saveState' = "saved" => reviews'[practice'] = <<practice'>>
                      /\ sendState' = "sent" => practice' \in sent'
    BY DEF P!ClaimsAreTrue
  <2>1. s.for = practice /\ s.of = practice BY <1>1, <1>2 DEF OwnOnly
  <2> QED BY <1>1, <1>2, <1>5, <2>1 DEF P!ClaimsAreTrue
<1>11. Underway'
  <2>1. ~Unreviewed(s.for) BY DEF Unreviewed
  <2>2. s.for \in P!Practice BY <1>2
  <2>3. ~(s.for > practice) BY <1>2, <2>1, <2>2 DEF ReviewedOnce
  <2>4. practice # 0 BY <2>2, <2>3 DEF P!Practice
  <2> QED BY <1>1, <1>2, <2>4 DEF Underway
<1> QED BY <1>1, <1>2, <1>6, <1>7, <1>8, <1>9, <1>10, <1>11
        DEF PracticeInv, SentToOwn, RecitedIn, P!RecordsAreOwn

LEMMA ResetInv == ASSUME PracticeInv, P!resetPractice PROVE PracticeInv'
<1>1. /\ mode # "home" /\ mode' = "home" /\ results' = P!None /\ sendState' = "idle"
      /\ saveState' = "idle" /\ completedSave' = FALSE
      /\ UNCHANGED <<sessionId, isLoading, practice, creates, analysis, persists, saves, sends,
                     stored, reviews, sent, begun, unsettled>>
  BY DEF P!resetPractice, P!calls, P!server
<1>2. /\ P!TypeOK /\ Underway /\ ReviewedOnce /\ OwnOnly /\ SentToOwn
      /\ P!OneReviewPerPractice /\ P!ClaimsAreTrue /\ P!RecordsAreOwn
  BY DEF PracticeInv
<1>3. P!TypeOK' BY <1>1, <1>2 DEF P!TypeOK
<1>4. Underway' BY <1>1, <1>2 DEF Underway
<1>5. ReviewedOnce' BY <1>1, <1>2 DEF ReviewedOnce, Unreviewed
<1>6. OwnOnly' BY <1>1, <1>2 DEF OwnOnly
<1>7. P!ClaimsAreTrue' BY <1>1 DEF P!ClaimsAreTrue
<1> QED BY <1>1, <1>2, <1>3, <1>4, <1>5, <1>6, <1>7
        DEF PracticeInv, SentToOwn, RecitedIn, P!OneReviewPerPractice, P!RecordsAreOwn

LEMMA SendToTeacherInv == ASSUME PracticeInv, P!sendToTeacher PROVE PracticeInv'
<1>1. /\ mode = "correction" /\ mode' = "drill" /\ begun < MaxCalls /\ begun' = begun + 1
      /\ \/ sendState' = "nothing-to-send" /\ sends' = sends
         \/ /\ sessionId # P!None /\ results # P!None /\ sendState' = sendState
            /\ sends' = sends \union {[for |-> practice, session |-> sessionId]}
      /\ UNCHANGED <<sessionId, results, isLoading, saveState, completedSave, practice, creates,
                     analysis, persists, saves, stored, reviews, sent, unsettled>>
  BY DEF P!sendToTeacher, P!server
<1>2. /\ P!TypeOK /\ Underway /\ ReviewedOnce /\ OwnOnly /\ SentToOwn
      /\ P!OneReviewPerPractice /\ P!ClaimsAreTrue /\ P!RecordsAreOwn
  BY DEF PracticeInv
<1>3. "correction" \in P!StepIds /\ "drill" \in P!StepIds /\ mode # "home"
  BY <1>1, StepsAssumption
<1>4. practice > 0 /\ practice \in P!Practice BY <1>2, <1>3, Numbers DEF Underway
<1>5. P!TypeOK'
  <2>1. begun' \in 0 .. MaxCalls BY <1>1, <1>2, Numbers
  <2>2. sends' \subseteq [for : P!Practice, session : P!SessionName \ {P!None}]
    <3>1. sends \subseteq [for : P!Practice, session : P!SessionName \ {P!None}] /\ sessionId \in P!SessionName
      BY <1>2 DEF P!TypeOK
    <3> QED BY <1>1, <1>4, <3>1
  <2>3. sendState' \in {"idle", "sent", "failed", "nothing-to-send"} BY <1>1, <1>2 DEF P!TypeOK
  <2> QED BY <1>1, <1>2, <1>3, <2>1, <2>2, <2>3 DEF P!TypeOK
<1>6. Underway' BY <1>1, <1>2, <1>4 DEF Underway
<1>7. ReviewedOnce' BY <1>1, <1>2, <1>3 DEF ReviewedOnce, Unreviewed
<1>8. OwnOnly'
  <2>1. ASSUME practice \notin unsettled PROVE \A s \in sends' : s.session \in {practice, -practice}
    <3> DEFINE new == [for |-> practice, session |-> sessionId]
    <3>1. new.session = sessionId OBVIOUS
    <3> HIDE DEF new
    <3>2. results # P!None => sessionId \in {practice, -practice} BY <1>2, <1>4, <2>1 DEF OwnOnly
    <3>3. sends' = sends \/ (sends' = sends \union {new} /\ results # P!None) BY <1>1 DEF new
    <3> QED BY <1>2, <2>1, <3>1, <3>2, <3>3 DEF OwnOnly
  <2> QED BY <1>1, <1>2, <2>1 DEF OwnOnly
<1>9. P!ClaimsAreTrue' BY <1>1, <1>2 DEF P!ClaimsAreTrue
<1> QED BY <1>1, <1>2, <1>5, <1>6, <1>7, <1>8, <1>9
        DEF PracticeInv, SentToOwn, RecitedIn, P!OneReviewPerPractice, P!RecordsAreOwn

LEMMA SentInv ==
  ASSUME PracticeInv, NEW s \in sends, P!requestTeacherReview(s)
  PROVE  PracticeInv'
<1>1. /\ sends' = sends \ {s}
      /\ \/ /\ s.session \in P!Practice /\ sent' = sent \union ({s.session} \intersect P!Practice)
            /\ sendState' = "sent"
         \/ sendState' = "failed" /\ sent' = sent
      /\ UNCHANGED <<mode, sessionId, results, isLoading, saveState, completedSave, practice,
                     creates, analysis, persists, saves, stored, reviews, begun, unsettled>>
  BY DEF P!requestTeacherReview, P!Confirmed
<1>2. /\ P!TypeOK /\ Underway /\ ReviewedOnce /\ OwnOnly /\ SentToOwn
      /\ P!OneReviewPerPractice /\ P!ClaimsAreTrue /\ P!RecordsAreOwn
      /\ s \in [for : P!Practice, session : P!SessionName \ {P!None}]
  BY DEF PracticeInv, P!TypeOK
<1>3. P!TypeOK' BY <1>1, <1>2 DEF P!TypeOK
<1>4. practice > 0
  <2>1. unsettled \subseteq P!Practice /\ practice \in 0 .. MaxPractices BY <1>2 DEF P!TypeOK
  <2>2. CASE practice = 0
    <3>1. practice \notin unsettled BY <2>1, <2>2 DEF P!Practice
    <3>2. s.session \in {practice, -practice} BY <1>2, <3>1 DEF OwnOnly
    <3> QED BY <1>2, <2>2, <3>2 DEF P!None
  <2> QED BY <2>1, <2>2, Numbers, <1>2
<1>5. Underway' BY <1>1, <1>2, <1>4 DEF Underway
<1>6. ReviewedOnce' BY <1>1, <1>2 DEF ReviewedOnce, Unreviewed
<1>7. OwnOnly' BY <1>1, <1>2 DEF OwnOnly
<1>8. P!ClaimsAreTrue'
  <2>1. ASSUME practice \notin unsettled, sendState' = "sent" PROVE practice \in sent'
    <3>1. s.session \in P!Practice /\ s.session \in sent' BY <1>1, <2>1
    <3>2. s.session \in {practice, -practice} BY <1>2, <2>1 DEF OwnOnly
    <3>3. practice \in P!Practice /\ -practice \notin P!Practice BY <1>2, <1>4, Numbers
    <3> QED BY <3>1, <3>2, <3>3
  <2> QED BY <1>1, <1>2, <2>1 DEF P!ClaimsAreTrue
<1> QED BY <1>1, <1>2, <1>3, <1>5, <1>6, <1>7, <1>8
        DEF PracticeInv, SentToOwn, RecitedIn, P!OneReviewPerPractice, P!RecordsAreOwn

LEMMA ReciteInv == ASSUME PracticeInv, P!Recite PROVE PracticeInv'
<1>1. /\ mode # "home" /\ isLoading' = TRUE /\ begun < MaxCalls /\ begun' = begun + 1
      /\ analysis' = [at |-> "aligning", of |-> practice, session |-> sessionId]
      /\ unsettled' = IF creates # {} THEN unsettled \union {practice} ELSE unsettled
      /\ UNCHANGED <<mode, sessionId, results, saveState, sendState, completedSave, practice,
                     creates, persists, saves, sends, stored, reviews, sent>>
  BY DEF P!Recite, P!server
<1>2. /\ P!TypeOK /\ Underway /\ ReviewedOnce /\ OwnOnly /\ SentToOwn
      /\ P!OneReviewPerPractice /\ P!ClaimsAreTrue /\ P!RecordsAreOwn
      /\ practice > 0 /\ practice \in P!Practice
  BY <1>1, Numbers DEF PracticeInv, Underway
<1>3. analysis'.at = "aligning" /\ analysis'.of = practice /\ analysis'.session = sessionId
  BY <1>1
<1>4. unsettled \subseteq unsettled' /\ (creates # {} => practice \in unsettled') BY <1>1
<1>5. P!TypeOK'
  <2>1. begun' \in 0 .. MaxCalls BY <1>1, <1>2, Numbers
  <2>2. analysis' \in [at : {"idle", "aligning", "timing", "tajweed"},
                       of : P!Practice \union {P!None}, session : P!SessionName]
    BY <1>1, <1>2 DEF P!TypeOK
  <2>3. unsettled' \subseteq P!Practice BY <1>1, <1>2 DEF P!TypeOK
  <2> QED BY <1>1, <1>2, <2>1, <2>2, <2>3 DEF P!TypeOK
<1>6. Underway' BY <1>1, <1>2, <1>3 DEF Underway
<1>7. ReviewedOnce' BY <1>1, <1>2 DEF ReviewedOnce, Unreviewed
<1>8. OwnOnly'
  <2>1. ASSUME practice' \notin unsettled' PROVE creates' = {} /\ practice \notin unsettled
    BY <1>1, <1>4, <2>1
  <2> QED BY <1>1, <1>2, <1>3, <2>1 DEF OwnOnly
<1>9. SentToOwn'
  <2>1. sessionId \in P!Practice => practice \in {sessionId} \union unsettled'
    <3> SUFFICES ASSUME sessionId \in P!Practice, practice \notin unsettled'
                 PROVE  practice = sessionId
      OBVIOUS
    <3>1. practice \notin unsettled /\ creates = {} BY <1>4
    <3>2. sessionId \in {practice, -practice} BY <1>2, <3>1 DEF OwnOnly
    <3>3. -practice \notin P!Practice BY <1>2, Numbers
    <3> QED BY <3>2, <3>3
  <2> QED BY <1>1, <1>2, <1>3, <1>4, <2>1 DEF SentToOwn, RecitedIn
<1>10. P!ClaimsAreTrue' BY <1>1, <1>2, <1>4 DEF P!ClaimsAreTrue
<1>11. P!RecordsAreOwn' BY <1>1, <1>2, <1>4 DEF P!RecordsAreOwn
<1> QED BY <1>1, <1>2, <1>5, <1>6, <1>7, <1>8, <1>9, <1>10, <1>11
        DEF PracticeInv, P!OneReviewPerPractice

(* The analysis of a recitation goes on, is shown, or ends: what is told to  *)
(* the server next is of the recitation, and for the session it was made in. *)
LEMMA AnalysedInv ==
  ASSUME PracticeInv,
         P!TypeOK',
         analysis.at # "idle",
         analysis'.at # "idle" => analysis'.of = analysis.of /\ analysis'.session = analysis.session,
         results' \in {results, analysis.of},
         results' # results => analysis'.at # "idle",
         persists' \subseteq persists \union {[session |-> analysis.session, of |-> analysis.of]},
         UNCHANGED <<mode, sessionId, saveState, sendState, completedSave, practice, creates,
                     saves, sends, stored, reviews, sent, unsettled>>
  PROVE  PracticeInv'
<1>1. /\ P!TypeOK /\ Underway /\ ReviewedOnce /\ OwnOnly /\ SentToOwn
      /\ P!OneReviewPerPractice /\ P!ClaimsAreTrue /\ P!RecordsAreOwn
  BY DEF PracticeInv
<1>2. Underway' BY <1>1 DEF Underway
<1>3. ReviewedOnce' BY <1>1 DEF ReviewedOnce, Unreviewed
<1>4. OwnOnly' BY <1>1 DEF OwnOnly
<1>5. SentToOwn'
  <2> DEFINE new == [session |-> analysis.session, of |-> analysis.of]
  <2>1. new.session = analysis.session /\ new.of = analysis.of OBVIOUS
  <2>2. persists' \subseteq persists \union {new} OBVIOUS
  <2> HIDE DEF new
  <2>3. \A p \in persists' : RecitedIn(p)' BY <1>1, <2>1, <2>2 DEF SentToOwn, RecitedIn
  <2> QED BY <1>1, <2>3 DEF SentToOwn, RecitedIn
<1> QED BY <1>1, <1>2, <1>3, <1>4, <1>5
        DEF PracticeInv, P!OneReviewPerPractice, P!ClaimsAreTrue, P!RecordsAreOwn

LEMMA AnalyseInv == ASSUME PracticeInv, P!Analyse PROVE PracticeInv'
<1>1. P!TypeOK BY DEF PracticeInv
<1>2. analysis \in [at : {"idle", "aligning", "timing", "tajweed"},
                    of : P!Practice \union {P!None}, session : P!SessionName]
  BY <1>1 DEF P!TypeOK
<1>3. P!Idle.at = "idle"
      /\ P!Idle \in [at : {"idle", "aligning", "timing", "tajweed"},
                     of : P!Practice \union {P!None}, session : P!SessionName]
  BY BoundsAssumption DEF P!Idle, P!SessionName, P!None
<1>4. CASE P!predictAlignment
  <2>1. /\ analysis.at = "aligning"
        /\ \/ isLoading' = FALSE /\ analysis' = P!Idle /\ results' = results
           \/ /\ results' = analysis.of /\ analysis' = [analysis EXCEPT !.at = "timing"]
              /\ isLoading' = isLoading
        /\ UNCHANGED <<mode, sessionId, saveState, sendState, completedSave, practice, creates,
                       persists, saves, sends, stored, reviews, sent, begun, unsettled>>
    BY <1>4 DEF P!predictAlignment, P!NotLoading, P!server
  <2>2. P!TypeOK' BY <1>1, <1>2, <1>3, <2>1 DEF P!TypeOK
  <2> QED BY <1>2, <1>3, <2>1, <2>2, AnalysedInv
<1>5. CASE P!forceAlign
  <2>1. /\ analysis.at = "timing" /\ analysis' = [analysis EXCEPT !.at = "tajweed"]
        /\ persists' = IF analysis.session # P!None
                       THEN persists \union {[session |-> analysis.session, of |-> analysis.of]}
                       ELSE persists
        /\ UNCHANGED <<mode, sessionId, results, isLoading, saveState, sendState, completedSave,
                       practice, creates, saves, sends, stored, reviews, sent, begun, unsettled>>
    BY <1>5 DEF P!forceAlign, P!HasSession, P!screen, P!server
  <2>2. analysis.of \in P!Practice BY <2>1 DEF PracticeInv, Underway
  <2>3. persists' \subseteq [session : P!SessionName \ {P!None}, of : P!Practice]
    <3>1. persists \subseteq [session : P!SessionName \ {P!None}, of : P!Practice] BY <1>1 DEF P!TypeOK
    <3> QED BY <1>2, <2>1, <2>2, <3>1
  <2>4. P!TypeOK' BY <1>1, <1>2, <2>1, <2>3 DEF P!TypeOK
  <2>5. persists' \subseteq persists \union {[session |-> analysis.session, of |-> analysis.of]}
    BY <2>1
  <2>6. analysis'.of = analysis.of /\ analysis'.session = analysis.session BY <1>2, <2>1
  <2> QED BY <2>1, <2>4, <2>5, <2>6, AnalysedInv
<1>6. CASE P!predictTajweed
  <2>1. /\ analysis.at = "tajweed" /\ analysis' = P!Idle /\ isLoading' = FALSE
        /\ UNCHANGED <<mode, sessionId, results, saveState, sendState, completedSave, practice,
                       creates, persists, saves, sends, stored, reviews, sent, begun, unsettled>>
    BY <1>6 DEF P!predictTajweed, P!NotLoading, P!server
  <2>2. P!TypeOK' BY <1>1, <1>3, <2>1 DEF P!TypeOK
  <2> QED BY <1>3, <2>1, <2>2, AnalysedInv
<1> QED BY <1>4, <1>5, <1>6 DEF P!Analyse

LEMMA PersistedInv ==
  ASSUME PracticeInv, NEW p \in persists, P!persistSessionAlignments(p)
  PROVE  PracticeInv'
<1>1. /\ persists' = persists \ {p}
      /\ \/ p.session \in P!Practice /\ stored' = [stored EXCEPT ![p.session] = p.of]
         \/ stored' = stored
      /\ UNCHANGED <<mode, sessionId, results, isLoading, saveState, sendState, completedSave,
                     practice, creates, analysis, saves, sends, reviews, sent, begun, unsettled>>
  BY DEF P!persistSessionAlignments, P!screen
<1>2. /\ P!TypeOK /\ Underway /\ ReviewedOnce /\ OwnOnly /\ SentToOwn
      /\ P!OneReviewPerPractice /\ P!ClaimsAreTrue /\ P!RecordsAreOwn
      /\ p \in [session : P!SessionName \ {P!None}, of : P!Practice]
      /\ stored \in [P!Practice -> P!Practice \union {P!None}]
  BY DEF PracticeInv, P!TypeOK
<1>3. P!TypeOK'
  <2>1. stored' \in [P!Practice -> P!Practice \union {P!None}] BY <1>1, <1>2
  <2> QED BY <1>1, <1>2, <2>1 DEF P!TypeOK
<1>4. OwnOnly' BY <1>1, <1>2 DEF OwnOnly
<1>5. P!RecordsAreOwn'
  <2>1. RecitedIn(p) BY <1>2 DEF SentToOwn
  <2>2. ASSUME NEW s \in P!Practice PROVE stored'[s] \in {P!None, s} \union unsettled
    BY <1>1, <1>2, <2>1 DEF RecitedIn, P!RecordsAreOwn
  <2> QED BY <1>1, <2>2 DEF P!RecordsAreOwn
<1> QED BY <1>1, <1>2, <1>3, <1>4, <1>5
        DEF PracticeInv, Underway, ReviewedOnce, Unreviewed, SentToOwn, RecitedIn,
            P!OneReviewPerPractice, P!ClaimsAreTrue

LEMMA PracticeStep == ASSUME PracticeInv, [P!Next]_(P!vars) PROVE PracticeInv'
<1>1. CASE P!Learner
  <2>1. CASE P!advancePractice
    <3>1. PICK i \in 1 .. Len(Steps) - 1, ranAtOnce \in BOOLEAN :
            /\ mode = Steps[i] /\ mode' = Steps[i + 1]
            /\ IF ranAtOnce /\ mode' = "complete"
               THEN P!triggerCompletionSave
               ELSE UNCHANGED <<completedSave, saveState, saves>>
            /\ UNCHANGED <<sessionId, results, isLoading, sendState, practice, creates, analysis,
                           persists, sends, P!server, begun, unsettled>>
      BY <2>1 DEF P!advancePractice
    <3>2. Steps[i] \in P!StepIds /\ Steps[i + 1] \in P!StepIds
      <4>1. Len(Steps) \in Nat /\ DOMAIN Steps = 1 .. Len(Steps) BY StepsAssumption
      <4>2. i \in DOMAIN Steps /\ i + 1 \in DOMAIN Steps BY <4>1
      <4> QED BY <4>2 DEF P!StepIds
    <3>3. mode # "home" /\ mode' \in P!StepIds BY <3>1, <3>2, StepsAssumption
    <3> QED BY <3>1, <3>3, StepTakenInv DEF P!server
  <2>2. ASSUME NEW target \in P!StepIds, P!selectMode(target) PROVE PracticeInv'
    BY <2>2, StepTakenInv DEF P!selectMode, P!server
  <2> QED BY <1>1, <2>1, <2>2, StartPracticeInv, ResetInv, SendToTeacherInv, ReciteInv DEF P!Learner
<1>2. CASE P!Answer
  BY <1>2, CreatedInv, SavedInv, SentInv, PersistedInv DEF P!Answer
<1>3. CASE P!Analyse BY <1>3, AnalyseInv
<1>4. CASE UNCHANGED P!vars
  BY <1>4 DEF P!vars, P!screen, P!calls, P!server, PracticeInv, P!TypeOK, Underway, ReviewedOnce,
     Unreviewed, OwnOnly, SentToOwn, RecitedIn, P!OneReviewPerPractice, P!ClaimsAreTrue, P!RecordsAreOwn
<1> QED BY <1>1, <1>2, <1>3, <1>4 DEF P!Next

LEMMA PracticeKeeps ==
  PracticeInv => P!TypeOK /\ P!OneReviewPerPractice /\ P!ClaimsAreTrue /\ P!RecordsAreOwn
BY DEF PracticeInv

-----------------------------------------------------------------------------
(* The learner's microphones.  They are used in order; one recorder is asked *)
(* for while starting, and then nothing records yet.                         *)
MicsInOrder ==
  /\ \E k \in 0 .. MaxMics : M!Mic \ M!Are("unused") = 1 .. k
  /\ \A m \in M!Are("unused") : kind[m] = "none"
RecordersAsked == {m \in M!Are("asked") : kind[m] \in M!Recorders}
AskedOnce ==
  /\ \A m, n \in RecordersAsked : m = n
  /\ micStarting <=> RecordersAsked # {}
  /\ micStarting => ~isRecording

(* Without a mishap, what is open is in its ref and only while the screen    *)
(* records or starts to, and then one waveform at most.                      *)
Waveforms == {m \in M!Are("asked") \union M!Are("open") : kind[m] = "waveform"}
InReach ==
  /\ M!Are("asked") \union M!Are("open") # {} => micMounted
  /\ \A m \in M!Are("open") : (isRecording \/ micStarting) /\ m \in {serverAsr, asr, visualizer}
  /\ micStarting => \A m \in M!Are("open") : kind[m] = "waveform"
  /\ \A m, n \in Waveforms : m = n
  /\ ~stopRequested /\ Waveforms \intersect M!Are("asked") # {} => isRecording \/ micStarting
  /\ micMounted /\ ~isRecording => serverAsr = M!None
  /\ (\E m \in M!Are("open") : kind[m] = "speech") => serverAsr = M!None

MicrophoneInv == M!TypeOK /\ MicsInOrder /\ AskedOnce /\ (micMishaps = {} => InReach)

LEMMA MicrophoneInit == M!Init => MicrophoneInv
<1> SUFFICES ASSUME M!Init PROVE MicrophoneInv
  OBVIOUS
<1>1. /\ kind = [m \in M!Mic |-> "none"] /\ state = [m \in M!Mic |-> "unused"]
      /\ \A w : w # "unused" => M!Are(w) = {}
  BY DEF M!Init, M!Are
<1>2. M!TypeOK
  <2>1. /\ kind \in [M!Mic -> M!Recorders \union {"none", "speech", "waveform"}]
        /\ state \in [M!Mic -> {"unused", "asked", "open", "closing", "over"}]
    BY <1>1
  <2>2. analysing \in 0 .. MaxAnalyses BY BoundsAssumption DEF M!Init
  <2> QED BY <2>1, <2>2 DEF M!Init, M!TypeOK
<1>3. MicsInOrder
  <2>1. M!Are("unused") = M!Mic BY <1>1 DEF M!Are
  <2>2. M!Mic \ M!Are("unused") = 1 .. 0 BY <2>1
  <2>3. 0 \in 0 .. MaxMics BY BoundsAssumption
  <2> QED BY <1>1, <2>2, <2>3 DEF MicsInOrder, M!Are
<1>4. M!Are("asked") = {} /\ M!Are("open") = {} BY <1>1
<1>5. AskedOnce BY <1>4 DEF M!Init, AskedOnce, RecordersAsked
<1>6. InReach BY <1>4 DEF M!Init, InReach, Waveforms
<1> QED BY <1>2, <1>3, <1>5, <1>6 DEF MicrophoneInv

(* The number of the next microphone is the first that is not used.          *)
LEMMA NewestMic ==
  ASSUME MicsInOrder
  PROVE  /\ M!Newest \in 0 .. MaxMics
         /\ \A m \in M!Mic : state[m] = "unused" <=> m > M!Newest
         /\ \A m \in M!Mic : m > M!Newest => kind[m] = "none"
<1>1. PICK k \in 0 .. MaxMics : M!Mic \ M!Are("unused") = 1 .. k BY DEF MicsInOrder
<1>2. Cardinality(1 .. k) = k BY FS_Interval, BoundsAssumption, <1>1
<1>3. M!Newest = k BY <1>1, <1>2, SameCount DEF M!Newest
<1>4. \A m \in M!Mic : state[m] = "unused" <=> m > k
  BY <1>1 DEF M!Are, M!Mic
<1> QED BY <1>3, <1>4 DEF MicsInOrder, M!Are

(* A microphone that was used before keeps being used.                       *)
LEMMA OrderKept ==
  ASSUME MicsInOrder, UNCHANGED kind,
         \A m \in M!Mic : state'[m] = "unused" <=> state[m] = "unused"
  PROVE  MicsInOrder'
<1>1. M!Are("unused")' = M!Are("unused") BY DEF M!Are
<1> QED BY <1>1 DEF MicsInOrder

LEMMA OrderGrows ==
  ASSUME MicsInOrder, NEW n \in Nat, M!Newest + n <= MaxMics,
         \A m \in M!Mic : m <= M!Newest + n => state'[m] # "unused",
         \A m \in M!Mic : m > M!Newest + n => state'[m] = state[m] /\ kind'[m] = kind[m]
  PROVE  MicsInOrder'
<1>1. M!Newest \in 0 .. MaxMics /\ \A m \in M!Mic : state[m] = "unused" <=> m > M!Newest
  BY NewestMic
<1> DEFINE k == M!Newest + n
<1>2. k \in 0 .. MaxMics BY <1>1, BoundsAssumption
<1>3. \A m \in M!Mic : state'[m] = "unused" <=> m > k
  BY <1>1, <1>2 DEF M!Mic
<1>4. (M!Mic \ M!Are("unused"))' = 1 .. k
  BY <1>2, <1>3, BoundsAssumption DEF M!Mic, M!Are
<1>5. \A m \in M!Are("unused")' : kind'[m] = "none"
  BY <1>1, <1>3, NewestMic DEF M!Are, M!Mic
<1> QED BY <1>2, <1>4, <1>5 DEF MicsInOrder

LEMMA RecordInv == ASSUME MicrophoneInv, M!startAsrRecording PROVE MicrophoneInv'
<1> DEFINE a == M!Newest + 1
           b == M!Newest + 2
<1>1. /\ micMounted /\ ~isRecording /\ ~micStarting /\ M!Newest + 2 <= MaxMics
      /\ micStarting' = TRUE /\ stopRequested' = FALSE
      /\ kind' = [kind EXCEPT ![a] = "waveform", ![b] = "server"]
      /\ state' = [state EXCEPT ![a] = "asked", ![b] = "asked"]
      /\ micMishaps' = IF \E m \in M!Are("asked") : kind[m] = "waveform"
                       THEN micMishaps \union {"restarted"} ELSE micMishaps
      /\ heard' = FALSE
      /\ UNCHANGED <<micMounted, isRecording, micLoading, serverAsr, asr, visualizer, transcribing, analysing>>
  BY DEF M!startAsrRecording, M!FirstTap, M!Happened, M!refs
<1>2. /\ M!TypeOK /\ MicsInOrder /\ AskedOnce /\ (micMishaps = {} => InReach)
      /\ M!Newest \in 0 .. MaxMics
  BY NewestMic DEF MicrophoneInv
<1>3. /\ a \in M!Mic /\ b \in M!Mic /\ a # b /\ state[a] = "unused" /\ state[b] = "unused"
      /\ kind[a] = "none" /\ kind[b] = "none"
  BY <1>1, <1>2, NewestMic, BoundsAssumption DEF M!Mic
<1>order. MicsInOrder'
  <2>1. \A m \in M!Mic : m <= M!Newest + 2 => m = a \/ m = b \/ m <= M!Newest
    BY <1>2 DEF M!Mic
  <2>2. \A m \in M!Mic : m <= M!Newest + 2 => state'[m] # "unused"
    BY <1>1, <1>2, <1>3, <2>1, NewestMic DEF M!TypeOK, M!Mic
  <2>3. \A m \in M!Mic : m > M!Newest + 2 => m # a /\ m # b
    BY <1>2 DEF M!Mic
  <2>4. \A m \in M!Mic : m > M!Newest + 2 => state'[m] = state[m] /\ kind'[m] = kind[m]
    BY <1>1, <1>2, <2>3 DEF M!TypeOK
  <2> QED BY <1>1, <1>2, <2>2, <2>4, OrderGrows
<1> HIDE DEF a, b
<1>4. \A m \in M!Mic : m # a /\ m # b => state'[m] = state[m] /\ kind'[m] = kind[m]
  BY <1>1, <1>2 DEF M!TypeOK
<1>5. /\ state'[a] = "asked" /\ state'[b] = "asked" /\ kind'[a] = "waveform" /\ kind'[b] = "server"
  BY <1>1, <1>2, <1>3 DEF M!TypeOK
<1>6. M!TypeOK'
  <2>1. /\ kind' \in [M!Mic -> M!Recorders \union {"none", "speech", "waveform"}]
        /\ state' \in [M!Mic -> {"unused", "asked", "open", "closing", "over"}]
    BY <1>1, <1>2 DEF M!TypeOK, M!Recorders
  <2>2. \A m \in M!Mic : kind[m] # "none" => state'[m] = state[m] /\ kind'[m] = kind[m]
    BY <1>3, <1>4
  <2>3. /\ serverAsr' \in {M!None} \union {m \in M!Mic : kind'[m] \in M!Recorders /\ state'[m] \in {"open", "over"}}
        /\ asr' \in {M!None} \union {m \in M!Mic : kind'[m] = "speech" /\ state'[m] # "asked"}
        /\ visualizer' \in {M!None} \union {m \in M!Mic : kind'[m] = "waveform" /\ state'[m] \in {"open", "over"}}
    BY <1>1, <1>2, <2>2 DEF M!TypeOK, M!Recorders
  <2>4. micMishaps' \subseteq M!Mishaps BY <1>1, <1>2 DEF M!TypeOK, M!Mishaps
  <2> QED BY <1>1, <1>2, <2>1, <2>3, <2>4 DEF M!TypeOK
<1>7. AskedOnce'
  <2>1. RecordersAsked = {} BY <1>1, <1>2 DEF AskedOnce
  <2>2. RecordersAsked' = {b}
    BY <1>3, <1>4, <1>5, <2>1 DEF RecordersAsked, M!Are, M!Recorders
  <2> QED BY <1>1, <2>2 DEF AskedOnce
<1>8. ASSUME micMishaps' = {} PROVE InReach'
  <2>1. InReach /\ ~\E m \in M!Are("asked") : kind[m] = "waveform"
    BY <1>1, <1>2, <1>8
  <2>2. M!Are("open") = {} BY <1>1, <2>1 DEF InReach
  <2>3. M!Are("open")' = {} BY <1>4, <1>5, <2>2 DEF M!Are
  <2>4. Waveforms' = {a}
    BY <1>3, <1>4, <1>5, <2>1, <2>2 DEF Waveforms, M!Are
  <2> QED BY <1>1, <2>1, <2>3, <2>4 DEF InReach
<1> QED BY <1>6, <1>order, <1>7, <1>8 DEF MicrophoneInv

(* What one microphone's step does to the sets the invariant is about.       *)
LEMMA VisualizerInv ==
  ASSUME MicrophoneInv, NEW m \in M!Mic, M!startMicVisualizer(m)
  PROVE  MicrophoneInv'
<1>1. /\ state[m] = "asked" /\ kind[m] = "waveform"
      /\ UNCHANGED <<micMounted, isRecording, micLoading, micStarting, stopRequested, serverAsr, asr, kind,
                     transcribing, heard, analysing, micMishaps>>
  BY DEF M!startMicVisualizer, M!flags, M!analyses
<1>2. PICK w \in {"open", "over"} :
        /\ state' = [state EXCEPT ![m] = w]
        /\ w = "open" => ~stopRequested /\ visualizer' = m
        /\ w = "over" => visualizer' = visualizer \/ (visualizer' = M!None /\ ~stopRequested)
  BY DEF M!startMicVisualizer, M!TornDown
<1>3. M!TypeOK /\ MicsInOrder /\ AskedOnce /\ (micMishaps = {} => InReach)
  BY DEF MicrophoneInv
<1>4. state'[m] = w /\ \A n \in M!Mic : n # m => state'[n] = state[n]
  BY <1>2, <1>3 DEF M!TypeOK
<1>5. M!TypeOK'
  <2>1. state' \in [M!Mic -> {"unused", "asked", "open", "closing", "over"}]
    BY <1>2, <1>3 DEF M!TypeOK
  <2>2. \A n \in M!Mic : state[n] # "asked" => state'[n] = state[n]
    BY <1>1, <1>4
  <2>3. /\ serverAsr' \in {M!None} \union {n \in M!Mic : kind'[n] \in M!Recorders /\ state'[n] \in {"open", "over"}}
        /\ asr' \in {M!None} \union {n \in M!Mic : kind'[n] = "speech" /\ state'[n] # "asked"}
        /\ visualizer' \in {M!None} \union {n \in M!Mic : kind'[n] = "waveform" /\ state'[n] \in {"open", "over"}}
    BY <1>1, <1>2, <1>3, <1>4, <2>2 DEF M!TypeOK
  <2> QED BY <1>1, <1>3, <2>1, <2>3 DEF M!TypeOK
<1>6. MicsInOrder' BY <1>1, <1>3, <1>4, OrderKept
<1>7. AskedOnce'
  <2>1. RecordersAsked' = RecordersAsked BY <1>1, <1>4 DEF RecordersAsked, M!Are, M!Recorders
  <2> QED BY <1>1, <1>3, <2>1 DEF AskedOnce
<1>8. ASSUME micMishaps' = {} PROVE InReach'
  <2>1. InReach BY <1>1, <1>3, <1>8
  <2>2. m \in Waveforms /\ m \in M!Are("asked") BY <1>1 DEF Waveforms, M!Are
  <2>3. \A n \in Waveforms : n = m BY <2>1, <2>2 DEF InReach
  <2>4. /\ M!Are("asked")' \subseteq M!Are("asked") /\ M!Are("open")' \subseteq M!Are("open") \union {m}
        /\ Waveforms' \subseteq {m} /\ Waveforms' \intersect M!Are("asked")' = {}
        /\ m \in M!Are("open")' => w = "open"
    BY <1>1, <1>2, <1>4, <2>3 DEF Waveforms, M!Are
  <2>5. \A n \in M!Are("open") : n = visualizer => kind[n] = "waveform"
    BY <1>3 DEF M!TypeOK, M!Are, M!None, M!Mic
  <2>6. \A n \in M!Are("open") : n # m => n \in {serverAsr, asr}
    BY <2>1, <2>3, <2>5 DEF InReach, Waveforms
  <2>7. \A n \in M!Are("open")' : (isRecording \/ micStarting) /\ n \in {serverAsr, asr, visualizer'}
    BY <1>2, <2>1, <2>2, <2>4, <2>6 DEF InReach
  <2>8. (\E n \in M!Are("open")' : kind[n] = "speech") => \E n \in M!Are("open") : kind[n] = "speech"
    BY <1>1, <2>4
  <2>9. micStarting => \A n \in M!Are("open")' : kind[n] = "waveform"
    BY <1>1, <2>1, <2>4 DEF InReach
  <2>10. M!Are("asked")' \union M!Are("open")' # {} => micMounted
    BY <2>1, <2>2 DEF InReach
  <2> QED BY <1>1, <2>1, <2>4, <2>7, <2>8, <2>9, <2>10 DEF InReach
<1> QED BY <1>5, <1>6, <1>7, <1>8 DEF MicrophoneInv

LEMMA OpensInv ==
  ASSUME MicrophoneInv, NEW m \in M!Mic, M!RecorderOpens(m)
  PROVE  MicrophoneInv'
<1>1. /\ state[m] = "asked" /\ kind[m] \in M!Recorders
      /\ state' = [state EXCEPT ![m] = "open"]
      /\ serverAsr' = m /\ isRecording' = TRUE /\ micStarting' = FALSE
      /\ UNCHANGED <<micMounted, micLoading, stopRequested, asr, visualizer, kind,
                     transcribing, heard, analysing, micMishaps>>
  BY DEF M!RecorderOpens, M!analyses
<1>2. M!TypeOK /\ MicsInOrder /\ AskedOnce /\ (micMishaps = {} => InReach)
  BY DEF MicrophoneInv
<1>3. state'[m] = "open" /\ \A n \in M!Mic : n # m => state'[n] = state[n]
  BY <1>1, <1>2 DEF M!TypeOK
<1>4. M!TypeOK'
  <2>1. state' \in [M!Mic -> {"unused", "asked", "open", "closing", "over"}]
    BY <1>1, <1>2 DEF M!TypeOK
  <2>2. \A n \in M!Mic : state[n] # "asked" => state'[n] = state[n]
    BY <1>1, <1>3
  <2>3. /\ serverAsr' \in {M!None} \union {n \in M!Mic : kind'[n] \in M!Recorders /\ state'[n] \in {"open", "over"}}
        /\ asr' \in {M!None} \union {n \in M!Mic : kind'[n] = "speech" /\ state'[n] # "asked"}
        /\ visualizer' \in {M!None} \union {n \in M!Mic : kind'[n] = "waveform" /\ state'[n] \in {"open", "over"}}
    BY <1>1, <1>2, <1>3, <2>2 DEF M!TypeOK
  <2> QED BY <1>1, <1>2, <2>1, <2>3 DEF M!TypeOK
<1>5. MicsInOrder' BY <1>1, <1>2, <1>3, OrderKept
<1>6. m \in RecordersAsked /\ micStarting /\ ~isRecording
  BY <1>1, <1>2 DEF RecordersAsked, M!Are, AskedOnce
<1>7. AskedOnce'
  <2>1. RecordersAsked' = {}
    BY <1>1, <1>2, <1>3, <1>6 DEF RecordersAsked, M!Are, AskedOnce
  <2> QED BY <1>1, <2>1 DEF AskedOnce
<1>8. ASSUME micMishaps' = {} PROVE InReach'
  <2>1. InReach BY <1>1, <1>2, <1>8
  <2>2. /\ M!Are("asked")' \subseteq M!Are("asked") /\ M!Are("open")' = M!Are("open") \union {m}
        /\ Waveforms' = Waveforms
    BY <1>1, <1>3 DEF Waveforms, M!Are, M!Recorders
  <2>3. micMounted /\ m # M!None BY <1>1, <2>1 DEF InReach, M!Are, M!Mic, M!None
  <2>4. \A n \in M!Are("open") : kind[n] = "waveform" /\ n \in {serverAsr, asr, visualizer}
    BY <1>6, <2>1 DEF InReach
  <2>5. \A n \in M!Are("open") : n = visualizer
    BY <1>2, <2>4 DEF M!TypeOK, M!Are, M!Mic, M!None, M!Recorders
  <2>6. \A n \in M!Are("open")' : n \in {serverAsr', asr, visualizer} /\ kind[n] # "speech"
    BY <1>1, <2>2, <2>4, <2>5 DEF M!Recorders
  <2> QED BY <1>1, <2>1, <2>2, <2>3, <2>6 DEF InReach
<1> QED BY <1>4, <1>5, <1>7, <1>8 DEF MicrophoneInv

(* After a recorder that fails comes the browser's recogniser.               *)
LEMMA SpeechNext ==
  ASSUME MicrophoneInv, NEW m \in M!Mic, state[m] = "asked", kind[m] = "server",
         M!Newest + 1 <= MaxMics, NEW w \in {"open", "over"}, micStarting' = FALSE,
         kind' = [kind EXCEPT ![M!Newest + 1] = "speech"],
         state' = [[state EXCEPT ![m] = "over"] EXCEPT ![M!Newest + 1] = w],
         w = "open" => asr' = M!Newest + 1 /\ isRecording' = TRUE /\ micMishaps' = micMishaps,
         w = "over" => asr' = M!None /\ isRecording' = FALSE /\ micMishaps' = micMishaps \union {"failed"},
         UNCHANGED <<micMounted, micLoading, stopRequested, serverAsr, visualizer,
                     transcribing, heard, analysing>>
  PROVE  MicrophoneInv'
<1> DEFINE a == M!Newest + 1
<1>1. /\ M!TypeOK /\ MicsInOrder /\ AskedOnce /\ (micMishaps = {} => InReach)
      /\ M!Newest \in 0 .. MaxMics
  BY NewestMic DEF MicrophoneInv
<1>2. a \in M!Mic /\ state[a] = "unused" /\ kind[a] = "none" /\ a # m
  BY <1>1, NewestMic, BoundsAssumption DEF M!Mic
<1>order. MicsInOrder'
  <2>1. \A n \in M!Mic : n <= M!Newest + 1 => n = a \/ n <= M!Newest
    BY <1>1 DEF M!Mic
  <2>2. \A n \in M!Mic : n <= M!Newest + 1 => state'[n] # "unused"
    BY <1>1, <1>2, <2>1, NewestMic DEF M!TypeOK, M!Mic
  <2>3. m <= M!Newest BY <1>1, NewestMic DEF M!Mic
  <2>4. \A n \in M!Mic : n > M!Newest + 1 => n # a /\ n # m
    BY <1>1, <2>3 DEF M!Mic
  <2>5. \A n \in M!Mic : n > M!Newest + 1 => state'[n] = state[n] /\ kind'[n] = kind[n]
    BY <1>1, <2>4 DEF M!TypeOK
  <2> QED BY <1>1, <2>2, <2>5, OrderGrows
<1>3. /\ state'[a] = w /\ state'[m] = "over" /\ kind'[a] = "speech"
      /\ \A n \in M!Mic : n # a => kind'[n] = kind[n]
      /\ \A n \in M!Mic : n # a /\ n # m => state'[n] = state[n]
  BY <1>1, <1>2 DEF M!TypeOK
<1>4. (w = "open" => asr' = a) /\ a # M!None BY <1>1 DEF M!None
<1> HIDE DEF a
<1>5. M!TypeOK'
  <2>1. /\ kind' \in [M!Mic -> M!Recorders \union {"none", "speech", "waveform"}]
        /\ state' \in [M!Mic -> {"unused", "asked", "open", "closing", "over"}]
    BY <1>1 DEF M!TypeOK, M!Recorders
  <2>2. \A n \in M!Mic : state[n] # "asked" /\ kind[n] # "none" => state'[n] = state[n] /\ kind'[n] = kind[n]
    BY <1>2, <1>3
  <2>3. /\ serverAsr' \in {M!None} \union {n \in M!Mic : kind'[n] \in M!Recorders /\ state'[n] \in {"open", "over"}}
        /\ visualizer' \in {M!None} \union {n \in M!Mic : kind'[n] = "waveform" /\ state'[n] \in {"open", "over"}}
    BY <1>1, <2>2 DEF M!TypeOK, M!Recorders
  <2>4. asr' \in {M!None} \union {n \in M!Mic : kind'[n] = "speech" /\ state'[n] # "asked"}
    BY <1>2, <1>3, <1>4
  <2>5. micMishaps' \subseteq M!Mishaps /\ isRecording' \in BOOLEAN BY <1>1 DEF M!TypeOK, M!Mishaps
  <2> QED BY <1>1, <2>1, <2>3, <2>4, <2>5 DEF M!TypeOK
<1>6. m \in RecordersAsked /\ micStarting /\ ~isRecording
  BY <1>1 DEF RecordersAsked, M!Are, AskedOnce, M!Recorders
<1>7. AskedOnce'
  <2>1. \A n \in M!Mic : ~(state'[n] = "asked" /\ kind'[n] \in M!Recorders)
    <3>1. ASSUME NEW n \in M!Mic, n # a, n # m, state[n] = "asked", kind[n] \in M!Recorders PROVE FALSE
      BY <1>1, <1>6, <3>1 DEF RecordersAsked, M!Are, AskedOnce
    <3> QED BY <1>2, <1>3, <3>1
  <2>2. RecordersAsked' = {} BY <2>1 DEF RecordersAsked, M!Are
  <2> QED BY <2>2 DEF AskedOnce
<1>8. ASSUME micMishaps' = {} PROVE InReach'
  <2>1. InReach /\ w = "open" BY <1>1, <1>8
  <2>2. /\ M!Are("asked")' = M!Are("asked") \ {m} /\ M!Are("open")' = M!Are("open") \union {a}
        /\ Waveforms' = Waveforms
    <3>1. M!Are("asked")' = M!Are("asked") \ {m} BY <1>2, <1>3, <2>1 DEF M!Are
    <3>2. M!Are("open")' = M!Are("open") \union {a} BY <1>2, <1>3, <2>1 DEF M!Are
    <3>3. \A n \in (M!Are("asked") \union M!Are("open")) \ {m} : kind'[n] = kind[n]
      BY <1>2, <1>3 DEF M!Are
    <3>4. Waveforms' = {n \in M!Are("asked")' \union M!Are("open")' : kind'[n] = "waveform"}
      BY DEF Waveforms
    <3>5. kind'[a] # "waveform" /\ kind[m] # "waveform" BY <1>3
    <3>6. \A n : n \in Waveforms' <=> n \in Waveforms
      BY <3>1, <3>2, <3>3, <3>4, <3>5 DEF Waveforms
    <3> QED BY <3>1, <3>2, <3>6
  <2>3. micMounted /\ serverAsr = M!None BY <1>6, <2>1 DEF InReach, M!Are
  <2>4. \A n \in M!Are("open") : n = visualizer
    BY <1>1, <1>6, <2>1 DEF InReach, M!TypeOK, M!Are, M!Mic, M!None, M!Recorders
  <2> QED BY <1>4, <2>1, <2>2, <2>3, <2>4 DEF InReach
<1> QED BY <1>5, <1>order, <1>7, <1>8 DEF MicrophoneInv

(* Or a recorder for the learner alone.                                      *)
LEMMA LocalNext ==
  ASSUME MicrophoneInv, NEW m \in M!Mic, state[m] = "asked", kind[m] = "server",
         M!Newest + 1 <= MaxMics, isRecording' = FALSE,
         kind' = [kind EXCEPT ![M!Newest + 1] = "local"],
         state' = [[state EXCEPT ![m] = "over"] EXCEPT ![M!Newest + 1] = "asked"],
         UNCHANGED <<micMounted, micLoading, micStarting, stopRequested, serverAsr, asr, visualizer,
                     transcribing, heard, analysing, micMishaps>>
  PROVE  MicrophoneInv'
<1> DEFINE a == M!Newest + 1
<1>1. /\ M!TypeOK /\ MicsInOrder /\ AskedOnce /\ (micMishaps = {} => InReach)
      /\ M!Newest \in 0 .. MaxMics
  BY NewestMic DEF MicrophoneInv
<1>2. a \in M!Mic /\ state[a] = "unused" /\ kind[a] = "none" /\ a # m
  BY <1>1, NewestMic, BoundsAssumption DEF M!Mic
<1>order. MicsInOrder'
  <2>1. \A n \in M!Mic : n <= M!Newest + 1 => n = a \/ n <= M!Newest
    BY <1>1 DEF M!Mic
  <2>2. \A n \in M!Mic : n <= M!Newest + 1 => state'[n] # "unused"
    BY <1>1, <1>2, <2>1, NewestMic DEF M!TypeOK, M!Mic
  <2>3. m <= M!Newest BY <1>1, NewestMic DEF M!Mic
  <2>4. \A n \in M!Mic : n > M!Newest + 1 => n # a /\ n # m
    BY <1>1, <2>3 DEF M!Mic
  <2>5. \A n \in M!Mic : n > M!Newest + 1 => state'[n] = state[n] /\ kind'[n] = kind[n]
    BY <1>1, <2>4 DEF M!TypeOK
  <2> QED BY <1>1, <2>2, <2>5, OrderGrows
<1>3. /\ state'[a] = "asked" /\ state'[m] = "over" /\ kind'[a] = "local"
      /\ \A n \in M!Mic : n # a => kind'[n] = kind[n]
      /\ \A n \in M!Mic : n # a /\ n # m => state'[n] = state[n]
  BY <1>1, <1>2 DEF M!TypeOK
<1> HIDE DEF a
<1>5. M!TypeOK'
  <2>1. /\ kind' \in [M!Mic -> M!Recorders \union {"none", "speech", "waveform"}]
        /\ state' \in [M!Mic -> {"unused", "asked", "open", "closing", "over"}]
    BY <1>1 DEF M!TypeOK, M!Recorders
  <2>2. \A n \in M!Mic : state[n] # "asked" /\ kind[n] # "none" => state'[n] = state[n] /\ kind'[n] = kind[n]
    BY <1>2, <1>3
  <2>3. /\ serverAsr' \in {M!None} \union {n \in M!Mic : kind'[n] \in M!Recorders /\ state'[n] \in {"open", "over"}}
        /\ asr' \in {M!None} \union {n \in M!Mic : kind'[n] = "speech" /\ state'[n] # "asked"}
        /\ visualizer' \in {M!None} \union {n \in M!Mic : kind'[n] = "waveform" /\ state'[n] \in {"open", "over"}}
    BY <1>1, <2>2 DEF M!TypeOK, M!Recorders
  <2> QED BY <1>1, <2>1, <2>3 DEF M!TypeOK
<1>6. m \in RecordersAsked /\ micStarting
  BY <1>1 DEF RecordersAsked, M!Are, AskedOnce, M!Recorders
<1>7. AskedOnce'
  <2>1. RecordersAsked' = {a}
    <3>1. ASSUME NEW n \in M!Mic, n # a, n # m, state[n] = "asked", kind[n] \in M!Recorders PROVE FALSE
      BY <1>1, <1>6, <3>1 DEF RecordersAsked, M!Are, AskedOnce
    <3>2. \A n \in M!Mic : state'[n] = "asked" /\ kind'[n] \in M!Recorders <=> n = a
      BY <1>2, <1>3, <3>1 DEF M!Recorders
    <3> QED BY <1>2, <3>2 DEF RecordersAsked, M!Are
  <2> QED BY <1>6, <2>1 DEF AskedOnce
<1>8. ASSUME micMishaps' = {} PROVE InReach'
  <2>1. InReach BY <1>1, <1>8
  <2>2. /\ M!Are("open")' = M!Are("open") /\ Waveforms' = Waveforms
        /\ Waveforms' \intersect M!Are("asked")' = Waveforms \intersect M!Are("asked")
    <3>1. /\ M!Are("asked")' = (M!Are("asked") \ {m}) \union {a} /\ M!Are("open")' = M!Are("open")
      BY <1>2, <1>3 DEF M!Are
    <3>2. \A n \in (M!Are("asked") \union M!Are("open")) \ {m} : kind'[n] = kind[n]
      BY <1>2, <1>3 DEF M!Are
    <3>3. Waveforms' = {n \in M!Are("asked")' \union M!Are("open")' : kind'[n] = "waveform"}
      BY DEF Waveforms
    <3>4. kind'[a] # "waveform" /\ kind[m] # "waveform" BY <1>3
    <3>5. \A n : n \in Waveforms' <=> n \in Waveforms
      BY <3>1, <3>2, <3>3, <3>4 DEF Waveforms
    <3>6. a \notin Waveforms /\ m \notin Waveforms BY <1>2, <3>4 DEF Waveforms, M!Are
    <3> QED BY <3>1, <3>5, <3>6
  <2>3. micMounted BY <2>1 DEF InReach, M!Are
  <2>4. \A n \in M!Are("open") : kind'[n] = kind[n] BY <1>2, <1>3 DEF M!Are
  <2>5. ~isRecording BY <1>1, <1>6 DEF AskedOnce
  <2> QED BY <1>6, <2>1, <2>2, <2>3, <2>4, <2>5 DEF InReach
<1> QED BY <1>5, <1>order, <1>7, <1>8 DEF MicrophoneInv

LEMMA FailsInv ==
  ASSUME MicrophoneInv, NEW m \in M!Mic, M!RecorderFails(m)
  PROVE  MicrophoneInv'
<1>1. /\ state[m] = "asked" /\ kind[m] \in M!Recorders
      /\ UNCHANGED <<micMounted, micLoading, stopRequested, serverAsr, visualizer,
                     transcribing, heard, analysing>>
  BY DEF M!RecorderFails, M!analyses
<1>2. CASE /\ kind[m] = "server" /\ M!Newest + 1 <= MaxMics /\ micStarting' = FALSE
           /\ kind' = [kind EXCEPT ![M!Newest + 1] = "speech"]
           /\ \/ /\ state' = [[state EXCEPT ![m] = "over"] EXCEPT ![M!Newest + 1] = "open"]
                 /\ asr' = M!Newest + 1 /\ isRecording' = TRUE /\ UNCHANGED micMishaps
              \/ /\ state' = [[state EXCEPT ![m] = "over"] EXCEPT ![M!Newest + 1] = "over"]
                 /\ asr' = M!None /\ isRecording' = FALSE /\ micMishaps' = micMishaps \union {"failed"}
  BY <1>1, <1>2, SpeechNext
<1>3. CASE /\ kind[m] = "server" /\ M!Newest + 1 <= MaxMics
           /\ kind' = [kind EXCEPT ![M!Newest + 1] = "local"]
           /\ state' = [[state EXCEPT ![m] = "over"] EXCEPT ![M!Newest + 1] = "asked"]
           /\ isRecording' = FALSE /\ UNCHANGED <<asr, micStarting, micMishaps>>
  BY <1>1, <1>3, LocalNext
<1>4. CASE /\ kind[m] = "local" /\ state' = [state EXCEPT ![m] = "over"]
           /\ isRecording' = FALSE /\ micStarting' = FALSE
           /\ micMishaps' = micMishaps \union {"failed"} /\ UNCHANGED <<asr, kind>>
  <2>1. M!TypeOK /\ MicsInOrder /\ AskedOnce BY DEF MicrophoneInv
  <2>2. state'[m] = "over" /\ \A n \in M!Mic : n # m => state'[n] = state[n]
    BY <1>4, <2>1 DEF M!TypeOK
  <2>3. M!TypeOK'
    <3>1. state' \in [M!Mic -> {"unused", "asked", "open", "closing", "over"}]
      BY <1>4, <2>1 DEF M!TypeOK
    <3>2. \A n \in M!Mic : state[n] # "asked" => state'[n] = state[n]
      BY <1>1, <2>2
    <3>3. /\ serverAsr' \in {M!None} \union {n \in M!Mic : kind'[n] \in M!Recorders /\ state'[n] \in {"open", "over"}}
          /\ asr' \in {M!None} \union {n \in M!Mic : kind'[n] = "speech" /\ state'[n] # "asked"}
          /\ visualizer' \in {M!None} \union {n \in M!Mic : kind'[n] = "waveform" /\ state'[n] \in {"open", "over"}}
      BY <1>1, <1>4, <2>1, <3>2 DEF M!TypeOK
    <3> QED BY <1>1, <1>4, <2>1, <3>1, <3>3 DEF M!TypeOK, M!Mishaps
  <2>4. MicsInOrder' BY <1>1, <1>4, <2>1, <2>2, OrderKept
  <2>5. m \in RecordersAsked BY <1>1 DEF RecordersAsked, M!Are
  <2>6. RecordersAsked' = {}
    BY <1>1, <1>4, <2>1, <2>2, <2>5 DEF RecordersAsked, M!Are, AskedOnce
  <2>7. AskedOnce' BY <1>4, <2>6 DEF AskedOnce
  <2> QED BY <1>4, <2>3, <2>4, <2>7 DEF MicrophoneInv
<1> QED BY <1>2, <1>3, <1>4 DEF M!RecorderFails, M!Happened

(* What every other step does: a microphone that is open or closing goes on  *)
(* to its end, or none does.                                                 *)
Ending ==
  /\ kind' = kind /\ micStarting' = micStarting
  /\ state' \in [M!Mic -> {"unused", "asked", "open", "closing", "over"}]
  /\ \A m \in M!Mic : state'[m] # state[m] =>
       state[m] \in {"open", "closing"} /\ state'[m] \in {"closing", "over"}

LEMMA Ended ==
  ASSUME MicrophoneInv, Ending
  PROVE  /\ MicsInOrder' /\ RecordersAsked' = RecordersAsked
         /\ M!Are("asked")' = M!Are("asked") /\ M!Are("open")' \subseteq M!Are("open")
         /\ Waveforms' \subseteq Waveforms
         /\ \A m \in M!Mic : state'[m] \in {"open", "asked"} => state'[m] = state[m]
<1>1. \A m \in M!Mic : state'[m] = "unused" <=> state[m] = "unused" BY DEF Ending
<1>2. MicsInOrder' BY <1>1, OrderKept DEF Ending, MicrophoneInv
<1>3. /\ M!Are("asked")' = M!Are("asked") /\ M!Are("open")' \subseteq M!Are("open")
  BY DEF Ending, M!Are
<1>4. Waveforms' \subseteq Waveforms BY <1>3 DEF Ending, Waveforms
<1>5. RecordersAsked' = RecordersAsked BY <1>3 DEF Ending, RecordersAsked
<1>6. \A m \in M!Mic : state'[m] \in {"open", "asked"} => state'[m] = state[m] BY DEF Ending
<1> QED BY <1>2, <1>3, <1>4, <1>5, <1>6

(* A step that moves no ref but that of a recorder, and records no less.     *)
LEMMA EndingInv ==
  ASSUME MicrophoneInv, Ending,
         isRecording' \in BOOLEAN, micLoading' \in BOOLEAN, heard' \in BOOLEAN,
         transcribing' \subseteq M!Mic, analysing' \in 0 .. MaxAnalyses,
         UNCHANGED <<micMounted, stopRequested, serverAsr, asr, visualizer>>,
         \A m \in M!Mic : state'[m] = "closing" => m # serverAsr /\ m # visualizer,
         \/ micMishaps' = micMishaps /\ isRecording' = isRecording
         \/ micMishaps' \in {micMishaps \union {w} : w \in M!Mishaps} /\ isRecording' = FALSE
  PROVE  MicrophoneInv'
<1>1. M!TypeOK /\ AskedOnce /\ (micMishaps = {} => InReach) BY DEF MicrophoneInv
<1>2. M!TypeOK'
  <2>1. serverAsr' \in {M!None} \union {m \in M!Mic : kind'[m] \in M!Recorders /\ state'[m] \in {"open", "over"}}
    BY <1>1 DEF M!TypeOK, Ending
  <2>2. asr' \in {M!None} \union {m \in M!Mic : kind'[m] = "speech" /\ state'[m] # "asked"}
    BY <1>1 DEF M!TypeOK, Ending
  <2>3. visualizer' \in {M!None} \union {m \in M!Mic : kind'[m] = "waveform" /\ state'[m] \in {"open", "over"}}
    BY <1>1 DEF M!TypeOK, Ending
  <2>4. micMishaps' \subseteq M!Mishaps BY <1>1 DEF M!TypeOK
  <2> QED BY <1>1, <2>1, <2>2, <2>3, <2>4 DEF M!TypeOK, Ending
<1>3. AskedOnce'
  <2>1. isRecording' => isRecording OBVIOUS
  <2> QED BY <1>1, <2>1, Ended DEF AskedOnce, Ending
<1>4. ASSUME micMishaps' = {} PROVE InReach'
  <2>1. InReach /\ isRecording' = isRecording BY <1>1, <1>4
  <2>2. \A m \in M!Are("open")' : m \in M!Are("open") /\ kind'[m] = kind[m]
    BY Ended DEF Ending
  <2>3. Waveforms' \intersect M!Are("asked")' \subseteq Waveforms \intersect M!Are("asked")
    BY Ended
  <2> QED BY <2>1, <2>2, <2>3, Ended DEF InReach, Ending
<1> QED BY <1>2, <1>3, <1>4, Ended DEF MicrophoneInv

LEMMA StopRecordingInv == ASSUME MicrophoneInv, M!toggleAsrRecording PROVE MicrophoneInv'
<1>1. /\ micMounted /\ isRecording /\ isRecording' = FALSE /\ stopRequested' = TRUE
      /\ visualizer' = M!None /\ (M!StopRecorder \/ M!StopRecogniser)
      /\ UNCHANGED <<micMounted, micStarting, asr, kind, heard, micMishaps>>
  BY DEF M!toggleAsrRecording
<1>2. /\ M!TypeOK /\ AskedOnce /\ (micMishaps = {} => InReach) /\ ~micStarting
      /\ state \in [M!Mic -> {"unused", "asked", "open", "closing", "over"}]
      /\ visualizer \in M!Mic \union {M!None} /\ serverAsr \in M!Mic \union {M!None}
      /\ asr \in M!Mic \union {M!None} /\ M!None \notin M!Mic
  BY <1>1 DEF MicrophoneInv, AskedOnce, M!TypeOK, M!None, M!Mic
<1>3. CASE M!StopRecorder
  <2> DEFINE quiet == M!Stopped(visualizer, "over")
  <2>1. /\ serverAsr \in M!Mic /\ serverAsr' = M!None /\ micLoading' = TRUE /\ analysing' = analysing
        /\ state' = [quiet EXCEPT ![serverAsr] = IF quiet[serverAsr] = "open" THEN "closing" ELSE quiet[serverAsr]]
        /\ transcribing' = transcribing \union {serverAsr}
    BY <1>2, <1>3 DEF M!StopRecorder, M!Forgotten
  <2>2. /\ quiet \in [M!Mic -> {"unused", "asked", "open", "closing", "over"}]
        /\ \A m \in M!Mic : IF m = visualizer /\ state[m] = "open" THEN quiet[m] = "over"
                            ELSE quiet[m] = state[m]
    BY <1>2 DEF M!Stopped
  <2> HIDE DEF quiet
  <2>3. \A m \in M!Mic :
          state'[m] = IF m = serverAsr /\ quiet[m] = "open" THEN "closing" ELSE quiet[m]
    BY <2>1, <2>2
  <2>4. Ending BY <1>1, <2>1, <2>2, <2>3 DEF Ending
  <2>5. M!TypeOK'
    <3>1. asr' \in {M!None} \union {m \in M!Mic : kind'[m] = "speech" /\ state'[m] # "asked"}
      BY <1>1, <1>2, <2>4 DEF M!TypeOK, Ending
    <3>2. transcribing' \subseteq M!Mic /\ analysing' \in 0 .. MaxAnalyses /\ micLoading' \in BOOLEAN
      BY <1>2, <2>1 DEF M!TypeOK
    <3>3. /\ kind' \in [M!Mic -> M!Recorders \union {"none", "speech", "waveform"}]
          /\ micStarting' \in BOOLEAN /\ heard' \in BOOLEAN /\ micMishaps' \subseteq M!Mishaps
          /\ micMounted' \in BOOLEAN
      BY <1>1, <1>2 DEF M!TypeOK
    <3>4. state' \in [M!Mic -> {"unused", "asked", "open", "closing", "over"}] BY <2>4 DEF Ending
    <3> QED BY <1>1, <2>1, <3>1, <3>2, <3>3, <3>4 DEF M!TypeOK
  <2>6. AskedOnce' BY <1>1, <1>2, <2>4, Ended DEF AskedOnce
  <2>7. ASSUME micMishaps' = {} PROVE InReach'
    <3>1. InReach BY <1>1, <1>2, <2>7
    <3>2. \A m \in M!Are("open") : kind[m] # "speech"
      BY <1>2, <2>1, <3>1 DEF InReach
    <3>3. \A m \in M!Are("open") : m \in {serverAsr, visualizer}
      BY <1>2, <3>1, <3>2 DEF InReach, M!TypeOK, M!Are
    <3>4. M!Are("open")' = {} BY <2>2, <2>3, <3>3 DEF M!Are
    <3> QED BY <1>1, <2>1, <2>4, <3>1, <3>4, Ended DEF InReach
  <2> QED BY <2>4, <2>5, <2>6, <2>7, Ended DEF MicrophoneInv
<1>4. CASE M!StopRecogniser
  <2>1. /\ serverAsr = M!None /\ UNCHANGED <<transcribing, serverAsr>>
        /\ state' = [m \in M!Mic |-> IF m = asr THEN M!Stopped(asr, "closing")[m]
                                     ELSE M!Stopped(visualizer, "over")[m]]
        /\ micLoading' \in BOOLEAN /\ analysing' \in 0 .. MaxAnalyses
    <3>1. analysing \in 0 .. MaxAnalyses /\ micLoading \in BOOLEAN BY <1>2 DEF M!TypeOK
    <3>2. CASE heard
      <4>1. analysing < MaxAnalyses /\ analysing' = analysing + 1 /\ micLoading' = TRUE
        BY <1>4, <3>2 DEF M!StopRecogniser, M!runAlignmentAndTajweed
      <4>2. analysing' \in 0 .. MaxAnalyses BY <3>1, <4>1, BoundsAssumption
      <4> QED BY <1>4, <4>1, <4>2 DEF M!StopRecogniser
    <3>3. CASE ~heard BY <1>4, <3>1, <3>3 DEF M!StopRecogniser
    <3> QED BY <3>2, <3>3
  <2>2. \A m \in M!Mic : state'[m] = IF m = asr /\ state[m] = "open" THEN "closing"
                                     ELSE IF m # asr /\ m = visualizer /\ state[m] = "open" THEN "over"
                                     ELSE state[m]
    BY <1>2, <2>1 DEF M!Stopped
  <2>3. state' \in [M!Mic -> {"unused", "asked", "open", "closing", "over"}]
    <3>1. \A m \in M!Mic : state'[m] \in {"unused", "asked", "open", "closing", "over"}
      BY <1>2, <2>2
    <3> QED BY <2>1, <3>1
  <2>4. Ending BY <1>1, <2>2, <2>3 DEF Ending
  <2>5. M!TypeOK'
    <3>1. asr' \in {M!None} \union {m \in M!Mic : kind'[m] = "speech" /\ state'[m] # "asked"}
      BY <1>1, <1>2, <2>4 DEF M!TypeOK, Ending
    <3>2. transcribing' \subseteq M!Mic /\ analysing' \in 0 .. MaxAnalyses /\ micLoading' \in BOOLEAN
      BY <1>2, <2>1 DEF M!TypeOK
    <3>3. /\ kind' \in [M!Mic -> M!Recorders \union {"none", "speech", "waveform"}]
          /\ micStarting' \in BOOLEAN /\ heard' \in BOOLEAN /\ micMishaps' \subseteq M!Mishaps
          /\ micMounted' \in BOOLEAN
      BY <1>1, <1>2 DEF M!TypeOK
    <3>4. state' \in [M!Mic -> {"unused", "asked", "open", "closing", "over"}] BY <2>4 DEF Ending
    <3> QED BY <1>1, <2>1, <3>1, <3>2, <3>3, <3>4 DEF M!TypeOK
  <2>6. AskedOnce' BY <1>1, <1>2, <2>4, Ended DEF AskedOnce
  <2>7. ASSUME micMishaps' = {} PROVE InReach'
    <3>1. InReach BY <1>1, <1>2, <2>7
    <3>2. \A m \in M!Are("open") : m \in {asr, visualizer}
      BY <1>2, <2>1, <3>1 DEF InReach, M!Are
    <3>3. M!Are("open")' = {} BY <2>2, <3>2 DEF M!Are
    <3> QED BY <1>1, <2>1, <2>4, <3>1, <3>3, Ended DEF InReach
  <2> QED BY <2>4, <2>5, <2>6, <2>7, Ended DEF MicrophoneInv
<1> QED BY <1>1, <1>3, <1>4

LEMMA UnmountMicInv == ASSUME MicrophoneInv, M!Unmount PROVE MicrophoneInv'
<1>1. /\ micMounted' = FALSE /\ micMounted
      /\ state' = [m \in M!Mic |-> IF state[m] # "open" \/ m \notin {visualizer, serverAsr, asr} THEN state[m]
                                   ELSE IF m = asr THEN "closing" ELSE "over"]
      /\ micMishaps' = IF M!Are("asked") # {} THEN micMishaps \union {"unmounted"} ELSE micMishaps
      /\ UNCHANGED <<isRecording, micLoading, micStarting, stopRequested, serverAsr, asr, visualizer,
                     kind, transcribing, heard, analysing>>
  BY DEF M!Unmount, M!Happened, M!flags, M!refs, M!analyses
<1>2. /\ M!TypeOK /\ AskedOnce /\ (micMishaps = {} => InReach)
      /\ state \in [M!Mic -> {"unused", "asked", "open", "closing", "over"}]
  BY DEF MicrophoneInv, M!TypeOK
<1>3. \A m \in M!Mic :
        state'[m] = IF state[m] # "open" \/ m \notin {visualizer, serverAsr, asr} THEN state[m]
                    ELSE IF m = asr THEN "closing" ELSE "over"
  BY <1>1
<1>4. state' \in [M!Mic -> {"unused", "asked", "open", "closing", "over"}]
  <2>1. \A m \in M!Mic : state'[m] \in {"unused", "asked", "open", "closing", "over"}
    BY <1>2, <1>3
  <2> QED BY <1>1, <2>1
<1>5. Ending BY <1>1, <1>3, <1>4 DEF Ending
<1>6. M!TypeOK'
  <2>1. asr' \in {M!None} \union {m \in M!Mic : kind'[m] = "speech" /\ state'[m] # "asked"}
    BY <1>1, <1>2, <1>5 DEF M!TypeOK, Ending
  <2>2. \A m \in M!Mic : kind[m] # "speech" => m # asr
    BY <1>2 DEF M!TypeOK, M!None, M!Mic
  <2>3. \A m \in M!Mic : kind[m] # "speech" /\ state[m] \in {"open", "over"} => state'[m] \in {"open", "over"}
    BY <1>3, <2>2
  <2>4. /\ serverAsr' \in {M!None} \union {m \in M!Mic : kind'[m] \in M!Recorders /\ state'[m] \in {"open", "over"}}
        /\ visualizer' \in {M!None} \union {m \in M!Mic : kind'[m] = "waveform" /\ state'[m] \in {"open", "over"}}
    BY <1>1, <1>2, <2>3 DEF M!TypeOK, M!Recorders
  <2> QED BY <1>1, <1>2, <1>4, <2>1, <2>4 DEF M!TypeOK, M!Mishaps
<1>7. AskedOnce' BY <1>1, <1>2, <1>5, Ended DEF AskedOnce
<1>8. ASSUME micMishaps' = {} PROVE InReach'
  <2>1. InReach /\ M!Are("asked") = {} BY <1>1, <1>2, <1>8
  <2>2. M!Are("open")' = {} BY <1>3, <2>1 DEF InReach, M!Are
  <2> QED BY <1>1, <1>5, <2>1, <2>2, Ended DEF InReach
<1> QED BY <1>5, <1>6, <1>7, <1>8, Ended DEF MicrophoneInv

LEMMA MicrophoneStep == ASSUME MicrophoneInv, [M!Next]_(M!vars) PROVE MicrophoneInv'
<1>0. /\ M!TypeOK /\ state \in [M!Mic -> {"unused", "asked", "open", "closing", "over"}]
      /\ isRecording \in BOOLEAN /\ micLoading \in BOOLEAN /\ heard \in BOOLEAN
      /\ transcribing \subseteq M!Mic /\ analysing \in 0 .. MaxAnalyses /\ MaxAnalyses \in Nat
      /\ \A m \in M!Mic : state[m] = "closing" => m # serverAsr /\ m # visualizer
  BY BoundsAssumption DEF MicrophoneInv, M!TypeOK, M!None, M!Mic
<1>fed. M!runAlignmentAndTajweed => analysing' \in 0 .. MaxAnalyses /\ micLoading' = TRUE
  BY <1>0 DEF M!runAlignmentAndTajweed
<1>1. CASE M!startAsrRecording BY <1>1, RecordInv
<1>2. CASE M!toggleAsrRecording BY <1>2, StopRecordingInv
<1>3. CASE M!LeaveStep
  <2>1. /\ isRecording' = FALSE /\ micMishaps' = micMishaps \union {"left"} /\ heard' \in BOOLEAN
        /\ UNCHANGED <<micMounted, micLoading, micStarting, stopRequested, serverAsr, asr, visualizer,
                       kind, state, transcribing, analysing>>
    BY <1>0, <1>3 DEF M!LeaveStep, M!Happened, M!flags, M!refs, M!mics
  <2>2. Ending BY <1>0, <2>1 DEF Ending
  <2> QED BY <1>0, <2>1, <2>2, EndingInv DEF M!Mishaps
<1>4. CASE M!Unmount BY <1>4, UnmountMicInv
<1>5. CASE M!AnalysisEnds
  <2>1. /\ analysing > 0 /\ analysing' = analysing - 1 /\ micLoading' = FALSE
        /\ UNCHANGED <<micMounted, isRecording, micStarting, stopRequested, serverAsr, asr, visualizer,
                       kind, state, transcribing, heard, micMishaps>>
    BY <1>5 DEF M!AnalysisEnds, M!flags, M!refs, M!mics
  <2>2. analysing' \in 0 .. MaxAnalyses BY <1>0, <2>1
  <2>3. Ending BY <1>0, <2>1 DEF Ending
  <2> QED BY <1>0, <2>1, <2>2, <2>3, EndingInv
<1>6. ASSUME NEW m \in M!Mic, M!startMicVisualizer(m) PROVE MicrophoneInv' BY <1>6, VisualizerInv
<1>7. ASSUME NEW m \in M!Mic, M!RecorderOpens(m) PROVE MicrophoneInv' BY <1>7, OpensInv
<1>8. ASSUME NEW m \in M!Mic, M!RecorderFails(m) PROVE MicrophoneInv' BY <1>8, FailsInv
<1>9. ASSUME NEW m \in M!Mic, M!Closes(m) PROVE MicrophoneInv'
  <2>1. /\ state[m] = "closing" /\ state' = [state EXCEPT ![m] = "over"]
        /\ UNCHANGED <<micMounted, isRecording, micLoading, micStarting, stopRequested, serverAsr, asr, visualizer,
                       kind, transcribing, heard, analysing, micMishaps>>
    BY <1>9 DEF M!Closes, M!flags, M!refs, M!analyses
  <2>2. Ending BY <1>0, <2>1 DEF Ending
  <2>3. \A n \in M!Mic : state'[n] = "closing" => n # serverAsr /\ n # visualizer
    BY <1>0, <2>1
  <2> QED BY <1>0, <2>1, <2>2, <2>3, EndingInv
<1>10. ASSUME NEW m \in M!Mic, M!stopAndTranscribe(m) PROVE MicrophoneInv'
  <2>1. /\ transcribing' = transcribing \ {m} /\ heard' \in BOOLEAN
        /\ analysing' \in 0 .. MaxAnalyses /\ micLoading' \in BOOLEAN
        /\ UNCHANGED <<micMounted, isRecording, micStarting, stopRequested, serverAsr, asr, visualizer,
                       kind, state, micMishaps>>
    BY <1>0, <1>10, <1>fed DEF M!stopAndTranscribe, M!flags, M!refs, M!mics
  <2>2. Ending BY <1>0, <2>1 DEF Ending
  <2> QED BY <1>0, <2>1, <2>2, EndingInv
<1>11. ASSUME NEW m \in M!Mic, M!SpeechResult(m) PROVE MicrophoneInv'
  <2>1. /\ heard' = TRUE /\ analysing' \in 0 .. MaxAnalyses /\ micLoading' \in BOOLEAN
        /\ UNCHANGED <<micMounted, isRecording, micStarting, stopRequested, serverAsr, asr, visualizer,
                       kind, state, transcribing, micMishaps>>
    BY <1>0, <1>11, <1>fed DEF M!SpeechResult, M!flags, M!refs, M!mics
  <2>2. Ending BY <1>0, <2>1 DEF Ending
  <2> QED BY <1>0, <2>1, <2>2, EndingInv
<1>12. ASSUME NEW m \in M!Mic, M!SpeechEnds(m) PROVE MicrophoneInv'
  <2>1. /\ state[m] = "open" /\ state' = [state EXCEPT ![m] = "over"]
        /\ \/ UNCHANGED <<isRecording, micMishaps>>
           \/ isRecording' = FALSE /\ micMishaps' = micMishaps \union {"failed"}
        /\ UNCHANGED <<micMounted, micLoading, micStarting, stopRequested, serverAsr, asr, visualizer,
                       kind, transcribing, heard, analysing>>
    BY <1>12 DEF M!SpeechEnds, M!Happened, M!flags, M!refs, M!analyses
  <2>2. Ending BY <1>0, <2>1 DEF Ending
  <2>3. \A n \in M!Mic : state'[n] = "closing" => n # serverAsr /\ n # visualizer
    BY <1>0, <2>1
  <2> QED BY <1>0, <2>1, <2>2, <2>3, EndingInv DEF M!Mishaps
<1>13. CASE UNCHANGED M!vars
  <2>1. UNCHANGED <<micMounted, isRecording, micLoading, micStarting, stopRequested, serverAsr, asr, visualizer,
                    kind, state, transcribing, heard, analysing, micMishaps>>
    BY <1>13 DEF M!vars, M!flags, M!refs, M!mics, M!analyses
  <2>2. Ending BY <1>0, <2>1 DEF Ending
  <2> QED BY <1>0, <2>1, <2>2, EndingInv
<1> QED BY <1>1, <1>2, <1>3, <1>4, <1>5, <1>6, <1>7, <1>8, <1>9, <1>10, <1>11, <1>12, <1>13 DEF M!Next

LEMMA MicrophoneKeeps == MicrophoneInv => M!OneRecorderAsked /\ M!HotOnlyByMishap
<1> SUFFICES ASSUME MicrophoneInv PROVE M!OneRecorderAsked /\ M!HotOnlyByMishap
  OBVIOUS
<1>1. Cardinality(RecordersAsked) <= 1
  <2>1. CASE RecordersAsked = {} BY <2>1, FS_EmptySet
  <2>2. CASE RecordersAsked # {}
    <3>1. PICK m \in RecordersAsked : TRUE BY <2>2
    <3>2. RecordersAsked = {m} BY <3>1 DEF MicrophoneInv, AskedOnce
    <3> QED BY <3>2, FS_Singleton
  <2> QED BY <2>1, <2>2
<1>2. M!OneRecorderAsked BY <1>1, SameCount DEF M!OneRecorderAsked, RecordersAsked
<1>3. M!HotOnlyByMishap
  <2> SUFFICES ASSUME micMishaps = {}, NEW m \in M!Are("open") PROVE M!Heard(m)
    BY DEF M!HotOnlyByMishap
  <2>1. InReach BY DEF MicrophoneInv
  <2> QED BY <2>1 DEF InReach, M!Heard
<1> QED BY <1>2, <1>3

-----------------------------------------------------------------------------
(* The console's capture.                                                    *)
(* Starts are used in order, and a recorder that is not over has room for    *)
(* its last chunk.                                                           *)
StartsInOrder == \E k \in 0 .. MaxStarts : C!Start \ C!Mics({"unused"}) = 1 .. k
RoomLeft == \A n \in C!Start : mic[n] # "over" => chunks[n] <= MaxPieces

(* One recorder is asked for or runs: it is asked for while starting, and in *)
(* the ref when it runs.                                                     *)
Alone ==
  /\ \A m, n \in C!Mics({"asked", "open"}) : m = n
  /\ cardStarting <=> C!Mics({"asked"}) # {}
  /\ capture # C!None => ~cardStarting
  /\ \A n \in C!Mics({"open"}) : n = capture

(* While the card is there, a recorder that runs or is asked for has its     *)
(* uploader; after it, without the mishap, there is none.                    *)
Supplied ==
  /\ cardMounted /\ (cardStarting \/ capture # C!None) => uploader # C!None
  /\ ~cardMounted /\ "unmounted" \notin cardMishaps => C!Mics({"asked", "open"}) = {}

(* Without a mishap the uploader is that of whatever recorder is not over,   *)
(* and there is none between captures.                                       *)
Paired ==
  cardMishaps = {} =>
    /\ cardMounted /\ capture = C!None /\ ~cardStarting => uploader = C!None
    /\ \A n \in C!Mics({"asked", "open", "closing"}) : uploader # C!None /\ sockets[uploader] = "open" => uploader = n
    /\ C!Mics({"bare"}) = {}
    /\ \A n \in C!Start : sockets[n] = "open" => cardMounted /\ n = uploader
    /\ \A n \in C!Start : uploads[n] \subseteq {n}

CaptureInv == C!TypeOK /\ StartsInOrder /\ RoomLeft /\ Alone /\ Supplied /\ Paired /\ C!OnlyTheLastIsUnsent

-----------------------------------------------------------------------------
LEMMA StartsAreFew ==
  ASSUME NEW S \in SUBSET C!Start
  PROVE  IsFiniteSet(S) /\ Cardinality(S) \in Nat
<1>1. IsFiniteSet(C!Start) BY FS_Interval, BoundsAssumption DEF C!Start
<1> QED BY <1>1, FS_Subset, FS_CardinalityType

LEMMA MoreStarts ==
  ASSUME NEW S \in SUBSET C!Start, NEW T \in SUBSET C!Start, S \subseteq T
  PROVE  Cardinality(S) <= Cardinality(T)
BY StartsAreFew, FS_Subset

LEMMA OneMoreStart ==
  ASSUME NEW S \in SUBSET C!Start, NEW n \in C!Start, n \notin S
  PROVE  Cardinality(S \union {n}) = Cardinality(S) + 1
BY StartsAreFew, FS_AddElement

(* The number a start gets is the first that no start has.                   *)
LEMMA NextStart ==
  ASSUME StartsInOrder
  PROVE  \E k \in 0 .. MaxStarts : /\ C!Start \ C!Mics({"unused"}) = 1 .. k
                                   /\ Cardinality(C!Start \ C!Mics({"unused"})) = k
<1>1. PICK k \in 0 .. MaxStarts : C!Start \ C!Mics({"unused"}) = 1 .. k BY DEF StartsInOrder
<1>2. Cardinality(1 .. k) = k BY FS_Interval, <1>1, BoundsAssumption
<1> QED BY <1>1, <1>2

(* A start that is over stays so: there are never fewer.                     *)
LEMMA OverStays ==
  ASSUME C!OnlyTheLastIsUnsent, unsent \in Nat, unsent' = unsent,
         cardMishaps \subseteq cardMishaps', C!Mics({"over"}) \subseteq C!Mics({"over"})'
  PROVE  C!OnlyTheLastIsUnsent'
<1>1. C!Mics({"over"}) \in SUBSET C!Start /\ C!Mics({"over"})' \in SUBSET C!Start BY DEF C!Mics
<1>2. /\ Cardinality(C!Mics({"over"})) <= Cardinality(C!Mics({"over"})')
      /\ Cardinality(C!Mics({"over"})) \in Nat /\ Cardinality(C!Mics({"over"})') \in Nat
  BY <1>1, MoreStarts, StartsAreFew
<1>3. Cardinality(C!Mics({"over"})') = Cardinality(C!Mics({"over"}))' OBVIOUS
<1> QED BY <1>2, <1>3, SameCount DEF C!OnlyTheLastIsUnsent

LEMMA CaptureInit == ASSUME C!Init PROVE CaptureInv
<1> USE BoundsAssumption DEF C!Init, C!Mics, C!Start, C!None
<1>1. /\ C!TypeOK
      /\ RoomLeft /\ Alone
      /\ Supplied /\ Paired
  <2>1. C!TypeOK
    <3>1. /\ cardMounted \in BOOLEAN /\ cardStarting \in BOOLEAN
          /\ capture = C!None /\ uploader = C!None /\ unsent \in Nat /\ cardMishaps = {}
      OBVIOUS
    <3>2. /\ mic \in [C!Start -> {"unused", "asked", "bare", "open", "closing", "over"}]
          /\ sockets \in [C!Start -> {"unused", "open", "closed"}]
          /\ uploads \in [C!Start -> SUBSET C!Start]
      OBVIOUS
    <3>3. chunks \in [C!Start -> 0 .. MaxPieces + 1] OBVIOUS
    <3> HIDE DEF C!Init, C!Start, C!None
    <3> QED BY <3>1, <3>2, <3>3 DEF C!TypeOK
  <2>2. RoomLeft BY DEF RoomLeft
  <2>3. \A states : "unused" \notin states => C!Mics(states) = {} OBVIOUS
  <2>4. /\ C!Mics({"asked", "open"}) = {} /\ C!Mics({"asked"}) = {} /\ C!Mics({"open"}) = {}
        /\ C!Mics({"asked", "open", "closing"}) = {} /\ C!Mics({"bare"}) = {}
    BY <2>3
  <2> HIDE DEF C!Mics
  <2>5. Alone BY <2>4 DEF Alone
  <2>6. Supplied BY <2>4 DEF Supplied
  <2>7. Paired BY <2>4 DEF Paired
  <2> QED BY <2>1, <2>2, <2>5, <2>6, <2>7
<1>2. StartsInOrder
  <2>1. C!Start \ C!Mics({"unused"}) = 1 .. 0 OBVIOUS
  <2> QED BY <2>1 DEF StartsInOrder
<1>3. C!OnlyTheLastIsUnsent
  <2>1. C!Mics({"over"}) \in SUBSET C!Start OBVIOUS
  <2> QED BY <2>1, StartsAreFew, SameCount DEF C!OnlyTheLastIsUnsent
<1> QED BY <1>1, <1>2, <1>3 DEF CaptureInv

LEMMA StartInv == ASSUME CaptureInv, C!StartCapture PROVE CaptureInv'
<1>1. PICK n \in C!Start : /\ n = Cardinality(C!Start \ C!Mics({"unused"})) + 1
                         /\ mic' = [mic EXCEPT ![n] = "asked"]
                         /\ sockets' = [sockets EXCEPT ![n] = "open"] /\ uploader' = n
  BY SameCount DEF C!StartCapture
<1>2. PICK k \in 0 .. MaxStarts : C!Start \ C!Mics({"unused"}) = 1 .. k /\ n = k + 1
  BY <1>1, NextStart DEF CaptureInv
<1>3. mic[n] = "unused" BY <1>2 DEF C!Start, C!Mics
<1>4. /\ cardMounted /\ capture = C!None /\ ~cardStarting /\ cardStarting' = TRUE
      /\ cardMishaps' = IF C!Mics({"closing"}) # {} THEN cardMishaps \union {"restarted"} ELSE cardMishaps
      /\ UNCHANGED <<cardMounted, capture, chunks, uploads, unsent>>
  BY DEF C!StartCapture, C!FirstTap, C!Happened
<1> USE BoundsAssumption DEF CaptureInv, C!Mics, C!None
<1>none. C!Mics({"asked", "open"}) = {} BY <1>4 DEF Alone, C!Start
<1>5. C!TypeOK' BY <1>1, <1>3, <1>4 DEF C!TypeOK
<1>6. StartsInOrder'
  <2>1. (C!Start \ C!Mics({"unused"}))' = (C!Start \ C!Mics({"unused"})) \union {n}
    BY <1>1 DEF C!TypeOK
  <2>2. (1 .. k) \union {k + 1} = 1 .. (k + 1) OBVIOUS
  <2>3. (C!Start \ C!Mics({"unused"}))' = 1 .. (k + 1) BY <2>1, <2>2, <1>2
  <2>4. k + 1 \in 0 .. MaxStarts BY <1>2 DEF C!Start
  <2> QED BY <2>3, <2>4 DEF StartsInOrder
<1>7. RoomLeft' BY <1>1, <1>3, <1>4 DEF RoomLeft, C!TypeOK
<1>8. Alone'
  <2>1. C!Mics({"asked", "open"})' = {n} /\ C!Mics({"asked"})' = {n}
    BY <1>1, <1>none DEF C!TypeOK
  <2>2. C!Mics({"open"})' = {} BY <1>1, <1>none DEF C!TypeOK
  <2> QED BY <2>1, <2>2, <1>4 DEF Alone
<1>9. Supplied' BY <1>1, <1>3, <1>4 DEF Supplied, C!TypeOK, C!Start
<1>10. Paired'
  <2> SUFFICES ASSUME cardMishaps' = {}
               PROVE  /\ \A m \in C!Mics({"asked", "open", "closing"})' : n = m
                      /\ C!Mics({"bare"})' = {}
                      /\ \A m \in C!Start : sockets'[m] = "open" => m = n
                      /\ \A m \in C!Start : uploads'[m] \subseteq {m}
    BY <1>1, <1>4 DEF Paired
  <2>1. cardMishaps = {} /\ C!Mics({"closing"}) = {} /\ uploader = C!None /\ C!Mics({"bare"}) = {}
    BY <1>4 DEF Paired
  <2>2. \A m \in C!Start : sockets[m] # "open" BY <1>4, <2>1 DEF Paired, C!Start
  <2>3. C!Mics({"bare"})' = {} BY <2>1, <1>1 DEF C!TypeOK
  <2>4. \A m \in C!Start : uploads'[m] \subseteq {m} BY <2>1, <1>4 DEF Paired
  <2>5. \A m \in C!Mics({"asked", "open", "closing"})' : n = m
    BY <2>1, <1>1, <1>none DEF C!TypeOK
  <2> QED BY <1>1, <2>2, <2>3, <2>4, <2>5 DEF C!TypeOK
<1>11. C!OnlyTheLastIsUnsent' BY <1>1, <1>3, <1>4, OverStays DEF C!TypeOK
<1> QED BY <1>5, <1>6, <1>7, <1>8, <1>9, <1>10, <1>11

LEMMA StopInv == ASSUME CaptureInv, C!StopCapture PROVE CaptureInv'
<1> USE BoundsAssumption DEF CaptureInv, C!Mics, C!None
<1>1. /\ cardMounted /\ capture # C!None /\ capture' = C!None /\ uploader' = C!None
      /\ mic' = C!Stopped(capture) /\ sockets' = C!Closed(uploader)
      /\ UNCHANGED <<cardMounted, cardStarting, chunks, uploads, unsent, cardMishaps>>
  BY DEF C!StopCapture, C!Forgotten
<1>2. C!TypeOK' BY <1>1 DEF C!TypeOK, C!Stopped, C!Closed
<1>3. StartsInOrder' BY <1>1 DEF StartsInOrder, C!TypeOK, C!Stopped
<1>4. RoomLeft' BY <1>1 DEF RoomLeft, C!TypeOK, C!Stopped
<1>5. Alone' BY <1>1 DEF Alone, C!TypeOK, C!Stopped
<1>6. Supplied' BY <1>1 DEF Supplied, C!TypeOK, Alone
<1>7. Paired' BY <1>1 DEF Paired, C!TypeOK, C!Stopped, C!Closed
<1>8. C!OnlyTheLastIsUnsent' BY <1>1, OverStays DEF C!TypeOK, C!Stopped
<1> QED BY <1>2, <1>3, <1>4, <1>5, <1>6, <1>7, <1>8

LEMMA MicInv == ASSUME CaptureInv, NEW n \in C!Start, C!startBrowserMicCapture(n) PROVE CaptureInv'
<1> USE BoundsAssumption DEF CaptureInv, C!Mics, C!None
<1>1. /\ mic[n] = "asked" /\ cardStarting' = FALSE /\ cardStarting
      /\ UNCHANGED <<cardMounted, uploader, sockets, chunks, uploads, unsent>>
  BY DEF C!startBrowserMicCapture, Alone
<1>2. \A m \in C!Mics({"asked", "open"}) : m = n BY <1>1 DEF Alone
<1>3. \/ /\ mic' = [mic EXCEPT ![n] = "open"] /\ capture' = n /\ cardMishaps' = cardMishaps
      \/ /\ mic' = [mic EXCEPT ![n] = "over"] \/ mic' = [mic EXCEPT ![n] = "bare"]
         /\ capture' = C!None /\ cardMishaps' = cardMishaps \union {"refused"}
  BY DEF C!startBrowserMicCapture, C!Happened
<1>4. C!TypeOK' BY <1>1, <1>3 DEF C!TypeOK
<1>5. StartsInOrder' BY <1>1, <1>3 DEF StartsInOrder, C!TypeOK
<1>6. RoomLeft' BY <1>1, <1>3 DEF RoomLeft, C!TypeOK
<1>7. Alone' BY <1>1, <1>2, <1>3 DEF Alone, C!TypeOK, C!Start
<1>8. Supplied' BY <1>1, <1>2, <1>3 DEF Supplied, C!TypeOK
<1>9. Paired' BY <1>1, <1>2, <1>3 DEF Paired, C!TypeOK, C!Start
<1>10. C!OnlyTheLastIsUnsent' BY <1>1, <1>3, OverStays DEF C!TypeOK
<1> QED BY <1>4, <1>5, <1>6, <1>7, <1>8, <1>9, <1>10

LEMMA ChunkInv == ASSUME CaptureInv, NEW n \in C!Start, C!ondataavailable(n) PROVE CaptureInv'
<1> USE BoundsAssumption DEF CaptureInv, C!Mics, C!None
<1>1. /\ mic[n] = "open" /\ chunks[n] < MaxPieces /\ C!onChunk(n)
      /\ UNCHANGED <<cardMounted, capture, uploader, cardStarting, mic, sockets, cardMishaps>>
  BY DEF C!ondataavailable, C!refs
<1>2. n = capture BY <1>1 DEF Alone
<1>3. "unmounted" \notin cardMishaps => unsent' = unsent
  <2> SUFFICES ASSUME "unmounted" \notin cardMishaps PROVE uploader # C!None /\ sockets[uploader] = "open"
    BY <1>1 DEF C!onChunk
  <2>1. cardMounted BY <1>1 DEF Supplied
  <2>2. uploader # C!None BY <2>1, <1>2 DEF Supplied, C!Start
  <2> QED BY <2>1, <2>2 DEF C!TypeOK
<1>4. C!TypeOK' BY <1>1 DEF C!TypeOK, C!onChunk
<1>5. StartsInOrder' BY <1>1 DEF StartsInOrder
<1>6. RoomLeft' BY <1>1 DEF RoomLeft, C!TypeOK, C!onChunk
<1>7. Alone' BY <1>1 DEF Alone
<1>8. Supplied' BY <1>1 DEF Supplied
<1>9. Paired' BY <1>1 DEF Paired, C!TypeOK, C!onChunk
<1>10. C!OnlyTheLastIsUnsent' BY <1>1, <1>3 DEF C!OnlyTheLastIsUnsent
<1> QED BY <1>4, <1>5, <1>6, <1>7, <1>8, <1>9, <1>10

LEMMA OnstopInv == ASSUME CaptureInv, NEW n \in C!Start, C!onstop(n) PROVE CaptureInv'
<1> USE BoundsAssumption DEF CaptureInv, C!Mics, C!None
<1>1. /\ mic[n] \in {"open", "closing"} /\ mic' = [mic EXCEPT ![n] = "over"]
      /\ C!onChunk(n) \/ UNCHANGED <<chunks, uploads, unsent>>
      /\ UNCHANGED <<cardMounted, capture, uploader, cardStarting, sockets, cardMishaps>>
  BY DEF C!onstop, C!refs
<1>2. unsent' \in {unsent, unsent + 1} BY <1>1 DEF C!onChunk
<1>3. C!TypeOK' BY <1>1 DEF C!TypeOK, C!onChunk, RoomLeft
<1>4. StartsInOrder' BY <1>1 DEF StartsInOrder, C!TypeOK
<1>5. RoomLeft' BY <1>1 DEF RoomLeft, C!TypeOK, C!onChunk
<1>6. Alone' BY <1>1 DEF Alone, C!TypeOK
<1>7. Supplied' BY <1>1 DEF Supplied, C!TypeOK
<1>8. Paired' BY <1>1 DEF Paired, C!TypeOK, C!onChunk
<1>9. C!OnlyTheLastIsUnsent'
  <2>1. C!Mics({"over"})' = C!Mics({"over"}) \union {n} /\ n \notin C!Mics({"over"})
    BY <1>1 DEF C!TypeOK
  <2>2. C!Mics({"over"}) \in SUBSET C!Start OBVIOUS
  <2>3. Cardinality(C!Mics({"over"})') = Cardinality(C!Mics({"over"})) + 1
    BY <2>1, <2>2, OneMoreStart
  <2>4. Cardinality(C!Mics({"over"})) \in Nat BY <2>2, StartsAreFew
  <2> HIDE DEF C!Mics
  <2> QED BY <1>1, <1>2, <2>3, <2>4, SameCount DEF C!OnlyTheLastIsUnsent, C!TypeOK
<1> QED BY <1>3, <1>4, <1>5, <1>6, <1>7, <1>8, <1>9

LEMMA UnmountInv == ASSUME CaptureInv, C!Unmount PROVE CaptureInv'
<1> USE BoundsAssumption DEF CaptureInv, C!Mics, C!None
<1>1. /\ cardMounted /\ cardMounted' = FALSE /\ mic' = C!Stopped(capture) /\ sockets' = C!Closed(uploader)
      /\ cardMishaps' = IF cardStarting THEN cardMishaps \union {"unmounted"} ELSE cardMishaps
      /\ UNCHANGED <<capture, uploader, cardStarting, chunks, uploads, unsent>>
  BY DEF C!Unmount, C!Happened, C!refs
<1>2. C!TypeOK' BY <1>1 DEF C!TypeOK, C!Stopped, C!Closed
<1>3. StartsInOrder' BY <1>1 DEF StartsInOrder, C!TypeOK, C!Stopped
<1>4. RoomLeft' BY <1>1 DEF RoomLeft, C!TypeOK, C!Stopped
<1>5. Alone' BY <1>1 DEF Alone, C!TypeOK, C!Stopped
<1>6. Supplied'
  <2> SUFFICES ASSUME "unmounted" \notin cardMishaps' PROVE C!Mics({"asked", "open"})' = {}
    BY <1>1 DEF Supplied
  <2>1. C!Mics({"asked"}) = {} BY <1>1 DEF Alone
  <2>2. CASE capture = C!None
    <3>1. C!Mics({"open"}) = {} BY <2>2 DEF Alone, C!Start
    <3>2. mic' = mic BY <2>2, <1>1 DEF C!Stopped
    <3> QED BY <3>1, <3>2, <2>1
  <2>3. CASE capture # C!None
    <3>1. \A m \in C!Start : mic[m] = "open" => m = capture BY DEF Alone
    <3>2. capture \in C!Start BY <2>3 DEF C!TypeOK
    <3>3. \A m \in C!Start : mic[m] # "asked" BY <2>1
    <3>4. \A m \in C!Start : mic'[m] \notin {"asked", "open"}
      <4>1. CASE mic[capture] = "open"
        <5>1. mic' = [mic EXCEPT ![capture] = "closing"] BY <4>1, <2>3, <1>1 DEF C!Stopped
        <5>2. mic \in [C!Start -> {"unused", "asked", "bare", "open", "closing", "over"}]
          BY DEF C!TypeOK
        <5> HIDE DEF CaptureInv
        <5> QED BY <3>1, <3>2, <3>3, <5>1, <5>2
      <4>2. CASE mic[capture] # "open"
        <5>1. mic' = mic BY <4>2, <1>1 DEF C!Stopped
        <5> QED BY <3>1, <3>3, <4>2, <5>1
      <4> QED BY <4>1, <4>2
    <3> QED BY <3>4
  <2> QED BY <2>2, <2>3
<1>7. Paired'
  <2> SUFFICES ASSUME cardMishaps' = {}
               PROVE /\ uploader # C!None => sockets'[uploader] # "open"
                     /\ C!Mics({"bare"})' = {}
                     /\ \A m \in C!Start : sockets'[m] # "open"
                     /\ \A m \in C!Start : uploads'[m] \subseteq {m}
    BY <1>1 DEF Paired
  <2>1. cardMishaps = {} BY <1>1
  <2>2. \A m \in C!Start : sockets[m] = "open" => m = uploader BY <2>1 DEF Paired
  <2>3. \A m \in C!Start : sockets'[m] # "open" BY <2>2, <1>1 DEF C!Closed, C!TypeOK, C!Start
  <2>4. uploader # C!None => uploader \in C!Start BY DEF C!TypeOK
  <2>5. C!Mics({"bare"})' = {} BY <2>1, <1>1 DEF Paired, C!Stopped, C!TypeOK
  <2>6. \A m \in C!Start : uploads'[m] \subseteq {m} BY <2>1, <1>1 DEF Paired
  <2> QED BY <2>3, <2>4, <2>5, <2>6
<1>8. C!OnlyTheLastIsUnsent' BY <1>1, OverStays DEF C!TypeOK, C!Stopped
<1> QED BY <1>2, <1>3, <1>4, <1>5, <1>6, <1>7, <1>8

LEMMA CaptureStep == ASSUME CaptureInv, [C!Next]_(C!vars) PROVE CaptureInv'
<1>1. CASE C!StartCapture BY <1>1, StartInv
<1>2. CASE C!StopCapture BY <1>2, StopInv
<1>3. CASE \E n \in C!Start : C!startBrowserMicCapture(n) BY <1>3, MicInv
<1>4. CASE \E n \in C!Start : C!ondataavailable(n) BY <1>4, ChunkInv
<1>5. CASE \E n \in C!Start : C!onstop(n) BY <1>5, OnstopInv
<1>6. CASE C!Unmount BY <1>6, UnmountInv
<1>7. CASE UNCHANGED C!vars
  BY <1>7 DEF C!vars, C!refs, CaptureInv, C!TypeOK, StartsInOrder, RoomLeft, Alone, Supplied, Paired,
              C!OnlyTheLastIsUnsent, C!Mics
<1> QED BY <1>1, <1>2, <1>3, <1>4, <1>5, <1>6, <1>7 DEF C!Next, C!handleCaptureToggle

LEMMA CaptureKeeps ==
  CaptureInv => C!TypeOK /\ C!OneRecorder /\ C!LostOnlyByMishap /\ C!OnlyTheLastIsUnsent
<1> SUFFICES ASSUME CaptureInv
             PROVE  C!TypeOK /\ C!OneRecorder /\ C!LostOnlyByMishap /\ C!OnlyTheLastIsUnsent
  OBVIOUS
<1>1. C!OneRecorder
  <2>1. CASE C!Mics({"asked", "open"}) = {} BY <2>1, FS_EmptySet, SameCount DEF C!OneRecorder
  <2>2. CASE C!Mics({"asked", "open"}) # {}
    <3>1. PICK n \in C!Mics({"asked", "open"}) : TRUE BY <2>2
    <3>2. C!Mics({"asked", "open"}) = {n} BY <3>1 DEF CaptureInv, Alone
    <3> QED BY <3>2, FS_Singleton, SameCount DEF C!OneRecorder
  <2> QED BY <2>1, <2>2
<1>2. cardMishaps = {} => cardMounted \/ C!Mics({"open"}) = {}
  BY DEF CaptureInv, Supplied, C!Mics
<1>3. C!LostOnlyByMishap BY <1>2 DEF CaptureInv, C!LostOnlyByMishap, Paired, Alone, C!Mics
<1> QED BY <1>1, <1>3 DEF CaptureInv

-----------------------------------------------------------------------------
(* The teacher's screen.  What is being fetched is of the session shown, or  *)
(* its session was left meanwhile.                                           *)
FetchedForShown ==
  \A f \in fetching : f \notin strayed => teacherMounted /\ SessionOf[f] = selected
TeacherInv == R!TypeOK /\ FetchedForShown /\ R!OnePlayer /\ R!EmptyIsRead /\ R!LoadingIsReading

AudioType == [R!Player -> [of : Finding \union {Nothing},
                           is : {"unused", "starting", "sounding", "cut", "silent"}]]

(* After a pause nothing that the screen can pause sounds, and nothing else  *)
(* is changed.                                                               *)
LEMMA PausedPlayers ==
  ASSUME R!TypeOK
  PROVE  /\ R!Paused(element) \in AudioType
         /\ \A p \in R!Player :
              /\ R!Paused(element)[p].of = audio[p].of
              /\ R!Paused(element)[p].is = "unused" <=> audio[p].is = "unused"
              /\ R!Paused(element)[p].is \in {"starting", "sounding"} =>
                   p # element /\ audio[p].is \in {"starting", "sounding"}
<1>1. /\ audio \in AudioType
      /\ element = R!NoPlayer \/ element \in R!Player
      /\ R!NoPlayer \notin R!Player
  BY DEF R!TypeOK, AudioType, R!NoPlayer, R!Player
<1> DEFINE row(w) == [audio[element] EXCEPT !.is = w]
<1>2. CASE element = R!NoPlayer
  BY <1>1, <1>2 DEF R!Paused, AudioType
<1>3. ASSUME element # R!NoPlayer, NEW w \in {"cut", "silent"}, audio[element].is # "unused",
             R!Paused(element) = [audio EXCEPT ![element].is = w]
      PROVE  /\ R!Paused(element) \in AudioType
             /\ \A p \in R!Player :
                  /\ R!Paused(element)[p].of = audio[p].of
                  /\ R!Paused(element)[p].is = "unused" <=> audio[p].is = "unused"
                  /\ R!Paused(element)[p].is \in {"starting", "sounding"} =>
                       p # element /\ audio[p].is \in {"starting", "sounding"}
  BY <1>1, <1>3 DEF AudioType
<1>4. CASE element # R!NoPlayer /\ audio[element].is = "starting"
  BY <1>1, <1>3, <1>4 DEF R!Paused
<1>5. CASE element # R!NoPlayer /\ audio[element].is = "sounding"
  BY <1>1, <1>3, <1>5 DEF R!Paused
<1>6. CASE element # R!NoPlayer /\ audio[element].is \notin {"starting", "sounding"}
  BY <1>1, <1>6 DEF R!Paused, AudioType
<1> QED BY <1>2, <1>4, <1>5, <1>6

LEMMA TeacherInit == R!Init => TeacherInv
<1> SUFFICES ASSUME R!Init PROVE TeacherInv
  OBVIOUS
<1>1. R!TypeOK
  <2>1. audio \in [R!Player -> [of : Finding \union {Nothing},
                                is : {"unused", "starting", "sounding", "cut", "silent"}]]
    BY DEF R!Init
  <2>2. loads \in 0 .. MaxLoads BY BoundsAssumption DEF R!Init
  <2> QED BY <2>1, <2>2 DEF R!Init, R!TypeOK
<1>2. R!Sounding = {} BY DEF R!Init, R!Sounding
<1> QED BY <1>1, <1>2 DEF R!Init, TeacherInv, FetchedForShown, R!OnePlayer, R!EmptyIsRead, R!LoadingIsReading

(* The players are all that OnePlayer is about, the queue all that           *)
(* EmptyIsRead is.                                                           *)
playersAndPlace == <<teacherMounted, selected, playing, element, fetching, audio, strayed>>
queueShown == <<sessions, loading, queueError, loads, readEmpty>>
wordsShown == <<loadingAlignments, reads>>

LEMMA PlayersRest ==
  ASSUME TeacherInv, UNCHANGED playersAndPlace
  PROVE  FetchedForShown' /\ R!OnePlayer'
BY DEF TeacherInv, playersAndPlace, FetchedForShown, R!OnePlayer, R!Sounding

LEMMA Answered ==
  ASSUME TeacherInv, R!QueueAnswers, loads > 0
  PROVE  /\ loads' \in 0 .. MaxLoads /\ loading' = FALSE /\ queueError' \in BOOLEAN
         /\ sessions' \subseteq Session /\ readEmpty' \in BOOLEAN
         /\ R!EmptyIsRead'
<1>1. loads \in 0 .. MaxLoads /\ sessions \subseteq Session /\ queueError \in BOOLEAN /\ readEmpty \in BOOLEAN
  BY DEF TeacherInv, R!TypeOK
<1>2. loads' \in 0 .. MaxLoads /\ loading' = FALSE
  BY <1>1, BoundsAssumption DEF R!QueueAnswers
<1>3. \/ \E due \in SUBSET Session : sessions' = due /\ readEmpty' = (due = {}) /\ UNCHANGED queueError
      \/ sessions' \in {{}, sessions} /\ queueError' = TRUE /\ UNCHANGED readEmpty
  BY DEF R!QueueAnswers, R!ToldAtFailure
<1> QED BY <1>1, <1>2, <1>3 DEF R!EmptyIsRead

LEMMA Selected ==
  ASSUME TeacherInv, NEW s \in Session \union {Nothing}, R!Selects(s),
         UNCHANGED <<teacherMounted, fetching>>
  PROVE  /\ selected' \in Session \union {Nothing}
         /\ loadingAlignments' \in BOOLEAN /\ reads' \subseteq Session /\ R!LoadingIsReading'
         /\ playing' \in IF element' = R!NoPlayer THEN {Nothing} ELSE Finding \union {Nothing}
         /\ element' \in {R!NoPlayer} \union {p \in R!Player : audio'[p].is # "unused"}
         /\ audio' \in AudioType /\ strayed' \subseteq Finding
         /\ FetchedForShown' /\ R!OnePlayer'
<1>0. /\ R!TypeOK /\ FetchedForShown /\ R!OnePlayer /\ R!LoadingIsReading
      /\ fetching \subseteq Finding /\ strayed \subseteq Finding
      /\ selected' = s
  BY DEF TeacherInv, R!TypeOK, R!Selects
<1>1. CASE s = selected /\ UNCHANGED <<loadingAlignments, reads, playing, element, audio, strayed>>
  BY <1>0, <1>1 DEF R!TypeOK, AudioType, FetchedForShown, R!OnePlayer, R!Sounding, R!LoadingIsReading
<1>2. CASE /\ s # selected \/ s # Nothing
           /\ strayed' = IF s = selected THEN strayed ELSE strayed \union fetching
           /\ audio' = R!Paused(element) /\ element' = R!NoPlayer /\ R!NothingPlaying
           /\ IF s = Nothing
              THEN UNCHANGED <<loadingAlignments, reads>>
              ELSE loadingAlignments' = TRUE /\ reads' = reads \union {s}
  <2>1. /\ audio' \in AudioType /\ strayed' \subseteq Finding /\ playing' = Nothing
    BY <1>0, <1>2, PausedPlayers DEF R!NothingPlaying
  <2>2. loadingAlignments' \in BOOLEAN /\ reads' \subseteq Session /\ R!LoadingIsReading'
    BY <1>0, <1>2 DEF R!TypeOK, R!LoadingIsReading
  <2>3. FetchedForShown' BY <1>0, <1>2 DEF FetchedForShown
  <2>4. R!OnePlayer'
    <3>1. \A p \in R!Sounding' : p \in R!Sounding /\ p # element /\ audio'[p].of = audio[p].of
      BY <1>0, <1>2, PausedPlayers DEF R!Sounding
    <3>2. teacherMounted => R!Sounding' = {}
      BY <1>0, <3>1 DEF R!OnePlayer
    <3>3. strayed \subseteq strayed' BY <1>2
    <3> QED BY <1>0, <3>1, <3>2, <3>3 DEF R!OnePlayer
  <2> QED BY <1>0, <1>2, <2>1, <2>2, <2>3, <2>4
<1> QED BY <1>1, <1>2 DEF R!Selects, R!words

LEMMA TeacherStep == ASSUME TeacherInv, [R!Next]_(R!vars) PROVE TeacherInv'
<1>0. /\ R!TypeOK /\ FetchedForShown /\ R!OnePlayer /\ R!EmptyIsRead /\ R!LoadingIsReading
      /\ audio \in AudioType /\ MaxLoads \in Nat
  BY BoundsAssumption DEF TeacherInv, R!TypeOK, AudioType
<1>1. ASSUME NEW s \in Session, R!SelectSession(s) PROVE TeacherInv'
  <2>1. R!Selects(s) /\ UNCHANGED <<teacherMounted, queueShown, fetching, submitted>>
    BY <1>1 DEF R!SelectSession, R!queue, queueShown
  <2>2. R!TypeOK' BY <1>0, <2>1, Selected DEF R!TypeOK, queueShown, AudioType
  <2> QED BY <1>0, <2>1, <2>2, Selected DEF TeacherInv, queueShown, R!EmptyIsRead
<1>2. ASSUME NEW s \in Session, R!readSessionAlignments(s) PROVE TeacherInv'
  <2>1. /\ reads' = reads \ {s} /\ loadingAlignments' = FALSE
        /\ UNCHANGED <<playersAndPlace, queueShown, submitted>>
    BY <1>2 DEF R!readSessionAlignments, R!NotLoading, R!queue, R!players, queueShown, playersAndPlace
  <2>2. R!TypeOK' BY <1>0, <2>1 DEF R!TypeOK, queueShown, playersAndPlace
  <2> QED BY <1>0, <2>1, <2>2, PlayersRest DEF TeacherInv, queueShown, R!EmptyIsRead, R!LoadingIsReading
<1>3. CASE R!loadQueue
  <2>1. /\ loads < MaxLoads /\ loads' = loads + 1 /\ loading' = TRUE /\ queueError' = FALSE
        /\ UNCHANGED <<sessions, readEmpty, wordsShown, playersAndPlace, submitted>>
    BY <1>3 DEF R!loadQueue, R!Loads, R!words, R!players, wordsShown, playersAndPlace
  <2>2. loads' \in 0 .. MaxLoads /\ loading' \in BOOLEAN /\ queueError' \in BOOLEAN
    <3>1. loads \in 0 .. MaxLoads BY <1>0 DEF R!TypeOK
    <3>2. loads' = loads \/ (loads < MaxLoads /\ loads' = loads + 1) BY <2>1
    <3>3. loads' \in 0 .. MaxLoads BY <1>0, <3>1, <3>2
    <3> QED BY <1>0, <2>1, <3>3 DEF R!TypeOK
  <2>3. R!TypeOK' BY <1>0, <2>1, <2>2 DEF R!TypeOK, wordsShown, playersAndPlace
  <2> QED BY <1>0, <2>1, <2>3, PlayersRest DEF TeacherInv, wordsShown, R!EmptyIsRead, R!LoadingIsReading
<1>4. CASE R!readRecitationSessions
  <2>1. /\ loads > 0 /\ R!QueueAnswers /\ UNCHANGED <<wordsShown, playersAndPlace, submitted>>
    BY <1>0, <1>4 DEF R!readRecitationSessions, R!words, R!players, wordsShown, playersAndPlace, R!TypeOK
  <2>2. R!TypeOK' BY <1>0, <2>1, Answered DEF R!TypeOK, wordsShown, playersAndPlace
  <2> QED BY <1>0, <2>1, <2>2, Answered, PlayersRest DEF TeacherInv, wordsShown, R!LoadingIsReading
<1>5. ASSUME NEW f \in Finding, R!listen(f) PROVE TeacherInv'
  <2>1. /\ teacherMounted /\ SessionOf[f] = selected /\ audio' = R!Paused(element)
        /\ \/ playing' = Nothing /\ fetching' = fetching
           \/ playing' = playing /\ fetching' = fetching \union {f}
        /\ UNCHANGED <<teacherMounted, selected, queueShown, wordsShown, element, submitted, strayed>>
    BY <1>5 DEF R!listen, R!queue, R!words, queueShown, wordsShown
  <2>2. R!TypeOK'
    <3>1. audio' \in AudioType BY <1>0, <2>1, PausedPlayers
    <3>2. element' \in {R!NoPlayer} \union {p \in R!Player : audio'[p].is # "unused"}
      BY <1>0, <2>1, PausedPlayers DEF R!TypeOK
    <3>3. playing' \in IF element' = R!NoPlayer THEN {Nothing} ELSE Finding \union {Nothing}
      BY <1>0, <2>1 DEF R!TypeOK
    <3> QED BY <1>0, <2>1, <3>1, <3>2, <3>3 DEF R!TypeOK, AudioType, queueShown, wordsShown
  <2>3. FetchedForShown' BY <1>0, <2>1 DEF FetchedForShown
  <2>4. R!OnePlayer'
    <3>1. \A p \in R!Sounding' : p \in R!Sounding /\ p # element
      BY <1>0, <2>1, PausedPlayers DEF R!Sounding
    <3> QED BY <1>0, <2>1, <3>1 DEF R!OnePlayer
  <2> QED BY <1>0, <2>1, <2>2, <2>3, <2>4 DEF TeacherInv, queueShown, wordsShown, R!EmptyIsRead, R!LoadingIsReading
<1>6. ASSUME NEW f \in Finding, R!fetchFindingAudio(f) PROVE TeacherInv'
  <2>1. /\ f \in fetching /\ fetching' = fetching \ {f}
        /\ UNCHANGED <<teacherMounted, selected, queueShown, wordsShown, submitted, strayed>>
    BY <1>6 DEF R!fetchFindingAudio, R!queue, R!words, queueShown, wordsShown
  <2>2. FetchedForShown' BY <1>0, <2>1 DEF FetchedForShown
  <2>3. CASE UNCHANGED <<playing, element, audio>>
    <3>1. R!TypeOK' BY <1>0, <2>1, <2>3 DEF R!TypeOK, queueShown, wordsShown
    <3> QED BY <1>0, <2>1, <2>2, <2>3, <3>1
            DEF TeacherInv, queueShown, wordsShown, R!EmptyIsRead, R!LoadingIsReading, R!OnePlayer, R!Sounding
  <2>4. ASSUME NEW p \in R!Player,
               audio' = [(IF teacherMounted THEN R!PreviousPaused ELSE audio)
                           EXCEPT ![p] = [of |-> f, is |-> "starting"]],
               IF teacherMounted THEN element' = p /\ playing' = f ELSE UNCHANGED <<element, playing>>
        PROVE  TeacherInv'
    <3> DEFINE before == IF teacherMounted THEN R!Paused(element) ELSE audio
    <3>1. /\ before \in AudioType
          /\ \A q \in R!Player : /\ before[q].of = audio[q].of
                                 /\ before[q].is = "unused" <=> audio[q].is = "unused"
                                 /\ before[q].is \in {"starting", "sounding"} =>
                                      audio[q].is \in {"starting", "sounding"} /\ (teacherMounted => q # element)
      BY <1>0, PausedPlayers
    <3>2. audio' = [before EXCEPT ![p] = [of |-> f, is |-> "starting"]]
      BY <2>4 DEF R!PreviousPaused
    <3> HIDE DEF before
    <3>3. audio' \in AudioType BY <3>1, <3>2 DEF AudioType
    <3>4. /\ audio'[p] = [of |-> f, is |-> "starting"]
          /\ \A q \in R!Player : q # p => audio'[q] = before[q]
      BY <3>1, <3>2 DEF AudioType
    <3>5. element' \in {R!NoPlayer} \union {q \in R!Player : audio'[q].is # "unused"}
      BY <1>0, <2>4, <3>1, <3>4 DEF R!TypeOK
    <3>6. playing' \in IF element' = R!NoPlayer THEN {Nothing} ELSE Finding \union {Nothing}
      BY <1>0, <2>4 DEF R!TypeOK, R!NoPlayer, R!Player
    <3>7. R!TypeOK' BY <1>0, <2>1, <3>3, <3>5, <3>6 DEF R!TypeOK, AudioType, queueShown, wordsShown
    <3>8. R!OnePlayer'
      <4>1. \A q \in R!Sounding' : q # p => q \in R!Sounding /\ audio'[q].of = audio[q].of
                                            /\ (teacherMounted => q # element)
        BY <3>1, <3>4 DEF R!Sounding
      <4>2. teacherMounted => R!Sounding' \subseteq {element'}
        BY <1>0, <2>4, <4>1 DEF R!OnePlayer
      <4>3. audio'[p].of = f /\ (f \notin strayed => teacherMounted /\ SessionOf[f] = selected)
        BY <1>0, <2>1, <3>4 DEF FetchedForShown
      <4> QED BY <1>0, <2>1, <4>1, <4>2, <4>3 DEF R!OnePlayer
    <3> QED BY <1>0, <2>1, <2>2, <3>7, <3>8 DEF TeacherInv, queueShown, wordsShown, R!EmptyIsRead, R!LoadingIsReading
  <2> QED BY <1>6, <2>3, <2>4 DEF R!fetchFindingAudio
<1>7. ASSUME NEW p \in R!Player, R!Plays(p) PROVE TeacherInv'
  <2>1. /\ UNCHANGED <<teacherMounted, selected, queueShown, wordsShown, element, fetching, submitted, strayed>>
        /\ playing' \in {playing, Nothing}
    BY <1>7 DEF R!Plays, R!queue, R!words, queueShown, wordsShown
  <2>2. PICK w \in {"sounding", "silent"} :
          /\ audio' = [audio EXCEPT ![p].is = w] /\ audio[p].is # "unused"
          /\ w = "sounding" => audio[p].is = "starting"
    BY <1>7 DEF R!Plays
  <2>3. audio' \in AudioType BY <1>0, <2>2 DEF AudioType
  <2>4. \A q \in R!Player : /\ audio'[q].of = audio[q].of
                            /\ audio'[q].is = "unused" <=> audio[q].is = "unused"
                            /\ audio'[q].is \in {"starting", "sounding"} => audio[q].is \in {"starting", "sounding"}
    BY <1>0, <2>2 DEF AudioType
  <2>5. R!TypeOK' BY <1>0, <2>1, <2>3, <2>4 DEF R!TypeOK, AudioType, queueShown, wordsShown
  <2>6. R!OnePlayer' BY <1>0, <2>1, <2>4 DEF R!OnePlayer, R!Sounding
  <2> QED BY <1>0, <2>1, <2>5, <2>6 DEF TeacherInv, FetchedForShown, queueShown, wordsShown, R!EmptyIsRead, R!LoadingIsReading
<1>8. CASE R!handleReview
  <2>1. submitted' = "sent" /\ UNCHANGED <<playersAndPlace, queueShown, wordsShown>>
    BY <1>8 DEF R!handleReview, R!queue, R!words, R!players, queueShown, wordsShown, playersAndPlace
  <2>2. R!TypeOK' BY <1>0, <2>1 DEF R!TypeOK, queueShown, wordsShown, playersAndPlace
  <2> QED BY <1>0, <2>1, <2>2, PlayersRest DEF TeacherInv, queueShown, wordsShown, R!EmptyIsRead, R!LoadingIsReading
<1>9. CASE R!submitTeacherReview
  <2>1. /\ submitted' \in {"idle", "reloading"}
        /\ \/ loads < MaxLoads /\ loads' = loads + 1 /\ loading' = TRUE /\ queueError' = FALSE
           \/ loads' = loads /\ UNCHANGED <<loading, queueError>>
        /\ UNCHANGED <<sessions, readEmpty, wordsShown, playersAndPlace>>
    BY <1>9 DEF R!submitTeacherReview, R!Loads, R!words, R!players, wordsShown, playersAndPlace
  <2>2. loads' \in 0 .. MaxLoads /\ loading' \in BOOLEAN /\ queueError' \in BOOLEAN
    <3>1. loads \in 0 .. MaxLoads BY <1>0 DEF R!TypeOK
    <3>2. loads' = loads \/ (loads < MaxLoads /\ loads' = loads + 1)
      BY <1>9 DEF R!submitTeacherReview, R!Loads
    <3>3. loads' \in 0 .. MaxLoads BY <1>0, <3>1, <3>2
    <3> QED BY <1>0, <2>1, <3>3 DEF R!TypeOK
  <2>3. R!TypeOK' BY <1>0, <2>1, <2>2 DEF R!TypeOK, wordsShown, playersAndPlace
  <2> QED BY <1>0, <2>1, <2>3, PlayersRest DEF TeacherInv, wordsShown, R!EmptyIsRead, R!LoadingIsReading
<1>10. CASE R!Reviewed
  <2>1. /\ loads > 0 /\ R!QueueAnswers /\ R!Selects(Nothing) /\ submitted' = "idle"
        /\ UNCHANGED <<teacherMounted, fetching>>
    BY <1>10 DEF R!Reviewed
  <2>2. R!TypeOK' BY <1>0, <2>1, Answered, Selected DEF R!TypeOK, AudioType
  <2> QED BY <1>0, <2>1, <2>2, Answered, Selected DEF TeacherInv
<1>11. CASE R!Leave
  <2>1. /\ teacherMounted' = FALSE /\ teacherMounted /\ audio' = R!Paused(element)
        /\ strayed' = strayed \union fetching
        /\ UNCHANGED <<selected, queueShown, wordsShown, playing, element, fetching, submitted>>
    BY <1>11 DEF R!Leave, R!queue, R!words, queueShown, wordsShown
  <2>2. R!TypeOK'
    <3>1. audio' \in AudioType BY <1>0, <2>1, PausedPlayers
    <3>2. element' \in {R!NoPlayer} \union {p \in R!Player : audio'[p].is # "unused"}
      BY <1>0, <2>1, PausedPlayers DEF R!TypeOK
    <3> QED BY <1>0, <2>1, <3>1, <3>2 DEF R!TypeOK, AudioType, queueShown, wordsShown
  <2>3. FetchedForShown' BY <2>1 DEF FetchedForShown
  <2>4. \A p \in R!Sounding' : p \in R!Sounding /\ p # element
    BY <1>0, <2>1, PausedPlayers DEF R!Sounding
  <2>5. R!OnePlayer' BY <1>0, <2>1, <2>4 DEF R!OnePlayer
  <2> QED BY <1>0, <2>1, <2>2, <2>3, <2>5 DEF TeacherInv, queueShown, wordsShown, R!EmptyIsRead, R!LoadingIsReading
<1>12. CASE UNCHANGED R!vars
  <2>1. UNCHANGED <<playersAndPlace, queueShown, wordsShown, submitted>>
    BY <1>12 DEF R!vars, R!queue, R!words, R!players, queueShown, wordsShown, playersAndPlace
  <2>2. R!TypeOK' BY <1>0, <2>1 DEF R!TypeOK, queueShown, wordsShown, playersAndPlace
  <2> QED BY <1>0, <2>1, <2>2, PlayersRest DEF TeacherInv, queueShown, wordsShown, R!EmptyIsRead, R!LoadingIsReading
<1> QED BY <1>1, <1>2, <1>3, <1>4, <1>5, <1>6, <1>7, <1>8, <1>9, <1>10, <1>11, <1>12
        DEF R!Next, R!Teacher, R!Answer

-----------------------------------------------------------------------------
(* A step of one page is, to the other pages, none.                          *)
LEMMA PageStep ==
  ASSUME [WebNext]_webVars
  PROVE  /\ [Next]_vars /\ [P!Next]_(P!vars) /\ [M!Next]_(M!vars)
         /\ [C!Next]_(C!vars) /\ [R!Next]_(R!vars)
<1>1. UNCHANGED practiceVars => UNCHANGED P!vars
  BY DEF practiceVars, P!vars, P!screen, P!calls, P!server
<1>2. UNCHANGED microphoneVars => UNCHANGED M!vars
  BY DEF microphoneVars, M!vars, M!flags, M!refs, M!mics, M!analyses
<1>3. UNCHANGED captureVars => UNCHANGED C!vars
  BY DEF captureVars, C!vars, C!refs
<1>4. UNCHANGED reviewVars => UNCHANGED R!vars
  BY DEF reviewVars, R!vars, R!queue, R!words, R!players
<1>5. UNCHANGED webVars =>
        UNCHANGED vars /\ UNCHANGED practiceVars /\ UNCHANGED microphoneVars
        /\ UNCHANGED captureVars /\ UNCHANGED reviewVars
  BY DEF webVars
<1> QED BY <1>1, <1>2, <1>3, <1>4, <1>5 DEF WebNext, Resting

(* The web client is its pages: the upload, the practice, the microphones,   *)
(* the console's capture and the teacher's screen each behave as the module  *)
(* that describes them alone (the pages of App.tsx share no state).          *)
THEOREM PagesBehave == WebSpec => Spec /\ P!Spec /\ M!Spec /\ C!Spec /\ R!Spec
<1>1. WebInit => Init /\ P!Init /\ M!Init /\ C!Init /\ R!Init BY DEF WebInit
<1> QED BY <1>1, PageStep, PTL DEF WebSpec, Spec, P!Spec, M!Spec, C!Spec, R!Spec

LEMMA PracticeAlways == P!Spec => []PracticeInv
BY PracticeInit, PracticeStep, PTL DEF P!Spec

LEMMA MicrophoneAlways == M!Spec => []MicrophoneInv
BY MicrophoneInit, MicrophoneStep, PTL DEF M!Spec

LEMMA CaptureAlways == C!Spec => []CaptureInv
BY CaptureInit, CaptureStep, PTL DEF C!Spec

LEMMA TeacherAlways == R!Spec => []TeacherInv
BY TeacherInit, TeacherStep, PTL DEF R!Spec

(* Every variable of every page keeps its type, whatever the bounds: the     *)
(* upload's buffer does not outgrow its bound (pushBoundedDropOldest), a     *)
(* recorder that was told to stop has left serverAsrRef, and an uploader     *)
(* that was closed has left uploaderRef while the card is there.             *)
THEOREM PagesTypedHolds == WebSpec => []PagesTyped
<1>1. TypeOK /\ PracticeInv /\ MicrophoneInv /\ CaptureInv /\ TeacherInv => PagesTyped
  BY DEF PracticeInv, MicrophoneInv, CaptureInv, TeacherInv, PagesTyped
<1> QED
  BY <1>1, PagesBehave, TypeCorrect, PracticeAlways, MicrophoneAlways, CaptureAlways, TeacherAlways, PTL

(* However the learner goes home and starts again while the server has yet   *)
(* to answer, a practice is reviewed at most once, and a session holds what  *)
(* was recited in it, or in a practice that began too early                  *)
(* (completedSaveRef, startPractice).                                        *)
THEOREM PracticesStayApart == WebSpec => []PracticesApart
<1>1. PracticeInv => PracticesApart BY PracticeKeeps DEF PracticesApart
<1> QED BY <1>1, PagesBehave, PracticeAlways, PTL

(* What the learner's and the teacher's screens claim is so.                 *)
THEOREM ClaimsHold == WebSpec => []ClaimsAreTrue
<1>1. PracticeInv /\ TeacherInv => ClaimsAreTrue
  BY PracticeKeeps DEF ClaimsAreTrue, TeacherInv
<1> QED BY <1>1, PagesBehave, PracticeAlways, TeacherAlways, PTL

(* Of recorders and players there is one at a time, and what is open is      *)
(* within reach of what stops it, but for the named mishaps.                 *)
THEOREM NothingStaysOpen == WebSpec => []NothingLeftOpen
<1>1. MicrophoneInv /\ CaptureInv /\ TeacherInv => NothingLeftOpen
  BY MicrophoneKeeps, CaptureKeeps DEF NothingLeftOpen, TeacherInv
<1> QED BY <1>1, PagesBehave, MicrophoneAlways, CaptureAlways, TeacherAlways, PTL
=============================================================================
