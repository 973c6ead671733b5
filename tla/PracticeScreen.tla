--------------------------- MODULE PracticeScreen ---------------------------
(* The learner's practice in the web application (AuthenticatedApp of        *)
(* App.tsx): the steps of a practice, the session the server opens for it,   *)
(* the analysis of a recitation, the review that is saved at the end and the *)
(* request to a teacher.  Each call to the server is answered while the      *)
(* learner goes on, perhaps home and into the next practice.                 *)
(*                                                                           *)
(* Practices are numbered.  A session that the server opened has the number  *)
(* of the practice it was opened for; -p is the name that the screen makes   *)
(* up when opening one for practice p has failed, 0 the empty name it starts *)
(* with.  A recitation, and what is computed from it, has the number of the  *)
(* practice it was recited in.  A handler is one step up to its first await, *)
(* and each answer is a step; a handler uses the state that was rendered     *)
(* when it was called.                                                       *)
EXTENDS Integers, Sequences

CONSTANTS Steps,            \* practiceSteps, in order
          MaxPractices,     \* bound: practices begun
          MaxCalls          \* bound: recitations analysed and requests to a teacher

StepIds == {Steps[i] : i \in DOMAIN Steps}

Practice == 1 .. MaxPractices
None == 0
SessionName == -MaxPractices .. MaxPractices

VARIABLES mode,           \* practiceMode
          sessionId,
          results,        \* the practice recited in alignmentResults; None when empty
          isLoading,
          saveState,
          sendState,      \* teacherSendState
          completedSave,  \* completedSaveRef
          practice,       \* practices begun
          creates,        \* practices whose createRecitationSession is unanswered
          analysis,       \* runAlignmentAndTajweed
          persists,       \* persistSessionAlignments under way
          saves,          \* updateLearnerProgress under way
          sends,          \* requestTeacherReview under way
          stored,         \* server: whose recitation a session holds
          reviews,        \* server: the recitations scored for each practice
          sent,           \* server: sessions sent to a teacher
          begun,          \* recitations analysed and requests to a teacher
          unsettled       \* history: practices begun, or recited in, before an
                          \* earlier call was answered or its answer removed

screen == <<mode, sessionId, results, isLoading, saveState, sendState, completedSave>>
calls == <<creates, analysis, persists, saves, sends>>
server == <<stored, reviews, sent>>
vars == <<screen, practice, calls, server, begun, unsettled>>

Idle == [at |-> "idle", of |-> None, session |-> None]

TypeOK ==
  /\ mode \in StepIds \union {"home"} /\ sessionId \in SessionName
  /\ results \in Practice \union {None} /\ isLoading \in BOOLEAN
  /\ saveState \in {"idle", "saved", "nothing-recited", "failed"}
  /\ sendState \in {"idle", "sent", "failed", "nothing-to-send"}
  /\ completedSave \in BOOLEAN /\ practice \in 0 .. MaxPractices
  /\ creates \subseteq Practice
  /\ analysis \in [at : {"idle", "aligning", "timing", "tajweed"},
                   of : Practice \union {None}, session : SessionName]
  /\ persists \subseteq [session : SessionName \ {None}, of : Practice]
  /\ saves \subseteq [for : Practice, of : Practice]
  /\ sends \subseteq [for : Practice, session : SessionName \ {None}]
  /\ stored \in [Practice -> Practice \union {None}]
  /\ reviews \in [Practice -> Seq(Practice)]
  /\ sent \subseteq Practice /\ begun \in 0 .. MaxCalls /\ unsettled \subseteq Practice

Init ==
  /\ mode = "home" /\ sessionId = None /\ results = None /\ isLoading = FALSE
  /\ saveState = "idle" /\ sendState = "idle" /\ completedSave = FALSE
  /\ practice = 0 /\ creates = {} /\ analysis = Idle
  /\ persists = {} /\ saves = {} /\ sends = {}
  /\ stored = [p \in Practice |-> None] /\ reviews = [p \in Practice |-> <<>>]
  /\ sent = {} /\ begun = 0 /\ unsettled = {}

-----------------------------------------------------------------------------
(* Begin, from the home screen.  The screen forgets neither the session, nor *)
(* results, nor the state of a request to a teacher: going home did that,    *)
(* for those that were there then.                                           *)
Pending == \/ creates # {} \/ analysis.at # "idle" \/ saves # {} \/ sends # {}
           \/ results # None \/ sendState # "idle"

startPractice ==
  /\ mode = "home" /\ practice < MaxPractices
  /\ mode' = "listen" /\ saveState' = "idle" /\ completedSave' = FALSE
  /\ practice' = practice + 1 /\ creates' = creates \union {practice'}
  /\ unsettled' = IF Pending THEN unsettled \union {practice'} ELSE unsettled
  /\ UNCHANGED <<sessionId, results, isLoading, sendState, analysis, persists, saves, sends, server, begun>>

KeptOnFailure(p) == sessionId
OfflineName(p) == -p

createRecitationSession(p) ==
  /\ p \in creates /\ creates' = creates \ {p}
  /\ sessionId' \in {p, OfflineName(p)}
  /\ UNCHANGED <<mode, results, isLoading, saveState, sendState, completedSave, practice,
                 analysis, persists, saves, sends, server, begun, unsettled>>

-----------------------------------------------------------------------------
(* The review saved on completion: once for a practice, and of the results   *)
(* on the screen.                                                            *)
AlwaysSave == TRUE
FirstSave == ~completedSave

saveProgressFromPractice ==
  IF results = None
  THEN saveState' = "nothing-recited" /\ UNCHANGED saves
  ELSE saves' = saves \union {[for |-> practice, of |-> results]} /\ UNCHANGED saveState

triggerCompletionSave ==
  IF FirstSave
  THEN completedSave' = TRUE /\ saveProgressFromPractice
  ELSE UNCHANGED <<completedSave, saveState, saves>>

(* "Next step", disabled on the last one.  The updater, which notices that   *)
(* the step is the last, has run when setPracticeMode returns if React had   *)
(* no update pending for the component, and runs at the next render, after   *)
(* the handler, if it had.                                                   *)
advancePractice ==
  \E i \in 1 .. Len(Steps) - 1, ranAtOnce \in BOOLEAN :
    /\ mode = Steps[i] /\ mode' = Steps[i + 1]
    /\ IF ranAtOnce /\ mode' = "complete"
       THEN triggerCompletionSave
       ELSE UNCHANGED <<completedSave, saveState, saves>>
    /\ UNCHANGED <<sessionId, results, isLoading, sendState, practice, creates, analysis,
                   persists, sends, server, begun, unsettled>>

selectMode(target) ==
  /\ mode # "home" /\ mode' = target
  /\ IF target = "complete"
     THEN triggerCompletionSave
     ELSE UNCHANGED <<completedSave, saveState, saves>>
  /\ UNCHANGED <<sessionId, results, isLoading, sendState, practice, creates, analysis,
                 persists, sends, server, begun, unsettled>>

(* The update and the read that follows it: both succeed, or one of them     *)
(* fails, the update perhaps after the server recorded it.                   *)
Unhandled == saveState
Failed == "failed"

updateLearnerProgress(s) ==
  /\ s \in saves /\ saves' = saves \ {s}
  /\ \/ /\ reviews' = [reviews EXCEPT ![s.for] = Append(@, s.of)]
        /\ saveState' \in {"saved", Failed}
     \/ saveState' = Failed /\ UNCHANGED reviews
  /\ UNCHANGED <<mode, sessionId, results, isLoading, sendState, completedSave, practice,
                 creates, analysis, persists, sends, stored, sent, begun, unsettled>>

resetPractice ==
  /\ mode # "home" /\ mode' = "home"
  /\ results' = None /\ sendState' = "idle" /\ saveState' = "idle" /\ completedSave' = FALSE
  /\ UNCHANGED <<sessionId, isLoading, practice, calls, server, begun, unsettled>>

-----------------------------------------------------------------------------
(* "Send to teacher", offered in the correction step.                        *)
sendToTeacher ==
  /\ mode = "correction" /\ mode' = "drill"
  /\ begun < MaxCalls /\ begun' = begun + 1
  /\ IF sessionId = None \/ results = None
     THEN sendState' = "nothing-to-send" /\ UNCHANGED sends
     ELSE sends' = sends \union {[for |-> practice, session |-> sessionId]} /\ UNCHANGED sendState
  /\ UNCHANGED <<sessionId, results, isLoading, saveState, completedSave, practice, creates,
                 analysis, persists, saves, server, unsettled>>

(* Only a session that the server knows can be sent.                         *)
SentBlindly(s) == TRUE
Confirmed(s) == s.session \in Practice

requestTeacherReview(s) ==
  /\ s \in sends /\ sends' = sends \ {s}
  /\ \/ Confirmed(s) /\ sent' = sent \union ({s.session} \intersect Practice) /\ sendState' = "sent"
     \/ sendState' = "failed" /\ UNCHANGED sent
  /\ UNCHANGED <<mode, sessionId, results, isLoading, saveState, completedSave, practice,
                 creates, analysis, persists, saves, stored, reviews, begun, unsettled>>

-----------------------------------------------------------------------------
(* A recitation has been recorded and stopped: transcription and alignment,  *)
(* then timings, then the tajweed rules.  The button is disabled meanwhile.  *)
Recite ==
  /\ mode # "home" /\ ~isLoading /\ isLoading' = TRUE
  /\ begun < MaxCalls /\ begun' = begun + 1
  /\ analysis' = [at |-> "aligning", of |-> practice, session |-> sessionId]
  /\ unsettled' = IF creates # {} THEN unsettled \union {practice} ELSE unsettled
  /\ UNCHANGED <<mode, sessionId, results, saveState, sendState, completedSave, practice,
                 creates, persists, saves, sends, server>>

LeftLoading == UNCHANGED isLoading
NotLoading == isLoading' = FALSE

(* The transcription or the alignment fails, or the alignment is shown.      *)
predictAlignment ==
  /\ analysis.at = "aligning"
  /\ \/ NotLoading /\ analysis' = Idle /\ UNCHANGED results
     \/ /\ results' = analysis.of /\ analysis' = [analysis EXCEPT !.at = "timing"]
        /\ UNCHANGED isLoading
  /\ UNCHANGED <<mode, sessionId, saveState, sendState, completedSave, practice, creates,
                 persists, saves, sends, server, begun, unsettled>>

AnySession == TRUE
HasSession == analysis.session # None

(* Forced alignment answers, or fails, which is no matter; the alignment is  *)
(* sent to the session that was rendered when the recording was stopped, and *)
(* the tajweed rules are asked for without waiting for that.                 *)
forceAlign ==
  /\ analysis.at = "timing" /\ analysis' = [analysis EXCEPT !.at = "tajweed"]
  /\ persists' = IF HasSession
                 THEN persists \union {[session |-> analysis.session, of |-> analysis.of]}
                 ELSE persists
  /\ UNCHANGED <<screen, practice, creates, saves, sends, server, begun, unsettled>>

predictTajweed ==
  /\ analysis.at = "tajweed" /\ analysis' = Idle /\ NotLoading
  /\ UNCHANGED <<mode, sessionId, results, saveState, sendState, completedSave, practice,
                 creates, persists, saves, sends, server, begun, unsettled>>

(* The server replaces the session's alignments, or refuses, or is away.     *)
persistSessionAlignments(p) ==
  /\ p \in persists /\ persists' = persists \ {p}
  /\ \/ p.session \in Practice /\ stored' = [stored EXCEPT ![p.session] = p.of]
     \/ UNCHANGED stored
  /\ UNCHANGED <<screen, practice, creates, analysis, saves, sends, reviews, sent, begun, unsettled>>

-----------------------------------------------------------------------------
Answer == \/ \E p \in creates : createRecitationSession(p)
          \/ \E s \in saves : updateLearnerProgress(s)
          \/ \E s \in sends : requestTeacherReview(s)
          \/ \E p \in persists : persistSessionAlignments(p)
Analyse == predictAlignment \/ forceAlign \/ predictTajweed
Learner == \/ startPractice \/ advancePractice \/ resetPractice \/ sendToTeacher \/ Recite
           \/ \E target \in StepIds : selectMode(target)

Next == Learner \/ Answer \/ Analyse

(* Every call has a time limit (fetchWithTimeout), so each is answered, if   *)
(* only by an error.                                                         *)
Fairness == /\ WF_vars(Analyse)
            /\ \A p \in Practice : WF_vars(\E s \in saves : s.for = p /\ updateLearnerProgress(s))

Spec == Init /\ [][Next]_vars /\ Fairness

-----------------------------------------------------------------------------
(* A practice is reviewed at most once, whichever way and however often its  *)
(* last step is reached (completedSaveRef).                                  *)
OneReviewPerPractice == \A p \in Practice : Len(reviews[p]) <= 1

(* In a practice that began when nothing earlier was under way or left over, *)
(* and was recited in when its session's name was known, the screen says     *)
(* "saved" only when one review, of what was recited in it, is recorded, and *)
(* "sent" only when its own session is with a teacher (saveState,            *)
(* teacherSendState).                                                        *)
ClaimsAreTrue ==
  practice \notin unsettled =>
    /\ saveState = "saved" => reviews[practice] = <<practice>>
    /\ sendState = "sent" => practice \in sent

(* A session holds another practice's recitation only if that practice began *)
(* or was recited in too early: failing to open a session does not send what *)
(* is recited next to the one before (the offline name of startPractice).    *)
RecordsAreOwn ==
  \A s \in Practice : stored[s] \in {None, s} \union unsettled

(* The screen does not stay in "Analyzing…", which locks the record button   *)
(* (the finally of runAlignmentAndTajweed, fetchWithTimeout).                *)
LoadingEnds == isLoading ~> ~isLoading

(* A practice that began to save its review comes to say what became of it,  *)
(* unless the learner goes home.                                             *)
SaveSettles == completedSave /\ saveState = "idle" ~> saveState # "idle" \/ ~completedSave
=============================================================================
