------------------------------ MODULE WebClient ------------------------------
(* The web client: one of its pages, as the user has opened it.              *)
(*                                                                           *)
(*   upload      startGatewayAudioUpload against the gateway                 *)
(*   practice    what a practice tells the server                            *)
(*   microphone  the microphones of a practice                               *)
(*   capture     the operations console's capture                            *)
(*   queue       a teacher going through the queue                           *)
(*   listening   a teacher listening to findings                             *)
(*                                                                           *)
(* No two of them share state, so each is explored by itself and the others  *)
(* rest in their initial states.                                             *)
EXTENDS ReconnectClient

CONSTANTS Steps, MaxPractices, MaxCalls,        \* of PracticeScreen
          MaxMics, MaxAnalyses,                 \* of PracticeMicrophone
          MaxStarts, MaxPieces,                 \* of ConsoleCapture
          Session, Finding, SessionOf, Nothing, \* of ReviewScreen
          MaxPlayers, MaxLoads

VARIABLES
  page,
  \* practice
  mode, sessionId, results, isLoading, saveState, sendState, completedSave,
  practice, creates, analysis, persists, saves, sends, stored, reviews, sent,
  begun, unsettled,
  \* microphone
  micMounted, isRecording, micLoading, micStarting, stopRequested, serverAsr, asr,
  visualizer, kind, state, transcribing, heard, analysing, micMishaps,
  \* capture
  cardMounted, capture, uploader, cardStarting, mic, sockets, chunks, uploads,
  unsent, cardMishaps,
  \* queue and listening
  teacherMounted, sessions, loading, queueError, loads, readEmpty, selected,
  loadingAlignments, reads, playing, element, fetching, audio, submitted, strayed

practiceVars ==
  <<mode, sessionId, results, isLoading, saveState, sendState, completedSave,
    practice, creates, analysis, persists, saves, sends, stored, reviews, sent,
    begun, unsettled>>
microphoneVars ==
  <<micMounted, isRecording, micLoading, micStarting, stopRequested, serverAsr, asr,
    visualizer, kind, state, transcribing, heard, analysing, micMishaps>>
captureVars ==
  <<cardMounted, capture, uploader, cardStarting, mic, sockets, chunks, uploads,
    unsent, cardMishaps>>
reviewVars ==
  <<teacherMounted, sessions, loading, queueError, loads, readEmpty, selected,
    loadingAlignments, reads, playing, element, fetching, audio, submitted, strayed>>
webVars == <<page, vars, practiceVars, microphoneVars, captureVars, reviewVars>>

P == INSTANCE PracticeScreen
M == INSTANCE PracticeMicrophone WITH mounted <- micMounted, isLoading <- micLoading,
       starting <- micStarting, mishaps <- micMishaps
C == INSTANCE ConsoleCapture WITH mounted <- cardMounted, starting <- cardStarting,
       mishaps <- cardMishaps, socket <- sockets, MaxChunks <- MaxPieces
R == INSTANCE ReviewScreen WITH mounted <- teacherMounted, None <- Nothing

ASSUME BoundsAssumption ==
  /\ MaxPractices \in Nat /\ MaxCalls \in Nat /\ MaxMics \in Nat /\ MaxAnalyses \in Nat
  /\ MaxStarts \in Nat /\ MaxPieces \in Nat /\ MaxPlayers \in Nat /\ MaxLoads \in Nat \ {0}

ASSUME StepsAssumption ==
  /\ Steps \in Seq(STRING) /\ "home" \notin P!StepIds
  /\ {"listen", "correction", "drill", "complete"} \subseteq P!StepIds

Pages == {"upload", "practice", "microphone", "capture", "queue", "listening"}

WebInit == page \in Pages /\ Init /\ P!Init /\ M!Init /\ C!Init /\ R!Init

(* While the teacher listens, the queue is read when the screen opens and    *)
(* after a decision, and is always the same; other queues, failures and      *)
(* Retry are for the page before.                                            *)
Listening ==
  /\ loads' > loads => submitted' = "reloading"
  /\ ~queueError' /\ sessions' \in {sessions, Session}

(* The pages that wait for their user may rest; the upload must go on.       *)
Resting == page # "upload" /\ UNCHANGED webVars

WebNext ==
  \/ /\ page = "upload" /\ Next
     /\ UNCHANGED <<page, practiceVars, microphoneVars, captureVars, reviewVars>>
  \/ /\ page = "practice" /\ P!Next
     /\ UNCHANGED <<page, vars, microphoneVars, captureVars, reviewVars>>
  \/ /\ page = "microphone" /\ M!Next
     /\ UNCHANGED <<page, vars, practiceVars, captureVars, reviewVars>>
  \/ /\ page = "capture" /\ C!Next
     /\ UNCHANGED <<page, vars, practiceVars, microphoneVars, reviewVars>>
  \/ /\ page = "queue" /\ R!Next /\ fetching' = {}
     /\ UNCHANGED <<page, vars, practiceVars, microphoneVars, captureVars>>
  \/ /\ page = "listening" /\ R!Next /\ Listening
     /\ UNCHANGED <<page, vars, practiceVars, microphoneVars, captureVars>>
  \/ Resting

(* The fairness of each page, as its module has it (that of the upload is    *)
(* NoticedSpec's, written out, since a page that is not open is not fair).   *)
Uploading(A) == page = "upload" /\ A

WebSpec ==
  /\ WebInit /\ [][WebNext]_webVars
  /\ WF_vars(Uploading(BackoffElapsed)) /\ WF_vars(Uploading(TicketMinted \/ TicketFails))
  /\ \A c \in Conn :
       /\ WF_vars(Uploading(SocketOpens(c) \/ SocketCloses(c)))
       /\ WF_vars(Uploading(StartSession(c) \/ RefuseSession(c)))
       /\ WF_vars(Uploading(ReceiveFrame(c))) /\ WF_vars(Uploading(HandlerEnds(c)))
  /\ P!Fairness

-----------------------------------------------------------------------------
(* Every variable of every page keeps its type, the upload's buffer its      *)
(* bound, and a handle that was used is forgotten (pushBoundedDropOldest,    *)
(* serverAsrRef, uploaderRef).                                               *)
PagesTyped == TypeOK /\ P!TypeOK /\ M!TypeOK /\ C!TypeOK /\ R!TypeOK

(* Practices do not mix on the server: one review of each, and no session    *)
(* holds what was recited in another, unless a practice began, or was        *)
(* recited in, too early (completedSaveRef, the offline name of              *)
(* startPractice).                                                           *)
PracticesApart == P!OneReviewPerPractice /\ P!RecordsAreOwn

(* What a screen claims is so: "saved" and "sent" on the learner's, unless   *)
(* the practice began too early; "no pending recitations" and "loading" on   *)
(* the teacher's (saveState, teacherSendState, queueError, the finally of    *)
(* the effect that reads the words).                                         *)
ClaimsAreTrue == P!ClaimsAreTrue /\ R!EmptyIsRead /\ R!LoadingIsReading

(* The learner's screen hangs neither in "Analyzing…" nor in a save that is  *)
(* never settled: every way out of a handler says what came of it            *)
(* (runAlignmentAndTajweed, saveProgressFromPractice).                       *)
ScreensSettle == P!LoadingEnds /\ P!SaveSettles

(* Recorders, on the learner's screen and on the console, and players, on    *)
(* the teacher's, are one at a time; a microphone or a socket that is open   *)
(* is within reach of what stops it, except after the mishaps that each      *)
(* module names; what sounds is of the session shown, unless it was on its   *)
(* way when its session was left; and the console's capture loses no chunk   *)
(* but its last (startingAsrRef, stopRequestedRef, isStartingCaptureRef,     *)
(* audioElement and the cleanups).                                           *)
NothingLeftOpen ==
  /\ M!OneRecorderAsked /\ M!HotOnlyByMishap
  /\ C!OneRecorder /\ C!LostOnlyByMishap /\ C!OnlyTheLastIsUnsent
  /\ R!OnePlayer
=============================================================================
