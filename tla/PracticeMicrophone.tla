------------------------- MODULE PracticeMicrophone -------------------------
(* The microphones of the practice screen (App.tsx, serverAsr.ts, asr.ts,    *)
(* micVisualizer.ts).  A recording opens two: one for the waveform and one   *)
(* for the recorder, or for the browser's speech recognition when no         *)
(* recorder starts.  The browser answers each request when it, or the user   *)
(* it asks, likes; until then the screen goes on, and may be gone.           *)
(*                                                                           *)
(* A microphone is a number, in the order of the requests.  It is "asked"    *)
(* for, "open", "closing" once its recorder or recogniser was told to stop,  *)
(* and "over".  The browser can record (isServerAsrSupported), the learner   *)
(* has consented to it, and may or may not have consented to the browser's   *)
(* speech recognition.                                                       *)
EXTENDS Integers, FiniteSets

CONSTANTS MaxMics,        \* bound: microphones asked for
          MaxAnalyses     \* bound: analyses under way at once

Mic == 1 .. MaxMics
None == 0

VARIABLES mounted,
          isRecording,
          isLoading,
          starting,       \* startingAsrRef
          stopRequested,  \* stopRequestedRef
          serverAsr,      \* serverAsrRef: the recorder's microphone
          asr,            \* asrRef: the recogniser's
          visualizer,     \* visualizerStopRef: the waveform's
          kind, state,    \* of each microphone
          transcribing,   \* recorders stopped whose transcript is awaited
          heard,          \* asrTranscript is not empty
          analysing,      \* runs of runAlignmentAndTajweed under way
          mishaps         \* history: what happened to a recording besides Stop

flags == <<starting, stopRequested>>
refs == <<serverAsr, asr, visualizer>>
mics == <<kind, state>>
analyses == <<transcribing, heard, analysing>>
vars == <<mounted, isRecording, isLoading, flags, refs, mics, analyses, mishaps>>

Recorders == {"server", "local"}
Mishaps == {"left", "restarted", "failed", "unmounted"}

TypeOK ==
  /\ mounted \in BOOLEAN /\ isRecording \in BOOLEAN /\ isLoading \in BOOLEAN
  /\ starting \in BOOLEAN /\ stopRequested \in BOOLEAN /\ heard \in BOOLEAN
  /\ serverAsr \in {None} \union {m \in Mic : kind[m] \in Recorders /\ state[m] \in {"open", "over"}}
  /\ asr \in {None} \union {m \in Mic : kind[m] = "speech" /\ state[m] # "asked"}
  /\ visualizer \in {None} \union {m \in Mic : kind[m] = "waveform" /\ state[m] \in {"open", "over"}}
  /\ kind \in [Mic -> Recorders \union {"none", "speech", "waveform"}]
  /\ state \in [Mic -> {"unused", "asked", "open", "closing", "over"}]
  /\ transcribing \subseteq Mic /\ analysing \in 0 .. MaxAnalyses /\ mishaps \subseteq Mishaps

Init ==
  /\ mounted = TRUE /\ isRecording = FALSE /\ isLoading = FALSE
  /\ starting = FALSE /\ stopRequested = FALSE
  /\ serverAsr = None /\ asr = None /\ visualizer = None
  /\ kind = [m \in Mic |-> "none"] /\ state = [m \in Mic |-> "unused"]
  /\ transcribing = {} /\ heard = FALSE /\ analysing = 0 /\ mishaps = {}

-----------------------------------------------------------------------------
Are(s) == {m \in Mic : state[m] = s}
Newest == Cardinality(Mic \ Are("unused"))
Happened(what, when) == mishaps' = IF when THEN mishaps \union {what} ELSE mishaps

(* What a stop handle does to its microphone: nothing, when it is null or    *)
(* was used before.  A recogniser still delivers what it heard.              *)
Stopped(m, s) == IF m # None /\ state[m] = "open" THEN [state EXCEPT ![m] = s] ELSE state

(* "Record", once for all taps until its outcome is known.                   *)
AnyTap == TRUE
FirstTap == ~starting

startAsrRecording ==
  /\ mounted /\ ~isLoading /\ ~isRecording /\ FirstTap
  /\ Newest + 2 <= MaxMics
  /\ starting' = TRUE /\ stopRequested' = FALSE
  /\ kind' = [kind EXCEPT ![Newest + 1] = "waveform", ![Newest + 2] = "server"]
  /\ state' = [state EXCEPT ![Newest + 1] = "asked", ![Newest + 2] = "asked"]
  /\ Happened("restarted", \E m \in Are("asked") : kind[m] = "waveform")
  /\ heard' = FALSE
  /\ UNCHANGED <<mounted, isRecording, isLoading, refs, transcribing, analysing>>

StoredAnyway == FALSE
TornDown == stopRequested

startMicVisualizer(m) ==
  /\ state[m] = "asked" /\ kind[m] = "waveform"
  /\ \/ state' = [state EXCEPT ![m] = IF TornDown THEN "over" ELSE "open"]
        /\ visualizer' = IF TornDown THEN visualizer ELSE m
     \/ state' = [state EXCEPT ![m] = "over"]
        /\ visualizer' = IF TornDown THEN visualizer ELSE None
  /\ UNCHANGED <<mounted, isRecording, isLoading, flags, serverAsr, asr, kind, analyses, mishaps>>

RecorderOpens(m) ==
  /\ state[m] = "asked" /\ kind[m] \in Recorders
  /\ state' = [state EXCEPT ![m] = "open"]
  /\ serverAsr' = m /\ isRecording' = TRUE /\ starting' = FALSE
  /\ UNCHANGED <<mounted, isLoading, stopRequested, asr, visualizer, kind, analyses, mishaps>>

(* Permission denied, or the recorder does not start.  What is next: the     *)
(* recogniser, if consented to, or a recorder for the learner alone, or      *)
(* nothing.                                                                  *)
RecorderFails(m) ==
  /\ state[m] = "asked" /\ kind[m] \in Recorders
  /\ LET next == Newest + 1
         closed == [state EXCEPT ![m] = "over"]
     IN \/ /\ kind[m] = "server" /\ next <= MaxMics           \* startAsr
           /\ kind' = [kind EXCEPT ![next] = "speech"]
           /\ \/ /\ state' = [closed EXCEPT ![next] = "open"]
                 /\ asr' = next /\ isRecording' = TRUE /\ UNCHANGED mishaps
              \/ /\ state' = [closed EXCEPT ![next] = "over"]
                 /\ asr' = None /\ isRecording' = FALSE /\ Happened("failed", TRUE)
           /\ starting' = FALSE
        \/ /\ kind[m] = "server" /\ next <= MaxMics           \* startLocalAudioRecording
           /\ kind' = [kind EXCEPT ![next] = "local"]
           /\ state' = [closed EXCEPT ![next] = "asked"]
           /\ isRecording' = FALSE /\ UNCHANGED <<asr, starting, mishaps>>
        \/ /\ kind[m] = "local" /\ state' = closed
           /\ isRecording' = FALSE /\ starting' = FALSE
           /\ Happened("failed", TRUE) /\ UNCHANGED <<asr, kind>>
  /\ UNCHANGED <<mounted, isLoading, stopRequested, serverAsr, visualizer, analyses>>

-----------------------------------------------------------------------------
(* An analysis begins.  Its guard, that none is under way, reads isLoading   *)
(* as it was rendered when the learner tapped: and the button was enabled.   *)
runAlignmentAndTajweed ==
  analysing < MaxAnalyses /\ analysing' = analysing + 1 /\ isLoading' = TRUE

Kept(ref) == ref
Forgotten(ref) == None

StopRecorder ==
  /\ serverAsr # None
  /\ state' = [Stopped(visualizer, "over") EXCEPT ![serverAsr] = IF @ = "open" THEN "closing" ELSE @]
  /\ transcribing' = transcribing \union {serverAsr}
  /\ serverAsr' = Forgotten(serverAsr) /\ isLoading' = TRUE /\ UNCHANGED analysing

StopRecogniser ==
  /\ serverAsr = None
  /\ state' = [m \in Mic |-> IF m = asr THEN Stopped(asr, "closing")[m] ELSE Stopped(visualizer, "over")[m]]
  /\ IF heard THEN runAlignmentAndTajweed ELSE UNCHANGED <<analysing, isLoading>>
  /\ UNCHANGED <<transcribing, serverAsr>>

toggleAsrRecording ==   \* its Stop
  /\ mounted /\ ~isLoading /\ isRecording
  /\ isRecording' = FALSE /\ stopRequested' = TRUE /\ visualizer' = None
  /\ StopRecorder \/ StopRecogniser
  /\ UNCHANGED <<mounted, starting, asr, kind, heard, mishaps>>

Closes(m) ==
  /\ state[m] = "closing" /\ state' = [state EXCEPT ![m] = "over"]
  /\ UNCHANGED <<mounted, isRecording, isLoading, flags, refs, kind, analyses, mishaps>>

stopAndTranscribe(m) ==
  /\ m \in transcribing /\ state[m] = "over" /\ transcribing' = transcribing \ {m}
  /\ \/ heard' = TRUE /\ runAlignmentAndTajweed
     \/ heard' \in BOOLEAN /\ isLoading' = FALSE /\ UNCHANGED analysing
  /\ UNCHANGED <<mounted, isRecording, flags, refs, mics, mishaps>>

AnalysisEnds ==
  /\ analysing > 0 /\ analysing' = analysing - 1 /\ isLoading' = FALSE
  /\ UNCHANGED <<mounted, isRecording, flags, refs, mics, transcribing, heard, mishaps>>

(* The recogniser hears a segment; or ends of itself, which the screen does  *)
(* not notice; or fails.                                                     *)
SpeechResult(m) ==
  /\ kind[m] = "speech" /\ state[m] \in {"open", "closing"}
  /\ heard' = TRUE /\ runAlignmentAndTajweed
  /\ UNCHANGED <<mounted, isRecording, flags, refs, mics, transcribing, mishaps>>

SpeechEnds(m) ==
  /\ kind[m] = "speech" /\ state[m] = "open" /\ state' = [state EXCEPT ![m] = "over"]
  /\ \/ UNCHANGED <<isRecording, mishaps>>
     \/ isRecording' = FALSE /\ Happened("failed", TRUE)
  /\ UNCHANGED <<mounted, isLoading, flags, refs, kind, analyses>>

-----------------------------------------------------------------------------
(* "Next step", "Back to home", which also forgets the transcript, and a     *)
(* microphone check that is refused clear isRecording, and stop nothing.     *)
LeaveStep ==
  /\ mounted /\ isRecording /\ isRecording' = FALSE /\ Happened("left", TRUE)
  /\ heard' \in {heard, FALSE}
  /\ UNCHANGED <<mounted, isLoading, flags, refs, mics, transcribing, analysing>>

Unmount ==
  /\ mounted /\ mounted' = FALSE
  /\ state' = [m \in Mic |-> IF state[m] # "open" \/ m \notin {visualizer, serverAsr, asr} THEN state[m]
                             ELSE IF m = asr THEN "closing" ELSE "over"]
  /\ Happened("unmounted", Are("asked") # {})
  /\ UNCHANGED <<isRecording, isLoading, flags, refs, kind, analyses>>

Next ==
  \/ startAsrRecording \/ toggleAsrRecording \/ LeaveStep \/ Unmount \/ AnalysisEnds
  \/ \E m \in Mic : \/ startMicVisualizer(m) \/ RecorderOpens(m) \/ RecorderFails(m)
                    \/ Closes(m) \/ stopAndTranscribe(m) \/ SpeechResult(m) \/ SpeechEnds(m)

Spec == Init /\ [][Next]_vars

-----------------------------------------------------------------------------
(* However the learner taps, at most one recorder is being asked for: a      *)
(* second would be stored over the first (startingAsrRef).                   *)
OneRecorderAsked == Cardinality({m \in Are("asked") : kind[m] \in Recorders}) <= 1

(* A microphone is open only while the screen says that it records, or is    *)
(* about to, and a handle that stops it is kept; there are four ways out of  *)
(* that, and no other: leaving the step while recording, recording again     *)
(* before the last waveform's microphone was granted, a start that failed,   *)
(* and an unmount before a microphone was granted (stopRequestedRef, the     *)
(* cleanup on unmount).                                                      *)
Heard(m) == mounted /\ (isRecording \/ starting) /\ m \in {serverAsr, asr, visualizer}
HotOnlyByMishap == mishaps = {} => \A m \in Are("open") : Heard(m)
=============================================================================
