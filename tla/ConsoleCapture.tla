--------------------------- MODULE ConsoleCapture ---------------------------
(* The live capture of the operations console (LiveAlignmentCard of          *)
(* PlatformCommand.tsx): one button that starts and stops a microphone       *)
(* recorder (startBrowserMicCapture) together with an uploader to the        *)
(* gateway (startGatewayAudioUpload, modelled in ReconnectClient), both kept *)
(* in refs.                                                                  *)
(*                                                                           *)
(* Starts are numbered, and with them the microphone and the uploader of     *)
(* each.  The uploader is there at once; the microphone when the user grants *)
(* it.  The recorder hands over a chunk now and then, and a last one after   *)
(* it was told to stop.                                                      *)
EXTENDS Integers, FiniteSets

CONSTANTS MaxStarts,      \* bound: starts
          MaxChunks       \* bound: chunks of a recorder, without the last one

Start == 1 .. MaxStarts
None == 0

VARIABLES mounted,
          capture,        \* captureRef
          uploader,       \* uploaderRef
          starting,       \* isStartingCaptureRef
          mic,            \* the microphone of each start; "bare" without a recorder
          socket,         \* the uploader of each start
          chunks,         \* chunks each recorder has handed over, the last one too
          uploads,        \* the recorders whose chunks each open uploader was given
          unsent,         \* chunks that were given to no open uploader
          mishaps         \* history: what happened to a capture besides Stop

refs == <<capture, uploader>>
vars == <<mounted, refs, starting, mic, socket, chunks, uploads, unsent, mishaps>>

TypeOK ==
  /\ mounted \in BOOLEAN /\ starting \in BOOLEAN
  /\ mic \in [Start -> {"unused", "asked", "bare", "open", "closing", "over"}]
  /\ socket \in [Start -> {"unused", "open", "closed"}]
  /\ capture \in {None} \union {n \in Start : mic[n] \in {"open", "closing", "over"}}
  /\ uploader \in {None} \union {n \in Start : socket[n] # "unused" /\ (mounted => socket[n] = "open")}
  /\ chunks \in [Start -> 0 .. MaxChunks + 1] /\ uploads \in [Start -> SUBSET Start]
  /\ unsent \in Nat /\ mishaps \subseteq {"refused", "unmounted", "restarted"}

Init ==
  /\ mounted = TRUE /\ starting = FALSE /\ capture = None /\ uploader = None
  /\ mic = [n \in Start |-> "unused"] /\ socket = [n \in Start |-> "unused"]
  /\ chunks = [n \in Start |-> 0] /\ uploads = [n \in Start |-> {}]
  /\ unsent = 0 /\ mishaps = {}

-----------------------------------------------------------------------------
Mics(states) == {n \in Start : mic[n] \in states}
Happened(what, when) == mishaps' = IF when THEN mishaps \union {what} ELSE mishaps

LeftOpen(u) == socket
Closed(u) == IF u = None THEN socket ELSE [socket EXCEPT ![u] = "closed"]

(* The recorder's stop: it goes on to its last chunk, unless it has ended.   *)
StillRecording(c) == mic
Stopped(c) == IF c # None /\ mic[c] = "open" THEN [mic EXCEPT ![c] = "closing"] ELSE mic

AnyTap == TRUE
FirstTap == ~starting

StartCapture ==
  /\ mounted /\ capture = None /\ FirstTap
  /\ \E n \in Start : /\ n = Cardinality(Start \ Mics({"unused"})) + 1
                      /\ mic' = [mic EXCEPT ![n] = "asked"]
                      /\ socket' = [socket EXCEPT ![n] = "open"] /\ uploader' = n
  /\ starting' = TRUE /\ Happened("restarted", Mics({"closing"}) # {})
  /\ UNCHANGED <<mounted, capture, chunks, uploads, unsent>>

Kept(ref) == ref
Forgotten(ref) == None

StopCapture ==
  /\ mounted /\ capture # None
  /\ mic' = Stopped(capture) /\ capture' = None
  /\ socket' = Closed(uploader) /\ uploader' = Forgotten(uploader)
  /\ UNCHANGED <<mounted, starting, chunks, uploads, unsent, mishaps>>

handleCaptureToggle == StartCapture \/ StopCapture

(* The user grants the microphone, or refuses; or grants it, and a recorder  *)
(* cannot be made for it.                                                    *)
startBrowserMicCapture(n) ==
  /\ mic[n] = "asked" /\ starting' = FALSE
  /\ \/ mic' = [mic EXCEPT ![n] = "open"] /\ capture' = n /\ UNCHANGED mishaps
     \/ /\ mic' \in {[mic EXCEPT ![n] = "over"], [mic EXCEPT ![n] = "bare"]}
        /\ capture' = None /\ Happened("refused", TRUE)
  /\ UNCHANGED <<mounted, uploader, socket, chunks, uploads, unsent>>

-----------------------------------------------------------------------------
(* A chunk goes to the uploader that is in the ref then, if one is.          *)
onChunk(n) ==
  /\ chunks' = [chunks EXCEPT ![n] = @ + 1]
  /\ IF uploader # None /\ socket[uploader] = "open"
     THEN uploads' = [uploads EXCEPT ![uploader] = @ \union {n}] /\ UNCHANGED unsent
     ELSE unsent' = unsent + 1 /\ UNCHANGED uploads

ondataavailable(n) ==
  /\ mic[n] = "open" /\ chunks[n] < MaxChunks /\ onChunk(n)
  /\ UNCHANGED <<mounted, refs, starting, mic, socket, mishaps>>

(* The recorder stops, because it was told to or its microphone went away,   *)
(* after a last chunk, if there was anything left to hand over.              *)
onstop(n) ==
  /\ mic[n] \in {"open", "closing"} /\ mic' = [mic EXCEPT ![n] = "over"]
  /\ onChunk(n) \/ UNCHANGED <<chunks, uploads, unsent>>
  /\ UNCHANGED <<mounted, refs, starting, socket, mishaps>>

Unmount ==
  /\ mounted /\ mounted' = FALSE
  /\ mic' = Stopped(capture) /\ socket' = Closed(uploader)
  /\ Happened("unmounted", starting)
  /\ UNCHANGED <<refs, starting, chunks, uploads, unsent>>

Next == \/ handleCaptureToggle \/ Unmount
        \/ \E n \in Start : startBrowserMicCapture(n) \/ ondataavailable(n) \/ onstop(n)

Spec == Init /\ [][Next]_vars

-----------------------------------------------------------------------------
(* However the button is tapped, at most one recorder runs or is being       *)
(* started (isStartingCaptureRef).                                           *)
OneRecorder == Cardinality(Mics({"asked", "open"})) <= 1

(* What is open is in its ref, where Stop and the cleanup find it, and gone  *)
(* with the card; and an uploader is given the chunks of its own recorder    *)
(* only.  Three things end that, and nothing else: a microphone that was not *)
(* had, an unmount while it is asked for, and a start before the last        *)
(* recorder has stopped.                                                     *)
LostOnlyByMishap ==
  mishaps = {} =>
    /\ \A n \in Mics({"open", "bare"}) : mounted /\ n = capture
    /\ \A n \in Start : socket[n] = "open" => mounted /\ n = uploader
    /\ \A n \in Start : uploads[n] \subseteq {n}

(* A recorder is stopped before its uploader is forgotten, so of what it     *)
(* hands over only the chunk after Stop can find no uploader, which nothing  *)
(* tells the user of (handleCaptureToggle, onChunk); except without the card *)
(* a microphone was asked for by.                                            *)
OnlyTheLastIsUnsent ==
  "unmounted" \notin mishaps => unsent <= Cardinality(Mics({"over"}))
=============================================================================
