---------------------------- MODULE ReviewScreen ----------------------------
(* The teacher's review screen (TeacherSurface.tsx): the queue of sessions,  *)
(* the words of the selected one, its findings, which the teacher listens to *)
(* and decides on.  Every request is answered while the teacher goes on to   *)
(* other sessions and findings, or leaves the screen.                        *)
(*                                                                           *)
(* A handler is one step up to its first await, with the effects of what it  *)
(* sets; each answer is a step, and uses what was rendered when its handler  *)
(* was called.  An audio player is the number of the answer that made it.    *)
EXTENDS Integers, FiniteSets

CONSTANTS Session, Finding, None,
          SessionOf,      \* the session of each finding
          MaxPlayers,     \* bound: audio players made
          MaxLoads        \* bound: reads of the queue under way at once

Player == 1 .. MaxPlayers
NoPlayer == 0

VARIABLES mounted,
          sessions,       \* the queue shown
          loading, queueError,
          loads,          \* reads of the queue under way
          readEmpty,      \* history: the last read that succeeded was of an empty queue
          selected,       \* selectedSession
          loadingAlignments,
          reads,          \* sessions whose words are being read
          playing,        \* the finding marked as sounding
          element,        \* audioElement
          fetching,       \* findings whose audio is being fetched
          audio,          \* each player: what of, and whether it sounds
          submitted,      \* how far the decision under way is; "idle" if none is
          strayed         \* history: findings whose audio was being fetched when
                          \* their session was left

queue == <<sessions, loading, queueError, loads, readEmpty>>
words == <<loadingAlignments, reads>>
players == <<playing, element, fetching, audio>>
vars == <<mounted, selected, queue, words, players, submitted, strayed>>

TypeOK ==
  /\ mounted \in BOOLEAN /\ loading \in BOOLEAN /\ queueError \in BOOLEAN
  /\ loadingAlignments \in BOOLEAN /\ loads \in 0 .. MaxLoads
  /\ sessions \subseteq Session /\ readEmpty \in BOOLEAN
  /\ selected \in Session \union {None}
  /\ reads \subseteq Session
  /\ playing \in IF element = NoPlayer THEN {None} ELSE Finding \union {None}
  /\ element \in {NoPlayer} \union {p \in Player : audio[p].is # "unused"}
  /\ fetching \subseteq Finding
  /\ audio \in [Player -> [of : Finding \union {None},
                           is : {"unused", "starting", "sounding", "cut", "silent"}]]
  /\ submitted \in {"idle", "sent", "reloading"}
  /\ strayed \subseteq Finding

Init ==
  /\ mounted = TRUE /\ sessions = {} /\ loading = TRUE /\ queueError = FALSE
  /\ loads = 1 /\ readEmpty = FALSE
  /\ selected = None /\ loadingAlignments = FALSE /\ reads = {}
  /\ playing = None /\ element = NoPlayer /\ fetching = {}
  /\ audio = [p \in Player |-> [of |-> None, is |-> "unused"]]
  /\ submitted = "idle" /\ strayed = {}

-----------------------------------------------------------------------------
(* Pausing a player that has not begun makes its play() fail later ("cut").  *)
Paused(p) ==
  CASE p = NoPlayer                -> audio
    [] audio[p].is = "starting"    -> [audio EXCEPT ![p].is = "cut"]
    [] audio[p].is = "sounding"    -> [audio EXCEPT ![p].is = "silent"]
    [] OTHER                       -> audio

StillPlaying == UNCHANGED playing
NothingPlaying == playing' = None

(* The effects of a change of session: its words are asked for, and what was *)
(* sounding is stopped.  A session chosen again is the object selected       *)
(* before, or that of a later reading of the queue, which is a change.       *)
Selects(s) ==
  /\ selected' = s
  /\ \/ s = selected /\ UNCHANGED <<words, playing, element, audio, strayed>>
     \/ /\ s # selected \/ s # None
        /\ strayed' = IF s = selected THEN strayed ELSE strayed \union fetching
        /\ audio' = Paused(element) /\ element' = NoPlayer /\ NothingPlaying
        /\ IF s = None
           THEN UNCHANGED words
           ELSE loadingAlignments' = TRUE /\ reads' = reads \union {s}

SelectSession(s) ==
  /\ mounted /\ ~loading /\ ~queueError /\ s \in sessions /\ Selects(s)
  /\ UNCHANGED <<mounted, queue, fetching, submitted>>

StillLoading == UNCHANGED loadingAlignments
NotLoading == loadingAlignments' = FALSE

readSessionAlignments(s) ==
  /\ s \in reads /\ reads' = reads \ {s} /\ NotLoading
  /\ UNCHANGED <<mounted, selected, queue, players, submitted, strayed>>

-----------------------------------------------------------------------------
(* The queue is read when the screen opens, when the token changes, on       *)
(* Retry, and after a decision.  A read that failed is not an empty queue.   *)
Loads == loads < MaxLoads /\ loads' = loads + 1 /\ loading' = TRUE /\ queueError' = FALSE

loadQueue ==
  /\ mounted /\ Loads
  /\ UNCHANGED <<mounted, sessions, readEmpty, selected, words, players, submitted, strayed>>

EmptyAtFailure == queueError' = FALSE
ToldAtFailure == queueError' = TRUE

QueueAnswers ==
  /\ loads' = loads - 1 /\ loading' = FALSE
  /\ \/ \E due \in SUBSET Session : sessions' = due /\ readEmpty' = (due = {}) /\ UNCHANGED queueError
     \/ sessions' \in {{}, sessions} /\ ToldAtFailure /\ UNCHANGED readEmpty

readRecitationSessions ==
  /\ loads > (IF submitted = "reloading" THEN 1 ELSE 0) /\ QueueAnswers
  /\ UNCHANGED <<mounted, selected, words, players, submitted, strayed>>

-----------------------------------------------------------------------------
(* Listening to a finding of the selected session, or stopping that.         *)
listen(f) ==
  /\ mounted /\ SessionOf[f] = selected
  /\ audio' = Paused(element)
  /\ IF playing = f
     THEN playing' = None /\ UNCHANGED fetching
     ELSE fetching' = fetching \union {f} /\ UNCHANGED playing
  /\ UNCHANGED <<mounted, selected, queue, words, element, submitted, strayed>>

NothingPaused == audio
PreviousPaused == Paused(element)

(* The audio is there, and is played, in place of what the screen had; or it *)
(* is not.  Without the screen nothing is replaced.                          *)
fetchFindingAudio(f) ==
  /\ f \in fetching /\ fetching' = fetching \ {f}
  /\ \/ \E p \in Player :
          /\ p = Cardinality({q \in Player : audio[q].is # "unused"}) + 1
          /\ audio' = [(IF mounted THEN PreviousPaused ELSE audio) EXCEPT ![p] = [of |-> f, is |-> "starting"]]
          /\ IF mounted THEN element' = p /\ playing' = f ELSE UNCHANGED <<element, playing>>
     \/ UNCHANGED <<playing, element, audio>>
  /\ UNCHANGED <<mounted, selected, queue, words, submitted, strayed>>

(* play() succeeds, or fails; the audio ends.  In the last two cases nothing *)
(* is marked as sounding, not even another player.                           *)
Plays(p) ==
  /\ \/ audio[p].is = "starting" /\ audio' = [audio EXCEPT ![p].is = "sounding"] /\ UNCHANGED playing
     \/ /\ audio[p].is \in {"starting", "cut", "sounding"}
        /\ audio' = [audio EXCEPT ![p].is = "silent"] /\ playing' = None
  /\ UNCHANGED <<mounted, selected, queue, words, element, fetching, submitted, strayed>>

-----------------------------------------------------------------------------
handleReview ==
  /\ mounted /\ submitted = "idle"
  /\ \E f \in Finding : SessionOf[f] = selected
  /\ submitted' = "sent"
  /\ UNCHANGED <<mounted, selected, queue, words, players, strayed>>

(* Accepted, and the queue is read again; or refused.                        *)
submitTeacherReview ==
  /\ submitted = "sent"
  /\ \/ submitted' = "reloading" /\ Loads
     \/ submitted' = "idle" /\ UNCHANGED <<loads, loading, queueError>>
  /\ UNCHANGED <<mounted, selected, sessions, readEmpty, words, players, strayed>>

Reviewed ==
  /\ submitted = "reloading" /\ loads > 0 /\ QueueAnswers
  /\ Selects(None) /\ submitted' = "idle"
  /\ UNCHANGED <<mounted, fetching>>

Leave ==
  /\ mounted /\ mounted' = FALSE /\ audio' = Paused(element) /\ strayed' = strayed \union fetching
  /\ UNCHANGED <<selected, queue, words, playing, element, fetching, submitted>>

Answer == \/ readRecitationSessions \/ submitTeacherReview \/ Reviewed
          \/ \E s \in Session : readSessionAlignments(s)
          \/ \E f \in Finding : fetchFindingAudio(f)
          \/ \E p \in Player : Plays(p)
Teacher == \/ loadQueue \/ handleReview \/ Leave
           \/ \E s \in Session : SelectSession(s)
           \/ \E f \in Finding : listen(f)

Next == Teacher \/ Answer

Spec == Init /\ [][Next]_vars

-----------------------------------------------------------------------------
Sounding == {p \in Player : audio[p].is \in {"starting", "sounding"}}

(* "One player cannot be left running behind another": while the screen is   *)
(* there, at most one player sounds, and it is the one the screen can pause, *)
(* in whatever order the audio of several findings arrives.  And what sounds *)
(* is of the session that is shown, unless its audio was still on its way    *)
(* when its session, or the screen, was left (audioElement).                 *)
OnePlayer ==
  /\ mounted => Sounding \subseteq {element}
  /\ \A p \in Sounding :
       audio[p].of \notin strayed => mounted /\ SessionOf[audio[p].of] = selected

(* "The queue is empty" is said only of a queue that was read and was empty: *)
(* neither a read that fails, nor one that is answered late, is shown as "no *)
(* pending recitations" (queueError).                                        *)
EmptyIsRead == ~loading /\ ~queueError /\ sessions = {} => readEmpty

(* "Loading alignments" is said only while the words of some session are on  *)
(* their way, so it does not stay when the last of them is here, or has      *)
(* failed (the finally of the effect).                                       *)
LoadingIsReading == loadingAlignments => reads # {}
=============================================================================
