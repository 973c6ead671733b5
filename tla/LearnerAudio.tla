---------------------------- MODULE LearnerAudio ----------------------------
(* One learner's directory of ml-inference's audio store, and what meets     *)
(* there: uploads of the chunks of a session (storeAudioChunk), the hourly   *)
(* retention sweep (runRetentionSweep), erasures (deletePrivacy), and the    *)
(* transcription of the session (transcribeSession), in one process that     *)
(* may crash and restart.                                                    *)
(*                                                                           *)
(* A chunk is named by its number in the session.  Its audio is a .bin file, *)
(* with an age that counts from the last write; beside it lies a .meta.json  *)
(* with the retention it was uploaded under.  What runs between two awaits   *)
(* of the code is one step.                                                  *)
EXTENDS Integers, FiniteSets

CONSTANTS Chunk,            \* sequence numbers of the chunks
          Eraser,           \* erasure requests
          None,
          DiscardHours,     \* AUDIO_TTL_DISCARD_HOURS
          ReviewHours,      \* AUDIO_TTL_REVIEW_HOURS
          Period,           \* hours between two sweeps
          Batch,            \* BATCH: files read at once
          MaxSends,         \* bound: uploads begun, repeated ones included
          MaxRestarts       \* bound: restarts of the process

ASSUME ChunkAssumption == Chunk \subseteq Nat /\ None \notin Nat
ASSUME HoursAssumption == DiscardHours \in Nat /\ ReviewHours \in Nat /\ Period \in Nat \ {0}
ASSUME BatchAssumption == Batch \in Nat \ {0} /\ MaxSends \in Nat /\ MaxRestarts \in Nat

Retentions == {"discard", "teacher-review", "training-opt-in"}

VARIABLES retention,    \* what the learner's uploads are kept for
          dir,          \* whether the directory exists
          age,          \* hours since each .bin was written; None without one
          meta,         \* the chunks that have a .meta.json
          upload,       \* each chunk's upload
          sends,        \* uploads begun
          erasure,      \* each erasure request
          reading,      \* the transcription
          timer,        \* hours since the last sweep, or since the start
          restarts

store == <<dir, age, meta>>
uploads == <<upload, sends>>
clock == <<timer, restarts>>
vars == <<retention, store, uploads, erasure, reading, clock>>

-----------------------------------------------------------------------------
retentionTtlSwapped(r) == IF r = "teacher-review" THEN DiscardHours ELSE ReviewHours
retentionTtlHours(r) == IF r = "teacher-review" THEN ReviewHours ELSE DiscardHours

(* Ages are told apart up to a day no bound speaks of.                       *)
Longest == DiscardHours + ReviewHours + Period * (MaxRestarts + 1) + 1
Older(a) == IF a \in Nat /\ a < Longest THEN a + 1 ELSE a

Stored(c) == age[c] # None
Whole == {c \in meta : Stored(c)}

(* The transcription: the files still to ask for, those asked for in the     *)
(* batch under way, those read; "whole" are the chunks that were all there   *)
(* when the directory was listed and have been left alone since.             *)
NoReading == [at |-> "idle", rest |-> {}, asked |-> {}, got |-> {}, whole |-> {}]
Over == [NoReading EXCEPT !.at = "over"]      \* no audio, or an error

Init == /\ retention \in Retentions
        /\ dir = FALSE /\ age = [c \in Chunk |-> None] /\ meta = {}
        /\ upload = [c \in Chunk |-> "none"] /\ sends = 0
        /\ erasure = [e \in Eraser |-> "idle"]
        /\ reading = NoReading
        /\ timer = 0 /\ restarts = 0

-----------------------------------------------------------------------------
(* storeAudioChunk.  A chunk may be sent again, with the same audio, while   *)
(* its answer is missing or was lost; that is no conflict, and it writes     *)
(* both files again.  The metadata is written after an await.                *)
storeAudioObject(c) ==
  /\ upload[c] # "writing" /\ sends < MaxSends
  /\ dir' = TRUE
  /\ age' = [age EXCEPT ![c] = 0]
  /\ upload' = [upload EXCEPT ![c] = "writing"]
  /\ sends' = sends + 1
  /\ UNCHANGED <<retention, meta, erasure, reading, clock>>

AnyPath == TRUE
Writable == dir

WriteMetadata(c) ==
  /\ upload[c] = "writing"
  /\ meta' = IF Writable THEN meta \cup {c} ELSE meta
  /\ upload' = [upload EXCEPT ![c] = IF Writable THEN "stored" ELSE "failed"]
  /\ UNCHANGED <<retention, dir, age, sends, erasure, reading, clock>>

storeAudioChunk(c) == storeAudioObject(c) \/ WriteMetadata(c)

-----------------------------------------------------------------------------
(* deletePrivacy looks for the directory, imports fs, unlinks every file and *)
(* removes the directory, and then looks again whether anything is left.     *)
Unlink(gone) == /\ age' = [c \in Chunk |-> IF c \in gone THEN None ELSE age[c]]
                /\ reading' = [reading EXCEPT !.whole = @ \ gone]

BeginErasure(e) ==
  /\ erasure[e] = "idle"
  /\ erasure' = [erasure EXCEPT ![e] = IF dir THEN "found" ELSE "removed"]
  /\ UNCHANGED <<retention, store, uploads, reading, clock>>

deleteAudioObjects(e) ==
  /\ erasure[e] = "found"
  /\ erasure' = [erasure EXCEPT ![e] = IF dir THEN "removed" ELSE "failed"]
  /\ Unlink(Chunk) /\ meta' = {} /\ dir' = FALSE
  /\ UNCHANGED <<retention, uploads, clock>>

AnswerErasure(e) ==
  /\ erasure[e] = "removed"
  /\ erasure' = [erasure EXCEPT ![e] = IF dir THEN "residue" ELSE "tombstoned"]
  /\ UNCHANGED <<retention, store, uploads, reading, clock>>

deletePrivacy(e) == BeginErasure(e) \/ deleteAudioObjects(e) \/ AnswerErasure(e)

-----------------------------------------------------------------------------
(* runRetentionSweep: a .bin older than its retention allows is evicted with *)
(* its metadata, one without metadata as if it were to be discarded, and an  *)
(* empty directory is removed.                                               *)
EvictedKnown == {c \in meta : Stored(c) /\ retention # "training-opt-in" /\ age[c] > retentionTtlHours(retention)}
RetentionOf(c) == IF c \in meta THEN retention ELSE "discard"
Evicted == {c \in Chunk : /\ Stored(c)
                          /\ RetentionOf(c) # "training-opt-in"
                          /\ age[c] > retentionTtlHours(RetentionOf(c))}

runRetentionSweep ==
  /\ timer = Period
  /\ timer' = 0
  /\ Unlink(Evicted)
  /\ meta' = meta \ Evicted
  /\ dir' = (dir /\ (meta' # {} \/ \E c \in Chunk : age'[c] # None))
  /\ UNCHANGED <<retention, uploads, erasure, restarts>>

(* An hour passes; a sweep that is due comes first.                          *)
Tick ==
  /\ timer < Period
  /\ timer' = timer + 1
  /\ age' = [c \in Chunk |-> Older(age[c])]
  /\ UNCHANGED <<retention, dir, meta, uploads, erasure, reading, restarts>>

-----------------------------------------------------------------------------
(* transcribeSession, once consent allows it: list the directory, read every *)
(* metadata file and then every .bin, a batch at a time, any of which may be *)
(* gone by then, and send what was read to the recogniser.                   *)
BeginReading ==
  /\ reading.at = "idle"
  /\ reading' = [reading EXCEPT !.at = IF dir THEN "listing" ELSE "over"]
  /\ UNCHANGED <<retention, store, uploads, erasure, clock>>

List ==
  /\ reading.at = "listing"
  /\ reading' = IF dir THEN [reading EXCEPT !.at = "metas", !.rest = meta, !.whole = Whole]
                ELSE Over
  /\ UNCHANGED <<retention, store, uploads, erasure, clock>>

Batches(files) ==
  {b \in SUBSET files : Cardinality(b) = IF Cardinality(files) < Batch THEN Cardinality(files) ELSE Batch}

readAllOf ==
  /\ reading.at \in {"metas", "bins"}
  /\ reading.asked = {} /\ reading.rest # {}
  /\ \E b \in Batches(reading.rest) :
       reading' = [reading EXCEPT !.asked = b, !.rest = @ \ b]
  /\ UNCHANGED <<retention, store, uploads, erasure, clock>>

AllButTail == reading.asked = {} /\ Cardinality(reading.rest) < Batch
AllAsked == reading.asked = {} /\ reading.rest = {}

There(c) == IF reading.at = "metas" THEN c \in meta ELSE Stored(c)

readFileAsync(c) ==
  /\ c \in reading.asked
  /\ reading' = [reading EXCEPT !.asked = @ \ {c}, !.got = IF There(c) THEN @ \cup {c} ELSE @]
  /\ UNCHANGED <<retention, store, uploads, erasure, clock>>

AllRead ==
  /\ AllAsked
  /\ \/ /\ reading.at = "metas"
        /\ reading' = [reading EXCEPT !.at = "bins", !.rest = reading.got, !.got = {}]
     \/ /\ reading.at = "bins"
        /\ reading' = IF reading.got = {} THEN Over ELSE [reading EXCEPT !.at = "asked"]
  /\ UNCHANGED <<retention, store, uploads, erasure, clock>>

transcribeAudio ==
  /\ reading.at = "asked"
  /\ reading' \in {Over, [reading EXCEPT !.at = "transcribed"]}
  /\ UNCHANGED <<retention, store, uploads, erasure, clock>>

transcribeSession ==
  \/ BeginReading \/ List
  \/ readAllOf \/ (\E c \in Chunk : readFileAsync(c)) \/ AllRead
  \/ transcribeAudio

(* The missing chunks the answer reports.                                    *)
interiorSequenceGaps(seqs) ==
  {n \in Chunk \ seqs : (\E a \in seqs : a < n) /\ (\E b \in seqs : n < b)}

-----------------------------------------------------------------------------
(* A crash loses what is in flight, and with it the interval to the next     *)
(* sweep; the files stay as they are.                                        *)
Lost(state, flight) == IF state \in flight THEN "failed" ELSE state
Restart ==
  /\ restarts < MaxRestarts
  /\ restarts' = restarts + 1
  /\ timer' = 0
  /\ upload' = [c \in Chunk |-> Lost(upload[c], {"writing"})]
  /\ erasure' = [e \in Eraser |-> Lost(erasure[e], {"found", "removed"})]
  /\ reading' = IF reading.at \in {"listing", "metas", "bins", "asked"} THEN Over ELSE reading
  /\ UNCHANGED <<retention, store, sends>>

Next == \/ \E c \in Chunk : storeAudioChunk(c)
        \/ \E e \in Eraser : deletePrivacy(e)
        \/ runRetentionSweep \/ Tick
        \/ transcribeSession
        \/ Restart

Spec == Init /\ [][Next]_vars

-----------------------------------------------------------------------------
TypeOK ==
  /\ retention \in Retentions
  /\ dir \in BOOLEAN /\ age \in [Chunk -> Nat \cup {None}] /\ meta \subseteq Chunk
  /\ upload \in [Chunk -> {"none", "writing", "stored", "failed"}]
  /\ sends \in 0..MaxSends
  /\ erasure \in [Eraser -> {"idle", "found", "removed", "tombstoned", "residue", "failed"}]
  /\ reading \in [at : {"idle", "listing", "metas", "bins", "asked", "transcribed", "over"},
                  rest : SUBSET Chunk, asked : SUBSET Chunk, got : SUBSET Chunk,
                  whole : SUBSET Chunk]
  /\ timer \in 0..Period /\ restarts \in 0..MaxRestarts
  /\ ~dir => meta = {} /\ \A c \in Chunk : ~Stored(c)

Allowed == IF retention = "teacher-review" THEN ReviewHours ELSE DiscardHours

(* Unless it may be kept for training, no recording outlives its retention   *)
(* by more than the time between two sweeps, however uploads, retries and    *)
(* crashes fall between them; each restart can put a sweep off by another    *)
(* period.                                                                   *)
RetentionHonoured ==
  retention # "training-opt-in" =>
    \A c \in Chunk : Stored(c) =>
      age[c] <= Allowed + Period * (restarts + 1)

(* And none goes before: the audio of a chunk that was acknowledged, and is  *)
(* not being sent again, leaves the store in an erasure, or once its own     *)
(* retention is over.                                                        *)
KeptUntilDue ==
  [][\A c \in Chunk :
       upload[c] = "stored" /\ Stored(c) /\ ~Stored(c)' =>
         \/ \E e \in Eraser : erasure[e] = "found" /\ erasure'[e] = "removed"
         \/ retention # "training-opt-in" /\ age[c] > Allowed]_vars

(* A transcript misses no chunk that was there from beginning to end, though *)
(* others come, go and are sent again while it is read; and a chunk that it  *)
(* has neither read nor reports as missing lies before or after all it has   *)
(* read, where interiorSequenceGaps cannot see.                              *)
TranscriptIsWhole ==
  reading.at = "transcribed" =>
    /\ reading.whole \subseteq reading.got
    /\ \A n \in Chunk \ (reading.got \cup interiorSequenceGaps(reading.got)) :
         (\A c \in reading.got : n < c) \/ (\A c \in reading.got : c < n)
=============================================================================
