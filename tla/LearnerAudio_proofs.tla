------------------------- MODULE LearnerAudio_proofs -------------------------
(* Theorems about LearnerAudio, for any chunks, erasures, batch sizes, hours, *)
(* and any number of uploads and restarts; and about what is made of the      *)
(* audio, for any words.                                                      *)
EXTENDS AudioAlignment, Alignment_proofs

\* The files of one learner, of which there are some or no directory.
LEMMA NoneIsNoAge == None \notin Nat
BY ChunkAssumption

LEMMA LongestIsNat == Longest \in Nat
BY HoursAssumption, BatchAssumption DEF Longest

-----------------------------------------------------------------------------
(* Types.                                                                  *)

LEMMA TypeInit == Init => TypeOK
<1> SUFFICES ASSUME Init PROVE TypeOK
  OBVIOUS
<1>1. timer \in 0..Period /\ restarts \in 0..MaxRestarts /\ sends \in 0..MaxSends
  BY HoursAssumption, BatchAssumption DEF Init
<1>2. reading \in [at : {"idle", "listing", "metas", "bins", "asked", "transcribed", "over"},
                   rest : SUBSET Chunk, asked : SUBSET Chunk, got : SUBSET Chunk,
                   whole : SUBSET Chunk]
  BY DEF Init, NoReading
<1> QED
  BY <1>1, <1>2 DEF Init, TypeOK, Stored

LEMMA OlderType ==
    ASSUME NEW a \in Nat \cup {None}
    PROVE  /\ Older(a) \in Nat \cup {None}
           /\ Older(a) = None <=> a = None
BY LongestIsNat, NoneIsNoAge DEF Older

LEMMA TypeUploads ==
    ASSUME TypeOK, NEW c \in Chunk, storeAudioChunk(c)
    PROVE  TypeOK'
<1>1. ASSUME storeAudioObject(c) PROVE TypeOK'
  BY <1>1, NoneIsNoAge, BatchAssumption DEF TypeOK, storeAudioObject, Stored, clock
<1>2. ASSUME WriteMetadata(c) PROVE TypeOK'
  BY <1>2 DEF TypeOK, WriteMetadata, Writable, Stored, clock
<1> QED
  BY <1>1, <1>2 DEF storeAudioChunk

LEMMA TypeErasures ==
    ASSUME TypeOK, NEW e \in Eraser, deletePrivacy(e)
    PROVE  TypeOK'
<1>1. ASSUME BeginErasure(e) PROVE TypeOK'
  BY <1>1 DEF TypeOK, BeginErasure, Stored, store, uploads, clock
<1>2. ASSUME deleteAudioObjects(e) PROVE TypeOK'
  BY <1>2 DEF TypeOK, deleteAudioObjects, Unlink, Stored, uploads, clock
<1>3. ASSUME AnswerErasure(e) PROVE TypeOK'
  BY <1>3 DEF TypeOK, AnswerErasure, Stored, store, uploads, clock
<1> QED
  BY <1>1, <1>2, <1>3 DEF deletePrivacy

LEMMA TypeSweep ==
    ASSUME TypeOK, runRetentionSweep
    PROVE  TypeOK'
<1>1. Evicted \subseteq Chunk
  BY DEF Evicted
<1>2. age' \in [Chunk -> Nat \cup {None}] /\ meta' \subseteq Chunk /\ dir' \in BOOLEAN
  BY <1>1 DEF TypeOK, runRetentionSweep, Unlink
<1>3. ~dir' => meta' = {} /\ \A c \in Chunk : ~Stored(c)'
  BY <1>1 DEF TypeOK, runRetentionSweep, Unlink, Stored
<1> QED
  BY <1>1, <1>2, <1>3, HoursAssumption
  DEF TypeOK, runRetentionSweep, Unlink, uploads

LEMMA TypeTick ==
    ASSUME TypeOK, Tick
    PROVE  TypeOK'
<1>1. age' \in [Chunk -> Nat \cup {None}]
      /\ \A c \in Chunk : Stored(c)' <=> Stored(c)
  BY OlderType DEF TypeOK, Tick, Stored
<1> QED
  BY <1>1, HoursAssumption DEF TypeOK, Tick, uploads

\* The steps of the transcription leave all else alone.
LEMMA ReadingAlone ==
    ASSUME transcribeSession
    PROVE  UNCHANGED <<retention, store, uploads, erasure, clock>>
BY DEF transcribeSession, BeginReading, List, readAllOf, readFileAsync, AllRead, transcribeAudio

LEMMA BatchesOf ==
    ASSUME NEW files, NEW b \in Batches(files)
    PROVE  b \subseteq files
BY DEF Batches

LEMMA TypeReading ==
    ASSUME TypeOK, transcribeSession
    PROVE  TypeOK'
<1> DEFINE Places == {"idle", "listing", "metas", "bins", "asked", "transcribed", "over"}
           R == [at : Places, rest : SUBSET Chunk, asked : SUBSET Chunk, got : SUBSET Chunk,
                 whole : SUBSET Chunk]
<1>0. reading \in R /\ Over \in R
  BY DEF TypeOK, Over, NoReading
<1>1. reading' \in R
  <2>1. ASSUME BeginReading PROVE reading' \in R
    BY <1>0, <2>1 DEF BeginReading
  <2>2. ASSUME List PROVE reading' \in R
    BY <1>0, <2>2 DEF List, Whole, TypeOK
  <2>3. ASSUME readAllOf PROVE reading' \in R
    <3>1. PICK b \in Batches(reading.rest) :
                 reading' = [reading EXCEPT !.asked = b, !.rest = @ \ b]
      BY <2>3 DEF readAllOf
    <3>2. b \subseteq reading.rest
      BY BatchesOf
    <3> QED
      BY <1>0, <3>1, <3>2
  <2>4. ASSUME NEW c \in Chunk, readFileAsync(c) PROVE reading' \in R
    BY <1>0, <2>4 DEF readFileAsync
  <2>5. ASSUME AllRead PROVE reading' \in R
    BY <1>0, <2>5 DEF AllRead
  <2>6. ASSUME transcribeAudio PROVE reading' \in R
    BY <1>0, <2>6 DEF transcribeAudio
  <2> QED
    BY <2>1, <2>2, <2>3, <2>4, <2>5, <2>6 DEF transcribeSession
<1> QED
  BY <1>1, ReadingAlone DEF TypeOK, store, uploads, clock, Stored

LEMMA TypeRestart ==
    ASSUME TypeOK, Restart
    PROVE  TypeOK'
<1>1. reading' \in {reading, Over}
  BY DEF Restart
<1>2. upload' \in [Chunk -> {"none", "writing", "stored", "failed"}]
  BY DEF TypeOK, Restart, Lost
<1>3. erasure' \in [Eraser -> {"idle", "found", "removed", "tombstoned", "residue", "failed"}]
  BY DEF TypeOK, Restart, Lost
<1>4. restarts' \in 0..MaxRestarts /\ timer' \in 0..Period
  BY BatchAssumption, HoursAssumption DEF TypeOK, Restart
<1> QED
  BY <1>1, <1>2, <1>3, <1>4 DEF TypeOK, Restart, store, Over, NoReading, Stored

LEMMA TypeNext == TypeOK /\ [Next]_vars => TypeOK'
<1> SUFFICES ASSUME TypeOK, [Next]_vars PROVE TypeOK'
  OBVIOUS
<1>1. CASE UNCHANGED vars
  BY <1>1 DEF TypeOK, vars, store, uploads, clock, Stored
<1> QED
  BY <1>1, TypeUploads, TypeErasures, TypeSweep, TypeTick, TypeReading, TypeRestart DEF Next

\* Every variable keeps its type, and where there is no directory there are no
\* files.
THEOREM TypeCorrect == Spec => []TypeOK
BY TypeInit, TypeNext, PTL DEF Spec

-----------------------------------------------------------------------------
(* Retention.                                                              *)

\* The age of a recording follows the clock of the sweep: what is due at a sweep
\* goes then, and a restart sets the clock back by a period at most.
AgeBounded ==
    retention # "training-opt-in" =>
        \A c \in Chunk : Stored(c) => age[c] <= Allowed + Period * restarts + timer

\* The numbers these steps are about.
LEMMA Numbers ==
    ASSUME TypeOK
    PROVE  /\ Allowed \in Nat /\ Period \in Nat /\ restarts \in Nat
           /\ timer \in Nat /\ timer <= Period
           /\ Period * restarts \in Nat
           /\ Period * (restarts + 1) = Period * restarts + Period
           /\ \A c \in Chunk : Stored(c) => age[c] \in Nat
<1>1. Allowed \in Nat /\ Period \in Nat
  BY HoursAssumption DEF Allowed
<1>2. restarts \in Nat /\ timer \in Nat /\ timer <= Period
  BY BatchAssumption, HoursAssumption DEF TypeOK
<1>3. \A p, n \in Nat : p * n \in Nat /\ p * (n + 1) = p * n + p
  OBVIOUS
<1>4. \A c \in Chunk : Stored(c) => age[c] \in Nat
  BY DEF TypeOK, Stored
<1> QED
  BY <1>1, <1>2, <1>3, <1>4

\* What the sweep leaves is as young as its retention asks.
LEMMA SweepLeaves ==
    ASSUME DiscardHours <= ReviewHours, TypeOK, runRetentionSweep,
           retention # "training-opt-in", NEW c \in Chunk, Stored(c)'
    PROVE  Stored(c) /\ age'[c] = age[c] /\ age[c] <= Allowed
<1>1. age'[c] = age[c] /\ c \notin Evicted
  BY DEF runRetentionSweep, Unlink, Stored
<1>2. Stored(c)
  BY <1>1 DEF Stored
<1>3. age[c] \in Nat
  BY <1>2, Numbers
<1>4. RetentionOf(c) # "training-opt-in" /\ retentionTtlHours(RetentionOf(c)) \in Nat
      /\ retentionTtlHours(RetentionOf(c)) <= Allowed
  BY HoursAssumption DEF RetentionOf, retentionTtlHours, Allowed
<1>5. ~(age[c] > retentionTtlHours(RetentionOf(c)))
  BY <1>1, <1>2, <1>4 DEF Evicted
<1> QED
  BY <1>1, <1>2, <1>3, <1>4, <1>5, Numbers

LEMMA AgeStep ==
    ASSUME DiscardHours <= ReviewHours, TypeOK, TypeOK', AgeBounded, [Next]_vars
    PROVE  AgeBounded'
<1> SUFFICES ASSUME retention' # "training-opt-in", NEW c \in Chunk, Stored(c)'
             PROVE  age'[c] <= Allowed' + Period * restarts' + timer'
  BY DEF AgeBounded
<1>1. retention' = retention /\ Allowed' = Allowed
  BY DEF Next, vars, Allowed, storeAudioChunk, storeAudioObject, WriteMetadata, deletePrivacy,
         BeginErasure, deleteAudioObjects, AnswerErasure, runRetentionSweep, Tick,
         transcribeSession, BeginReading, List, readAllOf, readFileAsync, AllRead,
         transcribeAudio, Restart
<1>2. Stored(c) => age[c] <= Allowed + Period * restarts + timer
  BY <1>1 DEF AgeBounded
<1>3. /\ Stored(c) => age[c] \in Nat
      /\ age'[c] \in Nat
  BY Numbers DEF TypeOK, Stored
<1>4. ASSUME UNCHANGED clock, (Stored(c) /\ age'[c] = age[c]) \/ age'[c] = 0
      PROVE  age'[c] <= Allowed' + Period * restarts' + timer'
  BY <1>1, <1>2, <1>3, <1>4, Numbers DEF clock
<1>5. ASSUME NEW d \in Chunk, storeAudioChunk(d)
      PROVE  age'[c] <= Allowed' + Period * restarts' + timer'
  BY <1>4, <1>5 DEF storeAudioChunk, storeAudioObject, WriteMetadata, TypeOK, Stored
<1>6. ASSUME NEW e \in Eraser, deletePrivacy(e)
      PROVE  age'[c] <= Allowed' + Period * restarts' + timer'
  BY <1>4, <1>6
  DEF deletePrivacy, BeginErasure, deleteAudioObjects, AnswerErasure, Unlink, store, Stored
<1>7. CASE runRetentionSweep
  <2>1. age'[c] = age[c] /\ age[c] <= Allowed /\ age[c] \in Nat
    BY <1>1, <1>3, <1>7, SweepLeaves
  <2>2. timer' = 0 /\ restarts' = restarts
    BY <1>7 DEF runRetentionSweep
  <2> QED
    BY <1>1, <2>1, <2>2, Numbers
<1>8. CASE Tick
  <2>1. age'[c] = Older(age[c]) /\ timer' = timer + 1 /\ restarts' = restarts
    BY <1>8 DEF Tick
  <2>2. Stored(c)
    BY <2>1, NoneIsNoAge DEF Stored, Older
  <2>3. age'[c] <= age[c] + 1
    BY <1>3, <2>1, <2>2 DEF Older
  <2> QED
    BY <1>1, <1>2, <1>3, <2>1, <2>2, <2>3, Numbers
<1>9. CASE transcribeSession \/ UNCHANGED vars
  BY <1>4, <1>9, ReadingAlone DEF store, vars, Stored
<1>10. CASE Restart
  <2>1. age' = age /\ timer' = 0 /\ restarts' = restarts + 1
    BY <1>10 DEF Restart, store
  <2>2. Period * restarts' = Period * restarts + Period
    BY <2>1, Numbers
  <2> QED
    BY <1>1, <1>2, <1>3, <2>1, <2>2, Numbers DEF Stored
<1> QED
  BY <1>5, <1>6, <1>7, <1>8, <1>9, <1>10 DEF Next

\* No recording is kept longer than its retention allows and the sweeps that
\* restarts put off (runRetentionSweep): for configurations that discard no later
\* than they end a review, as the defaults do, since a recording without metadata
\* is swept as one to be discarded.
THEOREM RetentionCorrect ==
    ASSUME DiscardHours <= ReviewHours
    PROVE  Spec => []RetentionHonoured
<1>1. Init => AgeBounded
  BY DEF Init, AgeBounded, Stored
<1>2. TypeOK /\ TypeOK' /\ AgeBounded /\ [Next]_vars => AgeBounded'
  BY AgeStep
<1>3. TypeOK /\ AgeBounded => RetentionHonoured
  <2> SUFFICES ASSUME TypeOK, AgeBounded, retention # "training-opt-in",
                      NEW c \in Chunk, Stored(c)
               PROVE  age[c] <= Allowed + Period * (restarts + 1)
    BY DEF RetentionHonoured
  <2> QED
    BY Numbers DEF AgeBounded
<1> QED
  BY <1>1, <1>2, <1>3, TypeCorrect, PTL DEF Spec

-----------------------------------------------------------------------------
(* What was acknowledged.                                                  *)

\* The audio of an acknowledged chunk lies beside its metadata.
AcknowledgedKnown == \A c \in Chunk : upload[c] = "stored" /\ Stored(c) => c \in meta

LEMMA AcknowledgedStep ==
    ASSUME TypeOK, AcknowledgedKnown, [Next]_vars
    PROVE  AcknowledgedKnown'
<1> SUFFICES ASSUME NEW c \in Chunk, upload'[c] = "stored", Stored(c)'
             PROVE  c \in meta'
  BY DEF AcknowledgedKnown
<1>1. ASSUME NEW d \in Chunk, storeAudioObject(d) PROVE c \in meta'
  BY <1>1 DEF storeAudioObject, AcknowledgedKnown, TypeOK, Stored
<1>2. ASSUME NEW d \in Chunk, WriteMetadata(d) PROVE c \in meta'
  BY <1>2 DEF WriteMetadata, AcknowledgedKnown, TypeOK, Stored
<1>3. ASSUME NEW e \in Eraser, deletePrivacy(e) PROVE c \in meta'
  BY <1>3 DEF deletePrivacy, BeginErasure, deleteAudioObjects, AnswerErasure, Unlink, store,
              uploads, AcknowledgedKnown, Stored
<1>4. CASE runRetentionSweep
  BY <1>4 DEF runRetentionSweep, Unlink, uploads, AcknowledgedKnown, Stored
<1>5. CASE Tick
  BY <1>5, OlderType DEF Tick, uploads, AcknowledgedKnown, Stored, TypeOK
<1>6. CASE transcribeSession \/ UNCHANGED vars
  BY <1>6, ReadingAlone DEF vars, store, uploads, AcknowledgedKnown, Stored
<1>7. CASE Restart
  BY <1>7 DEF Restart, Lost, store, AcknowledgedKnown, Stored
<1> QED
  BY <1>1, <1>2, <1>3, <1>4, <1>5, <1>6, <1>7 DEF Next, storeAudioChunk

\* Acknowledged audio goes only in an erasure, or once its own retention is over.
LEMMA AcknowledgedGoes ==
    ASSUME TypeOK, AcknowledgedKnown, [Next]_vars,
           NEW c \in Chunk, upload[c] = "stored", Stored(c), ~Stored(c)'
    PROVE  \/ \E e \in Eraser : erasure[e] = "found" /\ erasure'[e] = "removed"
           \/ retention # "training-opt-in" /\ age[c] > Allowed
<1>1. ASSUME NEW d \in Chunk, storeAudioChunk(d) PROVE FALSE
  BY <1>1, NoneIsNoAge DEF storeAudioChunk, storeAudioObject, WriteMetadata, Stored, TypeOK
<1>2. ASSUME NEW e \in Eraser, deletePrivacy(e)
      PROVE  erasure[e] = "found" /\ erasure'[e] = "removed"
  BY <1>2 DEF deletePrivacy, BeginErasure, deleteAudioObjects, AnswerErasure, store, Stored,
              TypeOK
<1>3. ASSUME runRetentionSweep PROVE retention # "training-opt-in" /\ age[c] > Allowed
  <2>1. c \in Evicted
    BY <1>3 DEF runRetentionSweep, Unlink, Stored
  <2>2. RetentionOf(c) = retention
    BY DEF AcknowledgedKnown, RetentionOf
  <2> QED
    BY <2>1, <2>2 DEF Evicted, retentionTtlHours, Allowed
<1>4. ASSUME Tick PROVE FALSE
  BY <1>4, OlderType DEF Tick, Stored, TypeOK
<1>5. ASSUME transcribeSession \/ Restart \/ UNCHANGED vars PROVE FALSE
  BY <1>5, ReadingAlone DEF Restart, vars, store, Stored
<1> QED
  BY <1>1, <1>2, <1>3, <1>4, <1>5 DEF Next

\* No acknowledged recording leaves the store early, however sweeps, retries and
\* crashes fall (storeAudioChunk, runRetentionSweep, deletePrivacy).
THEOREM AudioKept == Spec => KeptUntilDue
<1>1. Init => AcknowledgedKnown
  BY DEF Init, AcknowledgedKnown
<1>2. TypeOK /\ AcknowledgedKnown /\ [Next]_vars => AcknowledgedKnown'
  BY AcknowledgedStep
<1>3. TypeOK /\ AcknowledgedKnown /\ [Next]_vars =>
        [\A c \in Chunk :
           upload[c] = "stored" /\ Stored(c) /\ ~Stored(c)' =>
             \/ \E e \in Eraser : erasure[e] = "found" /\ erasure'[e] = "removed"
             \/ retention # "training-opt-in" /\ age[c] > Allowed]_vars
  BY AcknowledgedGoes
<1> QED
  BY <1>1, <1>2, <1>3, TypeCorrect, PTL DEF Spec, KeptUntilDue

-----------------------------------------------------------------------------
(* The transcript.                                                         *)

\* Chunks that were there throughout are still there, and have been read, are being
\* read or will be.
ReadingFollows ==
    /\ reading.at \in {"metas", "bins"} =>
          /\ reading.whole \subseteq reading.rest \cup reading.asked \cup reading.got
          /\ \A c \in reading.whole : c \in meta /\ Stored(c)
    /\ reading.at \in {"asked", "transcribed"} => reading.whole \subseteq reading.got

\* What stores audio and metadata, or removes it, disturbs none of them.
LEMMA OthersLeaveReading ==
    ASSUME TypeOK, ReadingFollows,
           UNCHANGED reading,
           \A c \in Chunk : (Stored(c) => Stored(c)') /\ (c \in meta => c \in meta')
    PROVE  ReadingFollows'
BY DEF ReadingFollows, TypeOK

LEMMA ReadingStep ==
    ASSUME TypeOK, ReadingFollows, transcribeSession
    PROVE  ReadingFollows'
<1>1. UNCHANGED <<meta, age>> /\ \A c \in Chunk : Stored(c)' = Stored(c)
  BY ReadingAlone DEF store, Stored
<1>2. ASSUME BeginReading PROVE ReadingFollows'
  BY <1>2 DEF BeginReading, ReadingFollows, TypeOK
<1>3. ASSUME List PROVE ReadingFollows'
  <2>1. CASE dir
    BY <1>1, <1>3, <2>1 DEF List, ReadingFollows, Whole, TypeOK, Stored
  <2>2. CASE ~dir
    BY <1>3, <2>2 DEF List, ReadingFollows, Over, NoReading
  <2> QED
    BY <2>1, <2>2
<1>4. ASSUME readAllOf PROVE ReadingFollows'
  <2>1. PICK b \in Batches(reading.rest) :
               reading' = [reading EXCEPT !.asked = b, !.rest = @ \ b]
    BY <1>4 DEF readAllOf
  <2>2. b \subseteq reading.rest /\ reading.asked = {}
    BY <1>4, BatchesOf DEF readAllOf
  <2>3. /\ reading'.at = reading.at /\ reading'.whole = reading.whole
        /\ reading'.got = reading.got /\ reading'.asked = b
        /\ reading'.rest = reading.rest \ b
    BY <2>1 DEF TypeOK
  <2> QED
    BY <1>1, <2>2, <2>3 DEF ReadingFollows, Stored
<1>5. ASSUME NEW c \in Chunk, readFileAsync(c) PROVE ReadingFollows'
  <2>1. /\ reading'.at = reading.at /\ reading'.whole = reading.whole
        /\ reading'.asked = reading.asked \ {c} /\ reading'.rest = reading.rest
        /\ reading'.got = IF There(c) THEN reading.got \cup {c} ELSE reading.got
    BY <1>5 DEF readFileAsync, TypeOK
  <2>2. reading.at \in {"metas", "bins"} /\ c \in reading.whole => There(c)
    BY DEF ReadingFollows, There
  <2> QED
    BY <1>1, <2>1, <2>2 DEF ReadingFollows, Stored
<1>6. ASSUME AllRead PROVE ReadingFollows'
  <2>1. reading.asked = {} /\ reading.rest = {}
    BY <1>6 DEF AllRead, AllAsked
  <2>2. CASE reading.at = "metas"
    BY <1>1, <1>6, <2>1, <2>2 DEF AllRead, ReadingFollows, TypeOK, Stored
  <2>3. CASE reading.at = "bins" /\ reading.got # {}
    BY <1>6, <2>1, <2>3 DEF AllRead, ReadingFollows, TypeOK
  <2>4. CASE reading.at = "bins" /\ reading.got = {}
    BY <1>6, <2>4 DEF AllRead, ReadingFollows, Over, NoReading
  <2> QED
    BY <1>6, <2>2, <2>3, <2>4 DEF AllRead
<1>7. ASSUME transcribeAudio PROVE ReadingFollows'
  BY <1>7 DEF transcribeAudio, ReadingFollows, Over, NoReading, TypeOK
<1> QED
  BY <1>2, <1>3, <1>4, <1>5, <1>6, <1>7 DEF transcribeSession

LEMMA ReadingFollowsStep ==
    ASSUME TypeOK, ReadingFollows, [Next]_vars
    PROVE  ReadingFollows'
<1>1. ASSUME NEW c \in Chunk, storeAudioChunk(c) PROVE ReadingFollows'
  BY <1>1, NoneIsNoAge, OthersLeaveReading
  DEF storeAudioChunk, storeAudioObject, WriteMetadata, Stored, TypeOK
<1>2. ASSUME NEW e \in Eraser, deletePrivacy(e) PROVE ReadingFollows'
  <2>1. CASE deleteAudioObjects(e)
    <3>1. reading' = [reading EXCEPT !.whole = @ \ Chunk] /\ reading'.whole = {}
      BY <2>1 DEF deleteAudioObjects, Unlink, TypeOK
    <3> QED
      BY <3>1 DEF ReadingFollows
  <2>2. CASE BeginErasure(e) \/ AnswerErasure(e)
    BY <2>2, OthersLeaveReading DEF BeginErasure, AnswerErasure, store, Stored
  <2> QED
    BY <1>2, <2>1, <2>2 DEF deletePrivacy
<1>3. CASE runRetentionSweep
  <2>1. /\ reading'.at = reading.at /\ reading'.whole = reading.whole \ Evicted
        /\ reading'.rest = reading.rest /\ reading'.asked = reading.asked
        /\ reading'.got = reading.got
    BY <1>3 DEF runRetentionSweep, Unlink, TypeOK
  <2>2. \A c \in Chunk \ Evicted : /\ Stored(c)' = Stored(c)
                                   /\ c \in meta => c \in meta'
    BY <1>3 DEF runRetentionSweep, Unlink, Stored
  <2>3. reading.whole \subseteq Chunk
    BY DEF TypeOK
  <2> QED
    BY <2>1, <2>2, <2>3 DEF ReadingFollows
<1>4. CASE Tick
  BY <1>4, OlderType, OthersLeaveReading DEF Tick, Stored, TypeOK
<1>5. CASE transcribeSession
  BY <1>5, ReadingStep
<1>6. CASE Restart
  <2>1. CASE UNCHANGED reading
    BY <1>6, <2>1, OthersLeaveReading DEF Restart, store, Stored
  <2>2. CASE reading' = Over
    BY <2>2 DEF ReadingFollows, Over, NoReading
  <2> QED
    BY <1>6, <2>1, <2>2 DEF Restart
<1>7. CASE UNCHANGED vars
  BY <1>7, OthersLeaveReading DEF vars, store, Stored
<1> QED
  BY <1>1, <1>2, <1>3, <1>4, <1>5, <1>6, <1>7 DEF Next

\* A chunk that was neither read nor reported lies outside all that was read.
LEMMA GapsAreInterior ==
    ASSUME NEW seqs \in SUBSET Chunk,
           NEW n \in Chunk \ (seqs \cup interiorSequenceGaps(seqs))
    PROVE  (\A c \in seqs : n < c) \/ (\A c \in seqs : c < n)
<1>1. n \in Nat /\ \A c \in seqs : c \in Nat /\ c # n
  BY ChunkAssumption
<1>2. ~(\E a \in seqs : a < n) \/ ~(\E b \in seqs : n < b)
  BY DEF interiorSequenceGaps
<1> QED
  BY <1>1, <1>2

\* A transcript misses nothing that stayed in place while it was read, and says
\* which chunks between those it has read it lacks (transcribeSession,
\* interiorSequenceGaps).
THEOREM TranscriptCorrect == Spec => []TranscriptIsWhole
<1>1. Init => ReadingFollows
  BY DEF Init, NoReading, ReadingFollows
<1>2. TypeOK /\ ReadingFollows /\ [Next]_vars => ReadingFollows'
  BY ReadingFollowsStep
<1>3. TypeOK /\ ReadingFollows => TranscriptIsWhole
  <2> SUFFICES ASSUME TypeOK, ReadingFollows, reading.at = "transcribed"
               PROVE  /\ reading.whole \subseteq reading.got
                      /\ \A n \in Chunk \ (reading.got \cup interiorSequenceGaps(reading.got)) :
                           (\A c \in reading.got : n < c) \/ (\A c \in reading.got : c < n)
    BY DEF TranscriptIsWhole
  <2>1. reading.got \in SUBSET Chunk
    BY DEF TypeOK
  <2> QED
    BY <2>1, GapsAreInterior DEF ReadingFollows
<1> QED
  BY <1>1, <1>2, <1>3, TypeCorrect, PTL DEF Spec

-----------------------------------------------------------------------------
(* What is heard.                                                          *)

\* Audio goes nowhere without the consent that is audited, and no word is judged on
\* nothing, whatever a transcription read (predictAlignment).
THEOREM JudgedAsHeard == Spec => []JudgedOnWhatWasHeard
<1>1. \A S : \A n \in Nat : UpTo(n, S) \subseteq Seq(S)
  BY DEF UpTo
<1>2. ASSUME NEW transcribed \in BOOLEAN PROVE JudgedWith[transcribed]
  <2>1. ASSUME NEW q \in Requests, AudioSent(q)
        PROVE  AuditedAsCalled(q) /\ q.externalAsrProcessing /\ q.guardianApproved
    BY <2>1 DEF AudioSent, asrActuallyAllowed, asrAllowed, AuditedAsCalled, externalAsr, Requests
  <2>2. ASSUME NEW q \in Requests, NEW written \in UpTo(1, Written), NEW asr \in UpTo(2, Spoken),
               NEW text \in UpTo(1, Spoken)
        PROVE  Judged(q, written, asr, text)
    BY <1>1, RequestJudged
  <2> QED
    BY <2>1, <2>2 DEF JudgedWith
<1>3. JudgedOnWhatWasHeard
  BY <1>2 DEF JudgedOnWhatWasHeard
<1> QED
  BY <1>3, PTL

\* What a transcription has heard is aligned fairly: the pairing found for it is
\* the best, and the edits between two words are the fewest (alignWords).
THEOREM AlignedFairly == Spec => []AlignmentIsFair
<1>1. \A S : \A n \in Nat : UpTo(n, S) \subseteq Seq(S)
  BY DEF UpTo
<1>2. ASSUME NEW n \in 0..MaxWords PROVE FairUpTo[n]
  <2>1. n \in Nat /\ MaxWords \in Nat
    BY WordAssumption
  <2>2. EditsAreLeast(n)
    <3> SUFFICES ASSUME NEW a \in UpTo(n, {"alef", "waw", "hamzaWaw"}),
                        NEW b \in UpTo(n, {"alef", "waw", "hamzaWaw"})
                 PROVE  levenshtein(a, b) = LeastEdits(a, b)
      BY DEF EditsAreLeast
    <3>1. a \in Seq({"alef", "waw", "hamzaWaw"}) /\ b \in Seq({"alef", "waw", "hamzaWaw"})
      BY <1>1, <2>1
    <3> QED
      BY <3>1, FewestEdits
  <2>3. ASSUME NEW written \in UpTo(MaxWords, Written), NEW spoken \in UpTo(n, Spoken)
        PROVE  FairAlignment(written, spoken)
    <3>1. written \in Seq(Written \cup Spoken) /\ spoken \in Seq(Written \cup Spoken)
      <4>1. UpTo(MaxWords, Written) \subseteq UpTo(MaxWords, Written \cup Spoken)
        BY DEF UpTo
      <4>2. UpTo(n, Spoken) \subseteq UpTo(n, Written \cup Spoken)
        BY DEF UpTo
      <4> QED
        BY <1>1, <2>1, <2>3, <4>1, <4>2
    <3> QED
      BY <3>1, AlignsFairly
  <2> QED
    BY <2>2, <2>3 DEF FairUpTo
<1>3. TypeOK => AlignmentIsFair
  <2> SUFFICES ASSUME TypeOK PROVE Cardinality(reading.got) \in 0..MaxWords
    BY <1>2 DEF AlignmentIsFair
  <2>1. reading.got \in SUBSET Chunk
    BY DEF TypeOK
  <2>2. Cardinality(reading.got) \in Nat /\ Cardinality(reading.got) <= Cardinality(Chunk)
    BY <2>1, RecitationAssumption, FS_Subset, FS_CardinalityType
  <2>3. Cardinality(Chunk) \in Nat /\ MaxWords \in Nat
    BY RecitationAssumption, WordAssumption, FS_CardinalityType
  <2> QED
    BY <2>2, <2>3, RecitationAssumption
<1> QED
  BY <1>3, TypeCorrect, PTL
=============================================================================
