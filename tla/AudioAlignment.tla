--------------------------- MODULE AudioAlignment ---------------------------
(* What a transcription has heard in the audio of LearnerAudio is aligned,   *)
(* as Alignment has it: no more than a word to a chunk that was read, and    *)
(* any words at that.                                                        *)
EXTENDS LearnerAudio, Alignment

ASSUME RecitationAssumption == IsFiniteSet(Chunk) /\ Cardinality(Chunk) <= MaxWords

(* The alignment of a recitation (alignWords) is fair to the learner,        *)
(* whatever is skipped, repeated, inserted or misheard.  A recognised word   *)
(* is heard for one canonical word or is extra; words are heard in order;    *)
(* pause marks get no verdict; a verdict is what the similarity says; no     *)
(* other pairing of the recitation has a larger sum, a word left out         *)
(* counting half of what a pair must reach; and the edits between two words  *)
(* are counted along their cheapest pairing of letters.                      *)
AlignmentIsFair == reading.at = "transcribed" => FairUpTo[Cardinality(reading.got)]

(* Audio goes to the recogniser only with the consent that the audit trail   *)
(* records, a child's only with a guardian's; and where nothing was          *)
(* recognised no word is called matched, misread or missed, and nothing      *)
(* bypasses the teacher (predictAlignment).                                  *)
JudgedOnWhatWasHeard ==
  reading.at \in {"transcribed", "over"} => JudgedWith[reading.at = "transcribed"]
=============================================================================
