SPECIFICATION Spec
CONSTANTS
  None = None
  e1 = e1
  Chunk = {1, 2, 3}
  Eraser = {e1}
  DiscardHours = 0
  ReviewHours = 1
  Period = 1
  Batch = 2
  MaxSends = 3
  MaxRestarts = 1
  Written <- Passage
  Spoken <- Recited
  MaxWords = 3
INVARIANTS  TranscriptIsWhole AlignmentIsFair 
PROPERTY KeptUntilDue
CHECK_DEADLOCK FALSE
