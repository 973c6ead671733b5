--------------------------- MODULE WriteOnceArchive ---------------------------
(***************************************************************************)
(* What the pipeline promises about a learner's recording, whatever        *)
(* connections, retries and failures are behind it: every chunk it takes   *)
(* ends up in the archive or on a list of write-offs, and a slot of the    *)
(* archive, once filled, keeps what it holds.                              *)
(*                                                                         *)
(* A chunk may be both archived and written off: the caller cannot tell a  *)
(* lost request from a lost answer.                                        *)
(***************************************************************************)
CONSTANTS Slot, Item, Empty, Chunk, SlotOf(_), ItemOf(_)

VARIABLES taken, archive, writtenOff

Init ==
    /\ taken = {}
    /\ archive = [i \in Slot |-> Empty]
    /\ writtenOff = {}

Take(k) ==
    /\ k \notin taken
    /\ taken' = taken \cup {k}
    /\ UNCHANGED <<archive, writtenOff>>

Archive(k) ==
    /\ k \in taken
    /\ archive[SlotOf(k)] = Empty
    /\ archive' = [archive EXCEPT ![SlotOf(k)] = ItemOf(k)]

WriteOffs ==
    /\ writtenOff \subseteq writtenOff'
    /\ writtenOff' \subseteq taken

Next ==
    \/ \E k \in Chunk : Take(k)
    \/ \E k \in Chunk : Archive(k) /\ WriteOffs /\ UNCHANGED taken
    \/ WriteOffs /\ UNCHANGED <<taken, archive>>

Spec == Init /\ [][Next]_<<taken, archive, writtenOff>>
=============================================================================
