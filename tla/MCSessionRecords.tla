-------------------------- MODULE MCSessionRecords --------------------------
(* Instances of SessionRecords for TLC.                                      *)
EXTENDS SessionRecords, TLC

CONSTANTS s1, a1, a2, f1, f2, v1, v2, m1, e1

All == {a1, a2, f1, f2, v1, v2, m1, e1}

KindOfAll ==
  [r \in All |-> CASE r \in {a1, a2} -> "realign" [] r \in {f1, f2} -> "analyse"
                   [] r \in {v1, v2} -> "review" [] r = m1 -> "send" [] r = e1 -> "erase"]

(* Two realignments and two analyses around a review; a review and a         *)
(* realignment around an erasure, twice each; a session sent meanwhile.      *)
Races == {{a1, a2, f1, f2, v1}, {a1, a2, f1, v1, e1}, {a1, f1, v1, v2, e1}, {a1, m1, e1}}
=============================================================================
