---------------------------- MODULE MCWebClient ----------------------------
(* An instance of WebClient for TLC.                                         *)
EXTENDS WebClient

CONSTANTS s1, s2, f1, f2

(* The two steps in which the learner recites are like the first for every   *)
(* handler, and are left out.                                                *)
SomeSteps == <<"listen", "correction", "drill", "complete">>

(* A finding of each session.                                                *)
FindingsOf == [f \in {f1, f2} |-> IF f = f1 THEN s1 ELSE s2]
=============================================================================
